--------------------------- MODULE KeeperWorkflow ---------------------------
(***************************************************************************)
(* apps/x402-keeper/src/workflow.ts.  Several workers (HTTP calls and the  *)
(* reconciler, in one process or more) move the orders of one store.  A    *)
(* worker gives way at every await: what it read before may be old when it *)
(* writes, and only the compare-and-set protects it.  Between an external  *)
(* call (submit, settle, refund) and its write a worker may fail or crash. *)
(*                                                                         *)
(* Issuer, facilitator, refund and submission adapters are injected and    *)
(* taken at their word as little as the code takes them: the adapter may   *)
(* name any transaction, and a second settle of a payment may report       *)
(* either outcome.  The chain registers a name once, a permit once, and at *)
(* the price of the permit.                                                *)
(*                                                                         *)
(* Covered: crash or failure at every await, lost answers, repeated calls, *)
(* concurrent workers, pausing, changing prices.  Not covered: a           *)
(* facilitator that takes money for a payment twice; the loss of the store.*)
(***************************************************************************)
EXTENDS OrderStore

CONSTANTS
  Workers,
  MaxOrderBaseUnits    \* the spend policy

VARIABLES
  task,           \* what a worker does between two awaits
  paused,         \* the keeper's emergency pause
  price,          \* the price of a name on the chain
  registration,   \* the permit a name was registered under
  txs,            \* the transactions of the submission adapter
  captured,       \* the order a payment was taken for
  refundSent      \* the orders a refund was sent for

vars == <<orders, task, paused, price, registration, txs, captured, refundSent>>
externalVars == <<price, registration, txs, captured, refundSent>>

Idle == [step |-> "idle"]
Tasks ==
  {Idle} \cup [step : {"quote"}, key : Keys, name : Names]
         \cup [step : {"insert"}, key : Keys, name : Names, price : Prices]
         \cup [step : {"permit", "submit", "settle", "settled", "unsettled", "refund", "sent",
                       "receipt"}, key : Keys]
         \cup [step : {"verify"}, key : Keys, payment : Payments]
         \cup [step : {"submitted"}, key : Keys, tx : Txs]
Transactions ==
  [permit : Permits, name : Names, price : Prices, status : {"pending", "success", "reverted"}]

ASSUME KeeperAssumption == MaxOrderBaseUnits \in Nat /\ None \notin Transactions

KeeperInit ==
  /\ StoreInit
  /\ task = [w \in Workers |-> Idle]
  /\ paused = FALSE
  /\ price \in [Names -> Prices]
  /\ registration = [n \in Names |-> None]
  /\ txs = [t \in Txs |-> None]
  /\ captured = [p \in Payments |-> None]
  /\ refundSent = {}

At(w, step) == task[w].step = step
Become(w, t) == task' = [task EXCEPT ![w] = t]
Continue(w, step) == Become(w, [step |-> step, key |-> task[w].key])
Finish(w) == Become(w, Idle)

(***************************************************************************)
(* create: quote, store, and while the order is still "quoted" (a retry    *)
(* finds it so after a failure) ask for its permit.                        *)
(***************************************************************************)
CreateStart(w, k, n) ==
  /\ At(w, "idle") /\ ~paused
  /\ Become(w, [step |-> "quote", key |-> k, name |-> n])
  /\ UNCHANGED <<orders, paused, externalVars>>

Quote(w) ==
  /\ At(w, "quote")
  /\ LET n == task[w].name IN
     /\ price[n] <= MaxOrderBaseUnits
     /\ Become(w, [step |-> "insert", key |-> task[w].key, name |-> n, price |-> price[n]])
  /\ UNCHANGED <<orders, paused, externalVars>>

StoreCreate(w) ==
  /\ At(w, "insert")
  /\ LET k == task[w].key  n == task[w].name  p == task[w].price IN
     \/ /\ orders[k] = None
        /\ Put(k, NewOrder(n, p))
        /\ Continue(w, "permit")
     \/ /\ orders[k] # None
        /\ SameFingerprint(orders[k], n, p)
        /\ IF orders[k].state = "quoted" THEN Continue(w, "permit") ELSE Finish(w)
        /\ UNCHANGED orders
  /\ UNCHANGED <<paused, externalVars>>

\* As IssuePermit, but the update leaves the permit out.
IssuePermit_NoPatch(w, p) ==
  /\ At(w, "permit")
  /\ LET k == task[w].key IN
     /\ CanTransition(k, "quoted", "permit_issued")
     /\ Put(k, [orders[k] EXCEPT !.state = "permit_issued"])
  /\ Finish(w)
  /\ UNCHANGED <<paused, externalVars>>

IssuePermit(w, p) ==
  /\ At(w, "permit")
  /\ LET k == task[w].key IN
     /\ CanTransition(k, "quoted", "permit_issued")
     /\ UniqueIdentifiers => ~TakenPermit(k, p)
     /\ Put(k, [orders[k] EXCEPT !.state = "permit_issued", !.permit = p])
  /\ Finish(w)
  /\ UNCHANGED <<paused, externalVars>>

(***************************************************************************)
(* authorize: the payment is verified and bound to the order, which is     *)
(* then submitted; repeated with the same payment it submits again.        *)
(***************************************************************************)
AuthorizeStart(w, k, payment) ==
  /\ At(w, "idle") /\ ~paused
  /\ orders[k] # None
  /\ \/ /\ orders[k].state = "payment_authorized" /\ orders[k].payment = payment
        /\ Become(w, [step |-> "submit", key |-> k])
     \/ /\ orders[k].state = "permit_issued"
        /\ Become(w, [step |-> "verify", key |-> k, payment |-> payment])
  /\ UNCHANGED <<orders, paused, externalVars>>

\* The facilitator finds a payment valid while it was not used.
VerifyPayment(w) ==
  /\ At(w, "verify")
  /\ LET k == task[w].key  p == task[w].payment IN
     /\ captured[p] = None
     /\ CanTransition(k, "permit_issued", "payment_authorized")
     /\ UniqueIdentifiers => ~TakenPayment(k, p)
     /\ Put(k, [orders[k] EXCEPT !.state = "payment_authorized", !.payment = p])
  /\ Continue(w, "submit")
  /\ UNCHANGED <<paused, externalVars>>

(***************************************************************************)
(* submitAuthorized: the adapter sends the registration, or names one it   *)
(* has already sent; then the order records it.                            *)
(***************************************************************************)
SubmitRegistration(w, t) ==
  /\ At(w, "submit")
  /\ LET k == task[w].key IN
     /\ IF txs[t] = None
        THEN txs' = [txs EXCEPT ![t] = [permit |-> orders[k].permit, name |-> orders[k].name,
                                        price |-> orders[k].price, status |-> "pending"]]
        ELSE UNCHANGED txs
     /\ Become(w, [step |-> "submitted", key |-> k, tx |-> t])
  /\ UNCHANGED <<orders, paused, price, registration, captured, refundSent>>

RecordSubmission(w) ==
  /\ At(w, "submitted")
  /\ LET k == task[w].key IN
     /\ CanTransition(k, "payment_authorized", "registration_submitted")
     /\ Put(k, [orders[k] EXCEPT !.state = "registration_submitted", !.tx = task[w].tx])
  /\ Finish(w)
  /\ UNCHANGED <<paused, externalVars>>

(***************************************************************************)
(* reconcile: the next step of an order in the queue.                      *)
(***************************************************************************)
ReconcileStep ==
  [payment_authorized |-> "submit", registration_submitted |-> "receipt",
   registration_confirmed |-> "settle", refund_pending |-> "refund"]

ReconcileStart(w, k) ==
  /\ At(w, "idle")
  /\ k \in Reconcilable
  /\ Become(w, [step |-> ReconcileStep[orders[k].state], key |-> k])
  /\ UNCHANGED <<orders, paused, externalVars>>

\* As ReceiptProves, but any permit will do.
ReceiptProves_AnyPermit(order, tx) == tx.name = order.name /\ tx.price = order.price

\* assertReceiptProof: the receipt is about this permit, name and amount.
ReceiptProves(order, tx) ==
  /\ tx.permit = order.permit
  /\ tx.name = order.name
  /\ tx.price = order.price

\* What a mined transaction says of an order.
Verdict(order, tx) ==
  IF tx.status = "reverted" THEN "refund_pending"
  ELSE IF ReceiptProves(order, tx) THEN "registration_confirmed" ELSE "manual_review"

\* A pending receipt leaves the order; Fail stands for it.
CheckReceipt(w) ==
  /\ At(w, "receipt")
  /\ LET k == task[w].key  tx == txs[orders[k].tx] IN
     /\ orders[k].state = "registration_submitted"
     /\ tx.status # "pending"
     /\ CanTransition(k, "registration_submitted", Verdict(orders[k], tx))
     /\ Put(k, [orders[k] EXCEPT !.state = Verdict(orders[k], tx),
                                 !.token = Verdict(orders[k], tx) = "registration_confirmed"])
  /\ Finish(w)
  /\ UNCHANGED <<paused, externalVars>>

\* The facilitator takes the money of a payment once, whatever it answers.
Settle(w) ==
  /\ At(w, "settle")
  /\ LET k == task[w].key  p == orders[k].payment IN
     \/ /\ captured[p] = None
        /\ captured' = [captured EXCEPT ![p] = k]
        /\ Continue(w, "settled")
     \/ /\ captured[p] # None
        /\ Continue(w, "settled")
        /\ UNCHANGED captured
     \/ /\ Continue(w, "unsettled")
        /\ UNCHANGED captured
  /\ UNCHANGED <<orders, paused, price, registration, txs, refundSent>>

RecordSettlement(w) ==
  /\ task[w].step \in {"settled", "unsettled"}
  /\ LET k == task[w].key
         to == IF At(w, "settled") THEN "payment_settled" ELSE "manual_review" IN
     /\ CanTransition(k, "registration_confirmed", to)
     /\ Put(k, [orders[k] EXCEPT !.state = to])
  /\ Finish(w)
  /\ UNCHANGED <<paused, externalVars>>

SendRefund(w) ==
  /\ At(w, "refund")
  /\ refundSent' = refundSent \cup {task[w].key}
  /\ Continue(w, "sent")
  /\ UNCHANGED <<orders, paused, price, registration, txs, captured>>

RecordRefund(w) ==
  /\ At(w, "sent")
  /\ LET k == task[w].key IN
     /\ CanTransition(k, "refund_pending", "refunded")
     /\ Put(k, [orders[k] EXCEPT !.state = "refunded"])
  /\ Finish(w)
  /\ UNCHANGED <<paused, externalVars>>

\* A refusal, an error, a lost compare-and-set, a crash: what was done stays done.
Fail(w) ==
  /\ ~At(w, "idle")
  /\ Finish(w)
  /\ UNCHANGED <<orders, paused, externalVars>>

SetPaused ==
  /\ paused' = ~paused
  /\ UNCHANGED <<orders, task, externalVars>>

(***************************************************************************)
(* The chain.                                                              *)
(***************************************************************************)
MineSuccess(t) ==
  /\ txs[t] # None
  /\ txs[t].status = "pending"
  /\ registration[txs[t].name] = None
  /\ price[txs[t].name] = txs[t].price
  /\ \A n \in Names : registration[n] # txs[t].permit
  /\ registration' = [registration EXCEPT ![txs[t].name] = txs[t].permit]
  /\ txs' = [txs EXCEPT ![t].status = "success"]
  /\ UNCHANGED <<orders, task, paused, price, captured, refundSent>>

\* Also when the permit expired, the allowance is too small or somebody else has the
\* name.
MineRevert(t) ==
  /\ txs[t] # None
  /\ txs[t].status = "pending"
  /\ txs' = [txs EXCEPT ![t].status = "reverted"]
  /\ UNCHANGED <<orders, task, paused, price, registration, captured, refundSent>>

SetPrice(n, p) ==
  /\ price' = [price EXCEPT ![n] = p]
  /\ UNCHANGED <<orders, task, paused, registration, txs, captured, refundSent>>

WorkerNext(w) ==
  \/ \E k \in Keys, n \in Names : CreateStart(w, k, n)
  \/ Quote(w)
  \/ StoreCreate(w)
  \/ \E p \in Permits : IssuePermit(w, p)
  \/ \E k \in Keys, p \in Payments : AuthorizeStart(w, k, p)
  \/ VerifyPayment(w)
  \/ \E t \in Txs : SubmitRegistration(w, t)
  \/ RecordSubmission(w)
  \/ \E k \in Keys : ReconcileStart(w, k)
  \/ CheckReceipt(w)
  \/ Settle(w)
  \/ RecordSettlement(w)
  \/ SendRefund(w)
  \/ RecordRefund(w)
  \/ Fail(w)

ChainNext ==
  \/ \E t \in Txs : MineSuccess(t) \/ MineRevert(t)
  \/ \E n \in Names, p \in Prices : SetPrice(n, p)

KeeperNext == SetPaused \/ ChainNext \/ \E w \in Workers : WorkerNext(w)

KeeperSpec == KeeperInit /\ [][KeeperNext]_vars

(***************************************************************************)
(* Properties.                                                             *)
(***************************************************************************)

\* The variables have the types the code gives them.
KeeperTypeOK ==
  /\ orders \in [Keys -> KeeperOrder \cup {None}]
  /\ task \in [Workers -> Tasks]
  /\ paused \in BOOLEAN
  /\ price \in [Names -> Prices]
  /\ registration \in [Names -> Permits \cup {None}]
  /\ txs \in [Txs -> Transactions \cup {None}]
  /\ captured \in [Payments -> Keys \cup {None}]
  /\ refundSent \subseteq Keys

\* The name of the order was registered under the order's permit.
Registered(k) == /\ orders[k] # None
                 /\ orders[k].permit # None
                 /\ registration[orders[k].name] = orders[k].permit

Promise == INSTANCE PaidRegistration WITH
  Orders <- Keys,
  registered <- {k \in Keys : Registered(k)},
  captured <- {k \in Keys : \E p \in Payments : captured[p] = k},
  refunded <- refundSent

\* However workers interleave, fail and repeat calls, a payment is taken only for a
\* registered name, and a taken payment is not refunded, nor taken after a refund.
KeepsOrderPromise == Promise!PromiseSpec

\* What the store says of an order is what happened: a confirmed order is registered,
\* a settled one is paid with the payment bound to it, a refunded one was refunded and
\* no money was taken for it.
ConclusionIsTrue ==
  \A k \in Keys : orders[k] # None =>
    /\ orders[k].state \in {"registration_confirmed", "payment_settled"} => Registered(k)
    /\ orders[k].state = "payment_settled" => captured[orders[k].payment] = k
    /\ orders[k].state = "refunded" =>
         k \in refundSent /\ \A p \in Payments : captured[p] # k

=============================================================================
