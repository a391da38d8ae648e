----------------------- MODULE KeeperWorkflow_proofs -----------------------
(***************************************************************************)
(* Theorems about the keeper over a store with unique payment and permit   *)
(* identifiers (PostgresOrderStore), for any number of workers, orders,    *)
(* permits and transactions.                                               *)
(***************************************************************************)
EXTENDS KeeperWorkflow, TLAPS

\* Identifiers belong to one order.
IdentifiersUnique ==
  \A k, l \in Keys : (orders[k] # None /\ orders[l] # None /\ k # l) =>
    /\ orders[k].permit # None => orders[k].permit # orders[l].permit
    /\ orders[k].payment # None => orders[k].payment # orders[l].payment

\* What the fields of an order say of each other and of the chain.
FieldsFit(k) ==
  /\ orders[k].permit = None <=> orders[k].state = "quoted"
  /\ orders[k].payment = None <=> orders[k].state \in {"quoted", "permit_issued"}
  /\ orders[k].state = "registration_submitted" =>
       orders[k].tx # None /\ txs[orders[k].tx] # None
  /\ orders[k].state \in {"registration_confirmed", "payment_settled"} => orders[k].token
  /\ orders[k].token =>
       orders[k].state \in {"registration_confirmed", "payment_settled", "manual_review"}
  /\ orders[k].token => registration[orders[k].name] = orders[k].permit
  /\ orders[k].state = "payment_settled" => captured[orders[k].payment] = k
  /\ orders[k].state = "refunded" => k \in refundSent
OrdersFit == \A k \in Keys : orders[k] # None => FieldsFit(k)

\* A transaction carries the permit of an order, and what succeeded is on the chain.
ChainFits ==
  /\ \A t \in Txs : txs[t] # None =>
       /\ \E k \in Keys : orders[k] # None /\ orders[k].permit = txs[t].permit
       /\ txs[t].status = "success" => registration[txs[t].name] = txs[t].permit
  /\ \A n \in Names : registration[n] # None =>
       \E k \in Keys : orders[k] # None /\ orders[k].permit = registration[n]

\* Money taken or sent back belongs to an order that says so.
MoneyFits ==
  /\ \A p \in Payments : captured[p] # None =>
       /\ orders[captured[p]] # None
       /\ orders[captured[p]].token
       /\ orders[captured[p]].payment = p
  /\ \A k \in refundSent : orders[k] # None /\ orders[k].state \in {"refund_pending", "refunded"}

\* What a worker relies on at each await still holds when it goes on.
TaskFits(t) ==
  /\ t.step = "permit" => orders[t.key] # None
  /\ t.step \in {"submit", "submitted"} => orders[t.key] # None /\ orders[t.key].permit # None
  /\ t.step = "submitted" => txs[t.tx] # None
  /\ t.step \in {"receipt", "verify"} => orders[t.key] # None
  /\ t.step \in {"settle", "settled", "unsettled"} => orders[t.key] # None /\ orders[t.key].token
  /\ t.step = "settled" => captured[orders[t.key].payment] # None
  /\ t.step \in {"refund", "sent"} =>
       orders[t.key] # None /\ orders[t.key].state \in {"refund_pending", "refunded"}
  /\ t.step = "sent" => t.key \in refundSent
TasksFit == \A w \in Workers : TaskFits(task[w])

KeeperInv == KeeperTypeOK /\ IdentifiersUnique /\ OrdersFit /\ ChainFits /\ MoneyFits /\ TasksFit


USE OrderStoreAssumption, KeeperAssumption

LEMMA KeeperInitInv == KeeperInit => KeeperInv
<1> SUFFICES ASSUME KeeperInit PROVE KeeperInv
  OBVIOUS
<1>1. KeeperTypeOK
  BY DEF KeeperInit, StoreInit, KeeperTypeOK, Tasks, Idle
<1>2. IdentifiersUnique /\ OrdersFit /\ ChainFits /\ MoneyFits
  BY DEF KeeperInit, StoreInit, IdentifiersUnique, OrdersFit, ChainFits, MoneyFits
<1>3. TasksFit
  BY DEF KeeperInit, TasksFit, TaskFits, Idle
<1> QED
  BY <1>1, <1>2, <1>3 DEF KeeperInv

\* A worker that only goes on to a task that fits disturbs nothing.
LEMMA TaskOnly ==
  ASSUME KeeperInv, NEW w \in Workers, NEW t \in Tasks, Become(w, t), TaskFits(t),
         paused' \in BOOLEAN, UNCHANGED <<orders, externalVars>>
  PROVE  KeeperInv'
<1>1. KeeperTypeOK'
  BY DEF KeeperInv, KeeperTypeOK, Become, externalVars
<1>2. (IdentifiersUnique /\ OrdersFit /\ ChainFits /\ MoneyFits)'
  BY DEF KeeperInv, IdentifiersUnique, OrdersFit, FieldsFit, ChainFits, MoneyFits, externalVars
<1>3. TasksFit'
  <2> SUFFICES ASSUME NEW v \in Workers PROVE TaskFits(task[v])'
    BY DEF TasksFit
  <2>1. CASE v = w
    BY <2>1 DEF KeeperInv, KeeperTypeOK, Become, TaskFits, externalVars
  <2>2. CASE v # w
    <3>1. task'[v] = task[v] /\ TaskFits(task[v])
      BY <2>2 DEF KeeperInv, KeeperTypeOK, Become, TasksFit
    <3> QED
      BY <3>1 DEF TaskFits, externalVars
  <2> QED
    BY <2>1, <2>2
<1> QED
  BY <1>1, <1>2, <1>3 DEF KeeperInv

\* An order that moves on keeps its name, its identifiers and its proof of registration,
\* and what other workers rely on.
LEMMA OrderMoves ==
  ASSUME KeeperInv, NEW k \in Keys, orders[k] # None, NEW o \in KeeperOrder, Put(k, o),
         o.name = orders[k].name, o.permit = orders[k].permit, orders[k].permit # None,
         o.payment = orders[k].payment,
         orders[k].token => o.token,
         orders[k].state \in {"refund_pending", "refunded"} =>
           o.state \in {"refund_pending", "refunded"},
         FieldsFit(k)',
         NEW w \in Workers, Finish(w), UNCHANGED <<paused, externalVars>>
  PROVE  KeeperInv'
<1>0. o # None /\ orders'[k] = o /\ \A l \in Keys \ {k} : orders'[l] = orders[l]
  BY DEF KeeperInv, KeeperTypeOK, Put
<1>1. KeeperTypeOK'
  BY DEF KeeperInv, KeeperTypeOK, Put, Finish, Become, Tasks, externalVars
<1>2. IdentifiersUnique'
  BY <1>0 DEF KeeperInv, IdentifiersUnique
<1>3. OrdersFit'
  <2> SUFFICES ASSUME NEW l \in Keys \ {k}, orders[l] # None PROVE FieldsFit(l)'
    BY <1>0 DEF OrdersFit
  <2>1. FieldsFit(l) /\ orders'[l] = orders[l]
    BY <1>0 DEF KeeperInv, OrdersFit
  <2> QED
    BY <2>1 DEF FieldsFit, externalVars
<1>4. ChainFits'
  BY <1>0 DEF KeeperInv, ChainFits, externalVars
<1>5. MoneyFits'
  BY <1>0 DEF KeeperInv, MoneyFits, KeeperTypeOK, externalVars
<1>6. TasksFit'
  <2> SUFFICES ASSUME NEW v \in Workers PROVE TaskFits(task[v])'
    BY DEF TasksFit
  <2>1. CASE v = w
    BY <2>1 DEF KeeperInv, KeeperTypeOK, Finish, Become, Idle, TaskFits
  <2>2. CASE v # w
    <3>1. task'[v] = task[v] /\ TaskFits(task[v])
      BY <2>2 DEF KeeperInv, KeeperTypeOK, Finish, Become, TasksFit
    <3>2. CASE task[v].step \in {"permit", "submit", "submitted", "receipt", "verify", "settle",
                                 "settled", "unsettled", "refund", "sent"}
      <4>1. task[v].key \in Keys
        BY <3>2 DEF KeeperInv, KeeperTypeOK, Tasks, Idle
      <4> QED
        BY <1>0, <3>1, <4>1 DEF TaskFits, externalVars
    <3>3. CASE task[v].step \notin {"permit", "submit", "submitted", "receipt", "verify",
                                    "settle", "settled", "unsettled", "refund", "sent"}
      BY <3>1, <3>3 DEF TaskFits
    <3> QED
      BY <3>2, <3>3
  <2> QED
    BY <2>1, <2>2
<1> QED
  BY <1>1, <1>2, <1>3, <1>4, <1>5, <1>6 DEF KeeperInv

(***************************************************************************)
(* One lemma per action of a worker.                                       *)
(***************************************************************************)
LEMMA CreateSteps ==
  ASSUME KeeperInv, NEW w \in Workers,
         (\E k \in Keys, n \in Names : CreateStart(w, k, n)) \/ Quote(w) \/ StoreCreate(w)
  PROVE  KeeperInv'
<1>1. ASSUME NEW k \in Keys, NEW n \in Names, CreateStart(w, k, n) PROVE KeeperInv'
  <2> DEFINE t == [step |-> "quote", key |-> k, name |-> n]
  <2>1. t \in Tasks /\ TaskFits(t) /\ paused' \in BOOLEAN
    BY <1>1 DEF Tasks, TaskFits, CreateStart, KeeperInv, KeeperTypeOK
  <2> QED
    BY <1>1, <2>1, TaskOnly DEF CreateStart
<1>2. CASE Quote(w)
  <2> DEFINE t == [step |-> "insert", key |-> task[w].key, name |-> task[w].name,
                   price |-> price[task[w].name]]
  <2>1. task[w].key \in Keys /\ task[w].name \in Names
    BY <1>2 DEF Quote, At, KeeperInv, KeeperTypeOK, Tasks, Idle
  <2>2. t \in Tasks /\ TaskFits(t) /\ paused' \in BOOLEAN
    BY <1>2, <2>1 DEF Tasks, TaskFits, Quote, KeeperInv, KeeperTypeOK
  <2> QED
    BY <1>2, <2>2, TaskOnly DEF Quote
<1>3. CASE StoreCreate(w)
  <2> DEFINE k == task[w].key
             t == [step |-> "permit", key |-> k]
             o == NewOrder(task[w].name, task[w].price)
  <2>1. k \in Keys /\ o \in KeeperOrder /\ Idle \in Tasks /\ t \in Tasks
    BY <1>3 DEF StoreCreate, At, KeeperInv, KeeperTypeOK, Tasks, Idle, NewOrder, KeeperOrder,
                OrderStates
  <2>2. CASE orders[k] # None /\ UNCHANGED orders
    <3>1. TaskFits(t) /\ TaskFits(Idle) /\ paused' \in BOOLEAN
      BY <1>3, <2>2 DEF TaskFits, Idle, StoreCreate, KeeperInv, KeeperTypeOK
    <3>2. Become(w, t) \/ Become(w, Idle)
      BY <1>3, <2>2 DEF StoreCreate, Continue, Finish
    <3> QED
      BY <1>3, <2>1, <2>2, <3>1, <3>2, TaskOnly DEF StoreCreate
  <2>3. CASE orders[k] = None /\ Put(k, o) /\ Become(w, t)
    <3>0. /\ o # None /\ orders'[k] = o /\ \A l \in Keys \ {k} : orders'[l] = orders[l]
          /\ UNCHANGED <<paused, price, registration, txs, captured, refundSent>>
      BY <1>3, <2>1, <2>3 DEF KeeperInv, KeeperTypeOK, Put, StoreCreate, externalVars
    <3>1. KeeperTypeOK'
      BY <2>1, <2>3, <3>0 DEF KeeperInv, KeeperTypeOK, Put, Become
    <3>2. IdentifiersUnique'
      BY <2>3, <3>0 DEF KeeperInv, IdentifiersUnique, NewOrder
    <3>3. OrdersFit'
      BY <2>3, <3>0 DEF KeeperInv, OrdersFit, FieldsFit, NewOrder
    <3>4. ChainFits'
      BY <2>3, <3>0 DEF KeeperInv, ChainFits
    <3>5. MoneyFits'
      BY <2>3, <3>0 DEF KeeperInv, MoneyFits, KeeperTypeOK
    <3>6. TasksFit'
      <4> SUFFICES ASSUME NEW v \in Workers PROVE TaskFits(task[v])'
        BY DEF TasksFit
      <4>1. CASE v = w
        BY <2>1, <2>3, <3>0, <4>1 DEF KeeperInv, KeeperTypeOK, Become, TaskFits
      <4>2. CASE v # w
        <5>1. task'[v] = task[v] /\ TaskFits(task[v])
          BY <2>3, <4>2 DEF KeeperInv, KeeperTypeOK, Become, TasksFit
        <5>2. task[v].step = "idle" \/ task[v].key \in Keys
          BY DEF KeeperInv, KeeperTypeOK, Tasks, Idle
        <5> QED
          BY <2>3, <3>0, <5>1, <5>2 DEF TaskFits
      <4> QED
        BY <4>1, <4>2
    <3> QED
      BY <3>1, <3>2, <3>3, <3>4, <3>5, <3>6 DEF KeeperInv
  <2> QED
    BY <1>3, <2>2, <2>3 DEF StoreCreate, Continue
<1> QED
  BY <1>1, <1>2, <1>3

\* A permit or payment that no other order has keeps the identifiers unique.
LEMMA BindStep ==
  ASSUME UniqueIdentifiers, KeeperInv, NEW w \in Workers,
         (\E p \in Permits : IssuePermit(w, p)) \/ VerifyPayment(w)
  PROVE  KeeperInv'
<1>1. ASSUME NEW p \in Permits, IssuePermit(w, p) PROVE KeeperInv'
  <2>0. PICK k \in Keys : k = task[w].key
    <3>1. task[w].step = "permit" /\ task[w] \in Tasks
      BY <1>1 DEF IssuePermit, At, KeeperInv, KeeperTypeOK
    <3> QED
      BY <3>1 DEF Tasks, Idle
  <2> DEFINE o == [orders[k] EXCEPT !.state = "permit_issued", !.permit = p]
  <2>1. /\ orders[k] \in KeeperOrder /\ orders[k].state = "quoted"
        /\ ~TakenPermit(k, p) /\ Put(k, o) /\ Finish(w)
        /\ UNCHANGED <<paused, price, registration, txs, captured, refundSent>>
    BY <1>1, <2>0 DEF IssuePermit, CanTransition, KeeperInv, KeeperTypeOK, externalVars
  <2>2. /\ o \in KeeperOrder /\ o # None /\ orders'[k] = o
        /\ o.state = "permit_issued" /\ o.permit = p /\ o.payment = orders[k].payment
        /\ o.token = orders[k].token /\ o.name = orders[k].name
        /\ \A l \in Keys \ {k} : orders'[l] = orders[l]
    BY <2>1 DEF KeeperOrder, OrderStates, Put, KeeperInv, KeeperTypeOK
  <2>3. orders[k] # None /\ FieldsFit(k) /\ orders[k].permit = None
    BY <2>1 DEF KeeperInv, OrdersFit, FieldsFit
  <2> HIDE DEF o
  <2>4. KeeperTypeOK'
    BY <2>1, <2>2 DEF KeeperInv, KeeperTypeOK, Put, Finish, Become, Tasks
  <2>5. IdentifiersUnique'
    BY <2>1, <2>2, <2>3 DEF KeeperInv, IdentifiersUnique, TakenPermit
  <2>6. OrdersFit'
    <3>1. FieldsFit(k)'
      BY <2>1, <2>2, <2>3 DEF FieldsFit
    <3>2. ASSUME NEW l \in Keys \ {k}, orders[l] # None PROVE FieldsFit(l)'
      BY <2>1, <2>2, <3>2 DEF KeeperInv, OrdersFit, FieldsFit
    <3> QED
      BY <2>2, <3>1, <3>2 DEF OrdersFit
  <2>7. ChainFits'
    <3>1. ASSUME NEW l \in Keys, orders[l] # None, orders[l].permit # None
          PROVE  orders'[l] # None /\ orders'[l].permit = orders[l].permit
      BY <2>2, <2>3, <3>1
    <3>2. ASSUME NEW q \in Permits, \E l \in Keys : orders[l] # None /\ orders[l].permit = q
          PROVE  \E l \in Keys : orders'[l] # None /\ orders'[l].permit = q
      BY <3>1, <3>2
    <3> QED
      BY <2>1, <3>2 DEF KeeperInv, KeeperTypeOK, ChainFits, Transactions
  <2>8. MoneyFits'
    BY <2>1, <2>2, <2>3 DEF KeeperInv, KeeperTypeOK, MoneyFits, FieldsFit
  <2>9. TasksFit'
    <3> SUFFICES ASSUME NEW v \in Workers PROVE TaskFits(task[v])'
      BY DEF TasksFit
    <3>1. CASE v = w
      BY <2>1, <3>1 DEF KeeperInv, KeeperTypeOK, Finish, Become, Idle, TaskFits
    <3>2. CASE v # w
      <4>1. task'[v] = task[v] /\ TaskFits(task[v])
        BY <2>1, <3>2 DEF KeeperInv, KeeperTypeOK, Finish, Become, TasksFit
      <4>2. task[v].step = "idle" \/ task[v].key \in Keys
        BY DEF KeeperInv, KeeperTypeOK, Tasks, Idle
      <4> QED
        BY <2>1, <2>2, <2>3, <4>1, <4>2 DEF TaskFits, FieldsFit
    <3> QED
      BY <3>1, <3>2
  <2> QED
    BY <2>4, <2>5, <2>6, <2>7, <2>8, <2>9 DEF KeeperInv
<1>2. CASE VerifyPayment(w)
  <2>0. PICK k \in Keys, p \in Payments : k = task[w].key /\ p = task[w].payment
    BY <1>2 DEF VerifyPayment, At, KeeperInv, KeeperTypeOK, Tasks, Idle
  <2> DEFINE o == [orders[k] EXCEPT !.state = "payment_authorized", !.payment = p]
             t == [step |-> "submit", key |-> k]
  <2>1. /\ orders[k] \in KeeperOrder
        /\ orders[k].state = "permit_issued" /\ captured[p] = None
        /\ ~TakenPayment(k, p) /\ Put(k, o) /\ Become(w, t)
        /\ UNCHANGED <<paused, price, registration, txs, captured, refundSent>>
    BY <1>2, <2>0 DEF VerifyPayment, CanTransition, Continue, KeeperInv, KeeperTypeOK,
                      externalVars
  <2>2. /\ o \in KeeperOrder /\ o # None /\ orders'[k] = o
        /\ o.state = "payment_authorized" /\ o.payment = p /\ o.permit = orders[k].permit
        /\ o.token = orders[k].token /\ o.name = orders[k].name
        /\ \A l \in Keys \ {k} : orders'[l] = orders[l]
    <3>1. /\ o \in KeeperOrder
          /\ o.state = "payment_authorized" /\ o.payment = p /\ o.permit = orders[k].permit
          /\ o.token = orders[k].token /\ o.name = orders[k].name
      BY <2>1 DEF KeeperOrder, OrderStates
    <3> HIDE DEF o
    <3> QED
      BY <2>1, <3>1 DEF Put, KeeperInv, KeeperTypeOK
  <2>3. orders[k] # None /\ FieldsFit(k) /\ orders[k].permit # None /\ orders[k].payment = None
    BY <2>1 DEF KeeperInv, OrdersFit, FieldsFit
  <2> HIDE DEF o
  <2>4. KeeperTypeOK'
    BY <2>1, <2>2 DEF KeeperInv, KeeperTypeOK, Put, Become, Tasks
  <2>5. IdentifiersUnique'
    BY <2>1, <2>2, <2>3 DEF KeeperInv, IdentifiersUnique, TakenPayment
  <2>6. OrdersFit'
    <3>1. FieldsFit(k)'
      BY <2>1, <2>2, <2>3 DEF FieldsFit
    <3>2. ASSUME NEW l \in Keys \ {k}, orders[l] # None PROVE FieldsFit(l)'
      BY <2>1, <2>2, <3>2 DEF KeeperInv, OrdersFit, FieldsFit
    <3> QED
      BY <2>2, <3>1, <3>2 DEF OrdersFit
  <2>7. ChainFits'
    <3>1. ASSUME NEW l \in Keys, orders[l] # None
          PROVE  orders'[l] # None /\ orders'[l].permit = orders[l].permit
      BY <2>2, <2>3, <3>1
    <3> QED
      BY <2>1, <3>1 DEF KeeperInv, ChainFits
  <2>8. MoneyFits'
    BY <2>1, <2>2, <2>3 DEF KeeperInv, KeeperTypeOK, MoneyFits, FieldsFit
  <2>9. TasksFit'
    <3> SUFFICES ASSUME NEW v \in Workers PROVE TaskFits(task[v])'
      BY DEF TasksFit
    <3>1. CASE v = w
      BY <2>1, <2>2, <2>3, <3>1 DEF KeeperInv, KeeperTypeOK, Become, TaskFits
    <3>2. CASE v # w
      <4>1. task'[v] = task[v] /\ TaskFits(task[v])
        BY <2>1, <3>2 DEF KeeperInv, KeeperTypeOK, Become, TasksFit
      <4>2. task[v].step = "idle" \/ task[v].key \in Keys
        BY DEF KeeperInv, KeeperTypeOK, Tasks, Idle
      <4> QED
        BY <2>1, <2>2, <2>3, <4>1, <4>2 DEF TaskFits, FieldsFit
    <3> QED
      BY <3>1, <3>2
  <2> QED
    BY <2>4, <2>5, <2>6, <2>7, <2>8, <2>9 DEF KeeperInv
<1> QED
  BY <1>1, <1>2

\* The steps that only read and choose what to do next.
LEMMA StartSteps ==
  ASSUME KeeperInv, NEW w \in Workers,
         \/ \E k \in Keys, p \in Payments : AuthorizeStart(w, k, p)
         \/ \E k \in Keys : ReconcileStart(w, k)
         \/ Fail(w)
  PROVE  KeeperInv'
<1>0. paused \in BOOLEAN
  BY DEF KeeperInv, KeeperTypeOK
<1>1. ASSUME NEW k \in Keys, NEW p \in Payments, AuthorizeStart(w, k, p) PROVE KeeperInv'
  <2>1. orders[k] # None /\ FieldsFit(k)
    BY <1>1 DEF AuthorizeStart, KeeperInv, OrdersFit
  <2>2. PICK t \in {[step |-> "submit", key |-> k],
                    [step |-> "verify", key |-> k, payment |-> p]} :
          Become(w, t) /\ (t.step = "submit" => orders[k].state = "payment_authorized")
    BY <1>1 DEF AuthorizeStart
  <2>3. t \in Tasks /\ TaskFits(t)
    BY <2>1, <2>2 DEF Tasks, TaskFits, FieldsFit
  <2> QED
    BY <1>0, <1>1, <2>2, <2>3, TaskOnly DEF AuthorizeStart
<1>2. ASSUME NEW k \in Keys, ReconcileStart(w, k) PROVE KeeperInv'
  <2> DEFINE t == [step |-> ReconcileStep[orders[k].state], key |-> k]
  <2>1. orders[k] # None /\ FieldsFit(k)
    BY <1>2 DEF ReconcileStart, Reconcilable, KeeperInv, OrdersFit
  <2>2. \/ orders[k].state = "payment_authorized" /\ t.step = "submit"
        \/ orders[k].state = "registration_submitted" /\ t.step = "receipt"
        \/ orders[k].state = "registration_confirmed" /\ t.step = "settle"
        \/ orders[k].state = "refund_pending" /\ t.step = "refund"
    BY <1>2 DEF ReconcileStart, Reconcilable, ReconcileStep
  <2>3. t \in Tasks /\ TaskFits(t)
    BY <2>1, <2>2 DEF Tasks, TaskFits, FieldsFit
  <2> QED
    BY <1>0, <1>2, <2>3, TaskOnly DEF ReconcileStart
<1>3. CASE Fail(w)
  <2>1. Idle \in Tasks /\ TaskFits(Idle)
    BY DEF Tasks, TaskFits, Idle
  <2> QED
    BY <1>0, <1>3, <2>1, TaskOnly DEF Fail, Finish
<1> QED
  BY <1>1, <1>2, <1>3

\* The compare-and-sets after an external call.
LEMMA RecordSteps ==
  ASSUME KeeperInv, NEW w \in Workers,
         RecordSubmission(w) \/ CheckReceipt(w) \/ RecordSettlement(w) \/ RecordRefund(w)
  PROVE  KeeperInv'
<1>1. CASE RecordSubmission(w)
  <2>0. PICK k \in Keys, x \in Txs : k = task[w].key /\ x = task[w].tx
    <3>1. task[w].step = "submitted" /\ task[w] \in Tasks
      BY <1>1 DEF RecordSubmission, At, KeeperInv, KeeperTypeOK
    <3> QED
      BY <3>1 DEF Tasks, Idle
  <2> DEFINE o == [orders[k] EXCEPT !.state = "registration_submitted", !.tx = x]
  <2>1. /\ orders[k] \in KeeperOrder /\ orders[k].state = "payment_authorized" /\ Put(k, o)
        /\ orders[k] # None /\ Finish(w) /\ UNCHANGED <<paused, externalVars>> /\ txs[x] # None
    BY <1>1, <2>0 DEF RecordSubmission, CanTransition, At, KeeperInv, KeeperTypeOK, TasksFit,
                      TaskFits
  <2>2. /\ o \in KeeperOrder /\ o.name = orders[k].name /\ o.permit = orders[k].permit
        /\ o.payment = orders[k].payment /\ o.token = orders[k].token /\ o.tx = x
        /\ o.state = "registration_submitted"
    BY <2>1 DEF KeeperOrder, OrderStates
  <2> HIDE DEF o
  <2>3. FieldsFit(k) /\ orders'[k] = o
    BY <2>1 DEF KeeperInv, KeeperTypeOK, OrdersFit, Put
  <2>4. FieldsFit(k)' /\ orders[k].permit # None
    BY <2>0, <2>1, <2>2, <2>3 DEF FieldsFit, externalVars
  <2> QED
    BY <2>1, <2>2, <2>4, OrderMoves
<1>2. CASE CheckReceipt(w)
  <2>0. PICK k \in Keys : k = task[w].key
    <3>1. task[w].step = "receipt" /\ task[w] \in Tasks
      BY <1>2 DEF CheckReceipt, At, KeeperInv, KeeperTypeOK
    <3> QED
      BY <3>1 DEF Tasks, Idle
  <2> DEFINE x == txs[orders[k].tx]
             v == Verdict(orders[k], x)
             o == [orders[k] EXCEPT !.state = v, !.token = v = "registration_confirmed"]
  <2>1. /\ orders[k].state = "registration_submitted" /\ x.status # "pending"
        /\ orders[k] # None /\ Put(k, o) /\ Finish(w) /\ UNCHANGED <<paused, externalVars>>
    BY <1>2, <2>0 DEF CheckReceipt, CanTransition
  <2>2. /\ orders[k] \in KeeperOrder /\ FieldsFit(k) /\ orders[k].tx \in Txs
        /\ x \in Transactions
    BY <2>1 DEF KeeperInv, KeeperTypeOK, OrdersFit, FieldsFit, KeeperOrder
  <2>3. v \in {"refund_pending", "registration_confirmed", "manual_review"}
    BY DEF Verdict
  <2>4. v = "registration_confirmed" => registration[orders[k].name] = orders[k].permit
    <3>1. x # None /\ (x.status = "success" => registration[x.name] = x.permit)
      BY <2>1, <2>2 DEF KeeperInv, ChainFits, FieldsFit
    <3>2. v = "registration_confirmed" => x.status # "reverted" /\ ReceiptProves(orders[k], x)
      BY DEF Verdict
    <3>3. x.status \in {"pending", "success", "reverted"}
      BY <2>2 DEF Transactions
    <3> HIDE DEF v, x
    <3> QED
      BY <2>1, <3>1, <3>2, <3>3 DEF ReceiptProves
  <2> HIDE DEF v
  <2>5. /\ o \in KeeperOrder /\ o.name = orders[k].name /\ o.permit = orders[k].permit
        /\ o.payment = orders[k].payment /\ o.token = (v = "registration_confirmed")
        /\ o.state = v
    BY <2>2, <2>3 DEF KeeperOrder, OrderStates
  <2> HIDE DEF o
  <2>6. orders'[k] = o
    BY <2>1 DEF KeeperInv, KeeperTypeOK, Put
  <2>7. FieldsFit(k)' /\ orders[k].permit # None /\ ~orders[k].token
    BY <2>1, <2>2, <2>3, <2>4, <2>5, <2>6 DEF FieldsFit, externalVars
  <2> QED
    BY <2>1, <2>5, <2>7, OrderMoves
<1>3. CASE RecordSettlement(w)
  <2>0. PICK k \in Keys : k = task[w].key
    <3>1. task[w].step \in {"settled", "unsettled"} /\ task[w] \in Tasks
      BY <1>3 DEF RecordSettlement, KeeperInv, KeeperTypeOK
    <3> QED
      BY <3>1 DEF Tasks, Idle
  <2> DEFINE to == IF At(w, "settled") THEN "payment_settled" ELSE "manual_review"
             o == [orders[k] EXCEPT !.state = to]
  <2>1. /\ orders[k].state = "registration_confirmed" /\ orders[k] # None /\ Put(k, o)
        /\ Finish(w) /\ UNCHANGED <<paused, externalVars>>
    BY <1>3, <2>0 DEF RecordSettlement, CanTransition
  <2>2. /\ orders[k] \in KeeperOrder /\ FieldsFit(k) /\ orders[k].payment \in Payments
        /\ orders[k].permit # None
    BY <2>1 DEF KeeperInv, KeeperTypeOK, OrdersFit, FieldsFit, KeeperOrder
  <2>3. to = "payment_settled" => captured[orders[k].payment] = k
    <3>1. to = "payment_settled" => captured[orders[k].payment] # None
      BY <2>0 DEF At, KeeperInv, TasksFit, TaskFits
    <3>2. ASSUME captured[orders[k].payment] # None PROVE captured[orders[k].payment] = k
      <4> DEFINE l == captured[orders[k].payment]
      <4>1. l \in Keys /\ orders[l] # None /\ orders[l].payment = orders[k].payment
        BY <2>2, <3>2 DEF KeeperInv, KeeperTypeOK, MoneyFits
      <4> QED
        BY <2>1, <2>2, <4>1 DEF KeeperInv, IdentifiersUnique
    <3> QED
      BY <3>1, <3>2
  <2>4. to \in {"payment_settled", "manual_review"}
    OBVIOUS
  <2> HIDE DEF to
  <2>5. /\ o \in KeeperOrder /\ o.name = orders[k].name /\ o.permit = orders[k].permit
        /\ o.payment = orders[k].payment /\ o.token = orders[k].token /\ o.state = to
    BY <2>2, <2>4 DEF KeeperOrder, OrderStates
  <2> HIDE DEF o
  <2>6. orders'[k] = o
    BY <2>1 DEF KeeperInv, KeeperTypeOK, Put
  <2>7. FieldsFit(k)'
    BY <2>1, <2>2, <2>3, <2>4, <2>5, <2>6 DEF FieldsFit, externalVars
  <2> QED
    BY <2>1, <2>2, <2>5, <2>7, OrderMoves
<1>4. CASE RecordRefund(w)
  <2>0. PICK k \in Keys : k = task[w].key
    <3>1. task[w].step = "sent" /\ task[w] \in Tasks
      BY <1>4 DEF RecordRefund, At, KeeperInv, KeeperTypeOK
    <3> QED
      BY <3>1 DEF Tasks, Idle
  <2> DEFINE o == [orders[k] EXCEPT !.state = "refunded"]
  <2>1. /\ orders[k].state = "refund_pending" /\ orders[k] # None /\ Put(k, o) /\ Finish(w)
        /\ UNCHANGED <<paused, externalVars>> /\ k \in refundSent
    BY <1>4, <2>0 DEF RecordRefund, CanTransition, At, KeeperInv, TasksFit, TaskFits
  <2>2. orders[k] \in KeeperOrder /\ FieldsFit(k) /\ orders[k].permit # None
    BY <2>1 DEF KeeperInv, KeeperTypeOK, OrdersFit, FieldsFit
  <2>3. /\ o \in KeeperOrder /\ o.name = orders[k].name /\ o.permit = orders[k].permit
        /\ o.payment = orders[k].payment /\ o.token = orders[k].token /\ o.state = "refunded"
    BY <2>2 DEF KeeperOrder, OrderStates
  <2> HIDE DEF o
  <2>4. orders'[k] = o
    BY <2>1 DEF KeeperInv, KeeperTypeOK, Put
  <2>5. FieldsFit(k)'
    BY <2>1, <2>2, <2>3, <2>4 DEF FieldsFit, externalVars
  <2> QED
    BY <2>1, <2>2, <2>3, <2>5, OrderMoves
<1> QED
  BY <1>1, <1>2, <1>3, <1>4

\* The external calls: the worker learns of what they did, the order does not yet.
LEMMA CallSteps ==
  ASSUME KeeperInv, NEW w \in Workers,
         (\E x \in Txs : SubmitRegistration(w, x)) \/ Settle(w) \/ SendRefund(w)
  PROVE  KeeperInv'
<1>1. ASSUME NEW x \in Txs, SubmitRegistration(w, x) PROVE KeeperInv'
  <2>0. PICK k \in Keys : k = task[w].key
    <3>1. task[w].step = "submit" /\ task[w] \in Tasks
      BY <1>1 DEF SubmitRegistration, At, KeeperInv, KeeperTypeOK
    <3> QED
      BY <3>1 DEF Tasks, Idle
  <2> DEFINE t == [step |-> "submitted", key |-> k, tx |-> x]
             y == [permit |-> orders[k].permit, name |-> orders[k].name,
                   price |-> orders[k].price, status |-> "pending"]
  <2>1. /\ Become(w, t) /\ UNCHANGED <<orders, paused, price, registration, captured, refundSent>>
        /\ (txs[x] = None /\ txs' = [txs EXCEPT ![x] = y]) \/ (txs[x] # None /\ UNCHANGED txs)
    BY <1>1, <2>0 DEF SubmitRegistration
  <2>2. orders[k] # None /\ orders[k] \in KeeperOrder /\ orders[k].permit \in Permits
    BY <1>1, <2>0 DEF SubmitRegistration, At, KeeperInv, KeeperTypeOK, TasksFit, TaskFits,
                      KeeperOrder
  <2>3. y \in Transactions /\ y # None /\ t \in Tasks
    BY <2>2 DEF Transactions, KeeperOrder, Tasks
  <2>4. /\ txs' \in [Txs -> Transactions \cup {None}] /\ txs'[x] # None
        /\ \A z \in Txs : txs[z] # None => txs'[z] = txs[z]
        /\ \A z \in Txs : txs'[z] # None => txs'[z] = txs[z] \/ txs'[z] = y
    BY <2>1, <2>3 DEF KeeperInv, KeeperTypeOK
  <2>5. KeeperTypeOK'
    BY <2>1, <2>3, <2>4 DEF KeeperInv, KeeperTypeOK, Become
  <2>6. (IdentifiersUnique /\ MoneyFits)'
    BY <2>1 DEF KeeperInv, IdentifiersUnique, MoneyFits
  <2>7. OrdersFit'
    <3> SUFFICES ASSUME NEW l \in Keys, orders[l] # None PROVE FieldsFit(l)'
      BY <2>1 DEF OrdersFit
    <3>1. FieldsFit(l) /\ orders[l] \in KeeperOrder
      BY DEF KeeperInv, KeeperTypeOK, OrdersFit
    <3> QED
      BY <2>1, <2>4, <3>1 DEF FieldsFit, KeeperOrder
  <2>8. ChainFits'
    BY <2>1, <2>2, <2>4 DEF KeeperInv, ChainFits
  <2>9. TasksFit'
    <3> SUFFICES ASSUME NEW v \in Workers PROVE TaskFits(task[v])'
      BY DEF TasksFit
    <3>1. CASE v = w
      BY <2>1, <2>2, <2>4, <3>1 DEF KeeperInv, KeeperTypeOK, Become, TaskFits
    <3>2. CASE v # w
      <4>1. task'[v] = task[v] /\ TaskFits(task[v]) /\ task[v] \in Tasks
        BY <2>1, <3>2 DEF KeeperInv, KeeperTypeOK, Become, TasksFit
      <4>2. task[v].step = "submitted" => task[v].tx \in Txs
        BY <4>1 DEF Tasks, Idle
      <4> QED
        BY <2>1, <2>4, <4>1, <4>2 DEF TaskFits
    <3> QED
      BY <3>1, <3>2
  <2> QED
    BY <2>5, <2>6, <2>7, <2>8, <2>9 DEF KeeperInv
<1>2. CASE Settle(w)
  <2>0. PICK k \in Keys : k = task[w].key
    <3>1. task[w].step = "settle" /\ task[w] \in Tasks
      BY <1>2 DEF Settle, At, KeeperInv, KeeperTypeOK
    <3> QED
      BY <3>1 DEF Tasks, Idle
  <2> DEFINE p == orders[k].payment
             done == [step |-> "settled", key |-> k]
             refused == [step |-> "unsettled", key |-> k]
  <2>1. /\ UNCHANGED <<orders, paused, price, registration, txs, refundSent>>
        /\ \/ captured[p] = None /\ captured' = [captured EXCEPT ![p] = k] /\ Become(w, done)
           \/ captured[p] # None /\ UNCHANGED captured /\ Become(w, done)
           \/ UNCHANGED captured /\ Become(w, refused)
    BY <1>2, <2>0 DEF Settle, Continue
  <2>2. orders[k] # None /\ orders[k].token /\ FieldsFit(k) /\ p \in Payments
    <3>1. orders[k] # None /\ orders[k].token
      BY <1>2, <2>0 DEF Settle, At, KeeperInv, TasksFit, TaskFits
    <3>2. FieldsFit(k) /\ orders[k] \in KeeperOrder
      BY <3>1 DEF KeeperInv, KeeperTypeOK, OrdersFit
    <3> QED
      BY <3>1, <3>2 DEF FieldsFit, KeeperOrder
  <2>3. done \in Tasks /\ refused \in Tasks /\ paused' \in BOOLEAN
    BY <2>1 DEF Tasks, KeeperInv, KeeperTypeOK
  <2>4. CASE UNCHANGED captured
    <3>1. TaskFits(refused) /\ (captured[p] # None => TaskFits(done))
      BY <2>2 DEF TaskFits
    <3>2. \/ captured[p] # None /\ Become(w, done)
          \/ Become(w, refused)
      BY <2>1, <2>2, <2>4 DEF KeeperInv, KeeperTypeOK
    <3> QED
      BY <2>1, <2>3, <2>4, <3>1, <3>2, TaskOnly DEF externalVars
  <2>5. CASE captured[p] = None /\ captured' = [captured EXCEPT ![p] = k] /\ Become(w, done)
    <3>1. /\ captured' \in [Payments -> Keys \cup {None}] /\ captured'[p] = k
          /\ \A q \in Payments \ {p} : captured'[q] = captured[q]
      BY <2>2, <2>5 DEF KeeperInv, KeeperTypeOK
    <3>2. KeeperTypeOK'
      BY <2>1, <2>3, <2>5, <3>1 DEF KeeperInv, KeeperTypeOK, Become
    <3>3. (IdentifiersUnique /\ ChainFits)'
      BY <2>1 DEF KeeperInv, IdentifiersUnique, ChainFits
    <3>4. OrdersFit'
      <4> SUFFICES ASSUME NEW l \in Keys, orders[l] # None PROVE FieldsFit(l)'
        BY <2>1 DEF OrdersFit
      <4>1. FieldsFit(l) /\ orders[l] \in KeeperOrder
        BY DEF KeeperInv, KeeperTypeOK, OrdersFit
      <4>2. orders[l].state = "payment_settled" => captured'[orders[l].payment] = l
        BY <2>5, <3>1, <4>1 DEF FieldsFit, KeeperOrder
      <4> QED
        BY <2>1, <4>1, <4>2 DEF FieldsFit
    <3>5. MoneyFits'
      BY <2>1, <2>2, <3>1 DEF KeeperInv, KeeperTypeOK, MoneyFits
    <3>6. TasksFit'
      <4> SUFFICES ASSUME NEW v \in Workers PROVE TaskFits(task[v])'
        BY DEF TasksFit
      <4>1. CASE v = w
        BY <2>1, <2>2, <2>5, <3>1, <4>1 DEF KeeperInv, KeeperTypeOK, Become, TaskFits
      <4>2. CASE v # w
        <5>1. task'[v] = task[v] /\ TaskFits(task[v]) /\ task[v] \in Tasks
          BY <2>5, <4>2 DEF KeeperInv, KeeperTypeOK, Become, TasksFit
        <5>2. task[v].step = "settled" =>
                task[v].key \in Keys /\ orders[task[v].key].payment \in Payments
          <6>1. ASSUME task[v].step = "settled" PROVE task[v].key \in Keys
            BY <5>1, <6>1 DEF Tasks, Idle
          <6>2. ASSUME NEW l \in Keys, orders[l] # None, orders[l].token
                PROVE  orders[l].payment \in Payments
            BY <6>2 DEF KeeperInv, KeeperTypeOK, OrdersFit, FieldsFit, KeeperOrder
          <6> QED
            BY <5>1, <6>1, <6>2 DEF TaskFits
        <5> QED
          BY <2>1, <2>5, <3>1, <5>1, <5>2 DEF TaskFits
      <4> QED
        BY <4>1, <4>2
    <3> QED
      BY <3>2, <3>3, <3>4, <3>5, <3>6 DEF KeeperInv
  <2> QED
    BY <2>1, <2>4, <2>5
<1>3. CASE SendRefund(w)
  <2>0. PICK k \in Keys : k = task[w].key
    <3>1. task[w].step = "refund" /\ task[w] \in Tasks
      BY <1>3 DEF SendRefund, At, KeeperInv, KeeperTypeOK
    <3> QED
      BY <3>1 DEF Tasks, Idle
  <2> DEFINE t == [step |-> "sent", key |-> k]
  <2>1. /\ refundSent' = refundSent \cup {k} /\ Become(w, t)
        /\ UNCHANGED <<orders, paused, price, registration, txs, captured>>
    BY <1>3, <2>0 DEF SendRefund, Continue
  <2>2. orders[k] # None /\ orders[k].state \in {"refund_pending", "refunded"}
    BY <1>3, <2>0 DEF SendRefund, At, KeeperInv, TasksFit, TaskFits
  <2>3. KeeperTypeOK'
    BY <2>1 DEF KeeperInv, KeeperTypeOK, Become, Tasks
  <2>4. (IdentifiersUnique /\ OrdersFit /\ ChainFits /\ MoneyFits)'
    BY <2>1, <2>2 DEF KeeperInv, IdentifiersUnique, OrdersFit, FieldsFit, ChainFits, MoneyFits
  <2>5. TasksFit'
    <3> SUFFICES ASSUME NEW v \in Workers PROVE TaskFits(task[v])'
      BY DEF TasksFit
    <3>1. CASE v = w
      BY <2>1, <2>2, <3>1 DEF KeeperInv, KeeperTypeOK, Become, TaskFits
    <3>2. CASE v # w
      <4>1. task'[v] = task[v] /\ TaskFits(task[v])
        BY <2>1, <3>2 DEF KeeperInv, KeeperTypeOK, Become, TasksFit
      <4> QED
        BY <2>1, <4>1 DEF TaskFits
    <3> QED
      BY <3>1, <3>2
  <2> QED
    BY <2>3, <2>4, <2>5 DEF KeeperInv
<1> QED
  BY <1>1, <1>2, <1>3

LEMMA ChainSteps ==
  ASSUME KeeperInv, SetPaused \/ ChainNext
  PROVE  KeeperInv'
<1>1. CASE SetPaused \/ \E n \in Names, p \in Prices : SetPrice(n, p)
  <2>1. /\ UNCHANGED <<orders, task, registration, txs, captured, refundSent>>
        /\ paused' \in BOOLEAN /\ price' \in [Names -> Prices]
    BY <1>1 DEF SetPaused, SetPrice, externalVars, KeeperInv, KeeperTypeOK
  <2>2. KeeperTypeOK'
    BY <2>1 DEF KeeperInv, KeeperTypeOK
  <2>3. (IdentifiersUnique /\ OrdersFit /\ ChainFits /\ MoneyFits /\ TasksFit)'
    BY <2>1 DEF KeeperInv, IdentifiersUnique, OrdersFit, FieldsFit, ChainFits, MoneyFits,
                TasksFit, TaskFits
  <2> QED
    BY <2>2, <2>3 DEF KeeperInv
<1>2. ASSUME NEW x \in Txs, MineSuccess(x) \/ MineRevert(x) PROVE KeeperInv'
  <2>1. /\ txs[x] # None /\ txs[x] \in Transactions /\ txs[x].status = "pending"
        /\ UNCHANGED <<orders, task, paused, price, captured, refundSent>>
    BY <1>2 DEF MineSuccess, MineRevert, KeeperInv, KeeperTypeOK
  <2>2. PICK status \in {"success", "reverted"} :
          /\ txs' = [txs EXCEPT ![x].status = status]
          /\ registration' = IF status = "reverted" THEN registration
                             ELSE [registration EXCEPT ![txs[x].name] = txs[x].permit]
          /\ status = "success" => registration[txs[x].name] = None
    BY <1>2 DEF MineSuccess, MineRevert
  <2> DEFINE y == [txs[x] EXCEPT !.status = status]
  <2>3. /\ y \in Transactions /\ y # None
        /\ y.permit = txs[x].permit /\ y.name = txs[x].name /\ y.status = status
        /\ txs[x].name \in Names /\ txs[x].permit \in Permits
    BY <2>1, <2>2 DEF Transactions
  <2>4. /\ txs' \in [Txs -> Transactions \cup {None}] /\ txs'[x] = y
        /\ \A z \in Txs \ {x} : txs'[z] = txs[z]
    BY <2>2, <2>3 DEF KeeperInv, KeeperTypeOK
  <2> HIDE DEF y
  <2>5. /\ registration' \in [Names -> Permits \cup {None}]
        /\ \A n \in Names : registration[n] # None => registration'[n] = registration[n]
        /\ \A n \in Names : registration'[n] # registration[n] =>
             status = "success" /\ n = txs[x].name /\ registration'[n] = txs[x].permit
        /\ status = "success" => registration'[txs[x].name] = txs[x].permit
    BY <2>2, <2>3 DEF KeeperInv, KeeperTypeOK
  <2>6. KeeperTypeOK'
    BY <2>1, <2>4, <2>5 DEF KeeperInv, KeeperTypeOK
  <2>7. (IdentifiersUnique /\ MoneyFits)'
    BY <2>1 DEF KeeperInv, IdentifiersUnique, MoneyFits
  <2>8. OrdersFit'
    <3> SUFFICES ASSUME NEW l \in Keys, orders[l] # None PROVE FieldsFit(l)'
      BY <2>1 DEF OrdersFit
    <3>1. FieldsFit(l) /\ orders[l] \in KeeperOrder
      BY DEF KeeperInv, KeeperTypeOK, OrdersFit
    <3>2. orders[l].token => registration'[orders[l].name] = orders[l].permit
      BY <2>5, <3>1 DEF FieldsFit, KeeperOrder
    <3>3. orders[l].tx \in Txs /\ txs[orders[l].tx] # None => txs'[orders[l].tx] # None
      BY <2>3, <2>4
    <3> QED
      BY <2>1, <3>1, <3>2, <3>3 DEF FieldsFit, KeeperOrder
  <2>9. ChainFits'
    <3>1. ASSUME NEW z \in Txs, txs'[z] # None
          PROVE  /\ \E k \in Keys : orders[k] # None /\ orders[k].permit = txs'[z].permit
                 /\ txs'[z].status = "success" => registration'[txs'[z].name] = txs'[z].permit
      <4>1. CASE z = x
        BY <2>1, <2>3, <2>4, <2>5, <4>1 DEF KeeperInv, ChainFits
      <4>2. CASE z # x
        <5>1. txs'[z] = txs[z] /\ txs[z] \in Transactions
          BY <2>4, <3>1, <4>2 DEF KeeperInv, KeeperTypeOK
        <5>2. txs[z].name \in Names /\ txs[z].permit # None
          BY <5>1 DEF Transactions
        <5> QED
          BY <2>5, <3>1, <5>1, <5>2 DEF KeeperInv, ChainFits
      <4> QED
        BY <4>1, <4>2
    <3>2. ASSUME NEW n \in Names, registration'[n] # None
          PROVE  \E k \in Keys : orders[k] # None /\ orders[k].permit = registration'[n]
      BY <2>1, <2>5, <3>2 DEF KeeperInv, ChainFits
    <3> QED
      BY <2>1, <3>1, <3>2 DEF ChainFits
  <2>10. TasksFit'
    <3> SUFFICES ASSUME NEW v \in Workers PROVE TaskFits(task[v])'
      BY DEF TasksFit
    <3>1. TaskFits(task[v]) /\ (task[v].step = "submitted" => task[v].tx \in Txs)
      BY DEF KeeperInv, KeeperTypeOK, TasksFit, Tasks, Idle
    <3> QED
      BY <2>1, <2>3, <2>4, <3>1 DEF TaskFits
  <2> QED
    BY <2>6, <2>7, <2>8, <2>9, <2>10 DEF KeeperInv
<1> QED
  BY <1>1, <1>2 DEF ChainNext

\* The invariant holds however workers, adapters and chain interleave.
LEMMA KeeperInvariant == UniqueIdentifiers => (KeeperSpec => []KeeperInv)
<1> SUFFICES ASSUME UniqueIdentifiers PROVE KeeperSpec => []KeeperInv
  OBVIOUS
<1>1. KeeperInv /\ [KeeperNext]_vars => KeeperInv'
  <2> SUFFICES ASSUME KeeperInv, [KeeperNext]_vars PROVE KeeperInv'
    OBVIOUS
  <2>1. ASSUME NEW w \in Workers, WorkerNext(w) PROVE KeeperInv'
    BY <2>1, CreateSteps, BindStep, StartSteps, RecordSteps, CallSteps DEF WorkerNext
  <2>2. CASE UNCHANGED vars
    BY <2>2 DEF vars, KeeperInv, KeeperTypeOK, IdentifiersUnique, OrdersFit, FieldsFit, ChainFits,
                MoneyFits, TasksFit, TaskFits
  <2> QED
    BY <2>1, <2>2, ChainSteps DEF KeeperNext
<1> QED
  BY <1>1, KeeperInitInv, PTL DEF KeeperSpec

\* The variables of the keeper keep their types.
THEOREM KeeperTypeCorrect == UniqueIdentifiers => (KeeperSpec => []KeeperTypeOK)
<1>1. KeeperInv => KeeperTypeOK
  BY DEF KeeperInv
<1> QED
  BY <1>1, KeeperInvariant, PTL

\* A confirmed order is registered, a settled one is paid with its own payment, and no
\* money was taken for a refunded one.
THEOREM KeeperConclusionsTrue == UniqueIdentifiers => (KeeperSpec => []ConclusionIsTrue)
<1>1. KeeperInv => ConclusionIsTrue
  <2> SUFFICES ASSUME KeeperInv, NEW k \in Keys, orders[k] # None
      PROVE  /\ orders[k].state \in {"registration_confirmed", "payment_settled"} => Registered(k)
             /\ orders[k].state = "payment_settled" => captured[orders[k].payment] = k
             /\ orders[k].state = "refunded" =>
                  k \in refundSent /\ \A p \in Payments : captured[p] # k
    BY DEF ConclusionIsTrue
  <2>1. FieldsFit(k)
    BY DEF KeeperInv, OrdersFit
  <2>2. orders[k].state = "refunded" => \A p \in Payments : captured[p] # k
    BY <2>1 DEF KeeperInv, MoneyFits, FieldsFit, KeeperTypeOK
  <2> QED
    BY <2>1, <2>2 DEF FieldsFit, Registered
<1> QED
  BY <1>1, KeeperInvariant, PTL

\* The keeper implements PaidRegistration: it takes a payment only for a registered
\* name, and never both takes and refunds one.
THEOREM KeeperKeepsPromise == UniqueIdentifiers => (KeeperSpec => KeepsOrderPromise)
<1> SUFFICES ASSUME UniqueIdentifiers PROVE KeeperSpec => KeepsOrderPromise
  OBVIOUS
<1> DEFINE reg == {k \in Keys : Registered(k)}
           cap == {k \in Keys : \E p \in Payments : captured[p] = k}
<1>1. KeeperInit => Promise!PromiseInit
  BY DEF KeeperInit, StoreInit, Promise!PromiseInit, Registered
<1>2. KeeperInv /\ KeeperInv' /\ [KeeperNext]_vars => [Promise!PromiseNext]_(Promise!promiseVars)
  <2> SUFFICES ASSUME KeeperInv, KeeperInv', [KeeperNext]_vars
               PROVE  Promise!PromiseNext \/ (reg' = reg /\ cap' = cap /\ refundSent' = refundSent)
    BY DEF Promise!promiseVars
  <2>1. ASSUME UNCHANGED captured PROVE cap' = cap
    BY <2>1
  <2>2. ASSUME UNCHANGED <<orders, registration>> PROVE reg' = reg
    BY <2>2 DEF Registered
  <2>3. ASSUME NEW w \in Workers, Settle(w), captured' # captured PROVE Promise!PromiseNext
    <3>0. PICK k \in Keys : k = task[w].key
      <4>1. task[w].step = "settle" /\ task[w] \in Tasks
        BY <2>3 DEF Settle, At, KeeperInv, KeeperTypeOK
      <4> QED
        BY <4>1 DEF Tasks, Idle
    <3> DEFINE p == orders[k].payment
    <3>1. /\ captured[p] = None /\ captured' = [captured EXCEPT ![p] = k]
          /\ UNCHANGED <<orders, registration, refundSent>>
      BY <2>3, <3>0 DEF Settle
    <3>2. orders[k] # None /\ orders[k].token /\ orders[k] \in KeeperOrder /\ FieldsFit(k)
      BY <2>3, <3>0 DEF Settle, At, KeeperInv, TasksFit, TaskFits, KeeperTypeOK, OrdersFit
    <3>3. k \in reg
      BY <3>2 DEF FieldsFit, Registered
    <3>4. k \notin refundSent
      BY <3>2 DEF FieldsFit, KeeperInv, MoneyFits
    <3>5. k \notin cap
      BY <3>1, <3>2 DEF KeeperInv, MoneyFits
    <3>6. p \in Payments
      BY <3>2 DEF FieldsFit, KeeperOrder
    <3>7. cap' = cap \cup {k}
      <4>1. /\ captured'[p] = k
            /\ \A q \in Payments \ {p} : captured'[q] = captured[q]
        BY <3>1, <3>6 DEF KeeperInv, KeeperTypeOK
      <4>2. \A l \in Keys : (\E q \in Payments : captured'[q] = l)
                            <=> l = k \/ \E q \in Payments : captured[q] = l
        BY <3>1, <3>6, <4>1
      <4> QED
        BY <4>2
    <3>8. Promise!Capture(k)
      BY <2>2, <3>1, <3>3, <3>4, <3>5, <3>7 DEF Promise!Capture
    <3> QED
      BY <3>8 DEF Promise!PromiseNext
  <2>4. ASSUME NEW w \in Workers, SendRefund(w)
        PROVE  Promise!PromiseNext \/ (reg' = reg /\ cap' = cap /\ refundSent' = refundSent)
    <3>0. PICK k \in Keys : k = task[w].key
      <4>1. task[w].step = "refund" /\ task[w] \in Tasks
        BY <2>4 DEF SendRefund, At, KeeperInv, KeeperTypeOK
      <4> QED
        BY <4>1 DEF Tasks, Idle
    <3>1. refundSent' = refundSent \cup {k} /\ UNCHANGED <<orders, registration, captured>>
      BY <2>4, <3>0 DEF SendRefund
    <3>2. orders[k] # None /\ orders[k].state \in {"refund_pending", "refunded"} /\ FieldsFit(k)
      BY <2>4, <3>0 DEF SendRefund, At, KeeperInv, TasksFit, TaskFits, OrdersFit
    <3>3. k \notin cap
      BY <3>2 DEF FieldsFit, KeeperInv, MoneyFits
    <3>4. CASE k \in refundSent
      BY <2>1, <2>2, <3>1, <3>4
    <3>5. CASE k \notin refundSent
      <4>1. Promise!Refund(k)
        BY <2>1, <2>2, <3>1, <3>3, <3>5 DEF Promise!Refund
      <4> QED
        BY <4>1 DEF Promise!PromiseNext
    <3> QED
      BY <3>4, <3>5
  <2>5. ASSUME NEW x \in Txs, MineSuccess(x)
        PROVE  Promise!PromiseNext \/ (reg' = reg /\ cap' = cap /\ refundSent' = refundSent)
    <3> DEFINE n == txs[x].name
               p == txs[x].permit
    <3>1. /\ txs[x] # None /\ registration[n] = None /\ UNCHANGED <<orders, captured, refundSent>>
          /\ registration' = [registration EXCEPT ![n] = p]
      BY <2>5 DEF MineSuccess
    <3>2. n \in Names /\ p \in Permits
      BY <3>1 DEF KeeperInv, KeeperTypeOK, Transactions
    <3>3. PICK k \in Keys : orders[k] # None /\ orders[k].permit = p
      BY <3>1 DEF KeeperInv, ChainFits
    <3> HIDE DEF n, p
    <3>4. /\ registration'[n] = p
          /\ \A m \in Names \ {n} : registration'[m] = registration[m]
      BY <3>1, <3>2 DEF KeeperInv, KeeperTypeOK
    <3>5. ASSUME NEW l \in Keys \ {k} PROVE Registered(l)' <=> Registered(l)
      <4> SUFFICES ASSUME orders[l] # None, orders[l].permit # None
                   PROVE  Registered(l)' <=> Registered(l)
        BY <3>1 DEF Registered
      <4>1. orders[l].permit # p /\ orders[l].name \in Names
        BY <3>3, <3>5 DEF KeeperInv, IdentifiersUnique, KeeperTypeOK, KeeperOrder
      <4> QED
        BY <3>1, <3>4, <4>1 DEF Registered
    <3>6. CASE orders[k].name = n
      <4>1. ~Registered(k) /\ Registered(k)'
        BY <3>1, <3>2, <3>3, <3>4, <3>6 DEF Registered
      <4>2. reg' = reg \cup {k} /\ k \notin reg
        BY <3>5, <4>1
      <4>3. Promise!Register(k)
        BY <2>1, <3>1, <4>2 DEF Promise!Register
      <4> QED
        BY <4>3 DEF Promise!PromiseNext
    <3>7. CASE orders[k].name # n
      <4>1. orders[k].name \in Names
        BY <3>3 DEF KeeperInv, KeeperTypeOK, KeeperOrder
      <4>2. Registered(k)' <=> Registered(k)
        BY <3>1, <3>4, <3>7, <4>1 DEF Registered
      <4> QED
        BY <2>1, <3>1, <3>5, <4>2
    <3> QED
      BY <3>6, <3>7
  <2>6. ASSUME UNCHANGED <<registration, captured, refundSent>>,
               NEW k \in Keys, NEW o, Put(k, o),
               orders[k] = None \/ orders[k].permit = None \/ (o # None /\ o.name = orders[k].name
                                                               /\ o.permit = orders[k].permit),
               orders[k] = None \/ orders[k].permit = None =>
                 ~Registered(k)'
        PROVE  reg' = reg /\ cap' = cap /\ refundSent' = refundSent
    <3>1. orders'[k] = o /\ \A l \in Keys \ {k} : orders'[l] = orders[l]
      BY <2>6 DEF KeeperInv, KeeperTypeOK, Put
    <3>2. ASSUME NEW l \in Keys \ {k} PROVE Registered(l)' <=> Registered(l)
      BY <2>6, <3>1 DEF Registered
    <3>3. Registered(k)' <=> Registered(k)
      BY <2>6, <3>1 DEF Registered
    <3> QED
      BY <2>1, <2>6, <3>2, <3>3
  <2> DEFINE Same == reg' = reg /\ cap' = cap /\ refundSent' = refundSent
  <2>7. ASSUME NEW w \in Workers, StoreCreate(w) PROVE Same
    <3>0. PICK k \in Keys : k = task[w].key
      <4>1. task[w].step = "insert" /\ task[w] \in Tasks
        BY <2>7 DEF StoreCreate, At, KeeperInv, KeeperTypeOK
      <4> QED
        BY <4>1 DEF Tasks, Idle
    <3> DEFINE o == NewOrder(task[w].name, task[w].price)
    <3>1. UNCHANGED <<registration, captured, refundSent>>
      BY <2>7 DEF StoreCreate, externalVars
    <3>2. UNCHANGED orders \/ (orders[k] = None /\ Put(k, o))
      BY <2>7, <3>0 DEF StoreCreate
    <3>3. o.permit = None
      BY DEF NewOrder
    <3>4. ASSUME Put(k, o) PROVE ~Registered(k)'
      BY <3>3, <3>4 DEF Put, Registered, KeeperInv, KeeperTypeOK
    <3> HIDE DEF o
    <3> QED
      BY <2>1, <2>2, <2>6, <3>1, <3>2, <3>4
  <2>8. ASSUME NEW w \in Workers, NEW p \in Permits, IssuePermit(w, p) PROVE Same
    <3>0. PICK k \in Keys : k = task[w].key
      <4>1. task[w].step = "permit" /\ task[w] \in Tasks
        BY <2>8 DEF IssuePermit, At, KeeperInv, KeeperTypeOK
      <4> QED
        BY <4>1 DEF Tasks, Idle
    <3> DEFINE o == [orders[k] EXCEPT !.state = "permit_issued", !.permit = p]
    <3>1. /\ UNCHANGED <<registration, captured, refundSent>> /\ Put(k, o) /\ ~TakenPermit(k, p)
          /\ orders[k] # None /\ orders[k].state = "quoted"
      BY <2>8, <3>0 DEF IssuePermit, CanTransition, externalVars
    <3>2. orders[k].permit = None /\ orders[k] \in KeeperOrder
      BY <3>1 DEF KeeperInv, KeeperTypeOK, OrdersFit, FieldsFit
    <3>3. o.permit = p /\ o.name = orders[k].name /\ o.name \in Names
      BY <3>2 DEF KeeperOrder
    <3>4. registration[o.name] # p
      BY <3>1, <3>2, <3>3 DEF KeeperInv, ChainFits, TakenPermit
    <3> HIDE DEF o
    <3>5. orders'[k] = o
      BY <3>1 DEF Put, KeeperInv, KeeperTypeOK
    <3>6. ~Registered(k)'
      BY <3>1, <3>3, <3>4, <3>5 DEF Registered
    <3> QED
      BY <2>6, <3>1, <3>2, <3>6
  <2>9. ASSUME NEW w \in Workers,
               \/ VerifyPayment(w) \/ RecordSubmission(w) \/ CheckReceipt(w)
               \/ RecordSettlement(w) \/ RecordRefund(w)
        PROVE  Same
    <3>0. PICK k \in Keys : k = task[w].key
      <4>1. task[w].step \in {"verify", "submitted", "receipt", "settled", "unsettled", "sent"}
        BY <2>9 DEF VerifyPayment, RecordSubmission, CheckReceipt, RecordSettlement,
                    RecordRefund, At
      <4>2. task[w] \in Tasks
        BY DEF KeeperInv, KeeperTypeOK
      <4> QED
        BY <4>1, <4>2 DEF Tasks, Idle
    <3>1. /\ UNCHANGED <<registration, captured, refundSent>> /\ orders[k] # None
          /\ orders[k].state # "quoted"
      BY <2>9, <3>0 DEF VerifyPayment, RecordSubmission, CheckReceipt, RecordSettlement,
                        RecordRefund, CanTransition, externalVars
    <3>2. PICK o : /\ Put(k, o) /\ o.name = orders[k].name /\ o.permit = orders[k].permit
                   /\ o # None
      <4>1. orders[k] \in KeeperOrder /\ orders'[k] \in KeeperOrder \cup {None}
        BY <3>1 DEF KeeperInv, KeeperTypeOK
      <4>2. CASE VerifyPayment(w)
        <5> DEFINE o == [orders[k] EXCEPT !.state = "payment_authorized", !.payment = task[w].payment]
        <5>0. task[w].payment \in Payments
          <6>1. task[w].step = "verify" /\ task[w] \in Tasks
            BY <4>2 DEF VerifyPayment, At, KeeperInv, KeeperTypeOK
          <6> QED
            BY <6>1 DEF Tasks, Idle
        <5>1. o.name = orders[k].name /\ o.permit = orders[k].permit /\ o # None
          BY <4>1, <5>0 DEF KeeperOrder, OrderStates
        <5>2. Put(k, o)
          BY <3>0, <4>2 DEF VerifyPayment
        <5> HIDE DEF o
        <5> QED
          BY <5>1, <5>2
      <4>3. CASE RecordSubmission(w)
        <5> DEFINE o == [orders[k] EXCEPT !.state = "registration_submitted", !.tx = task[w].tx]
        <5>0. task[w].tx \in Txs
          <6>1. task[w].step = "submitted" /\ task[w] \in Tasks
            BY <4>3 DEF RecordSubmission, At, KeeperInv, KeeperTypeOK
          <6> QED
            BY <6>1 DEF Tasks, Idle
        <5>1. o.name = orders[k].name /\ o.permit = orders[k].permit /\ o # None
          BY <4>1, <5>0 DEF KeeperOrder, OrderStates
        <5>2. Put(k, o)
          BY <3>0, <4>3 DEF RecordSubmission
        <5> HIDE DEF o
        <5> QED
          BY <5>1, <5>2
      <4>4. CASE CheckReceipt(w)
        <5> DEFINE o == [orders[k] EXCEPT !.state = Verdict(orders[k], txs[orders[k].tx]),
                                        !.token = Verdict(orders[k], txs[orders[k].tx]) =
                                                    "registration_confirmed"]
        <5>0. Verdict(orders[k], txs[orders[k].tx]) \in OrderStates
          BY DEF Verdict, OrderStates
        <5>1. o.name = orders[k].name /\ o.permit = orders[k].permit /\ o # None
          BY <4>1, <5>0 DEF KeeperOrder, OrderStates
        <5>2. Put(k, o)
          BY <3>0, <4>4 DEF CheckReceipt
        <5> HIDE DEF o
        <5> QED
          BY <5>1, <5>2
      <4>5. CASE RecordSettlement(w)
        <5> DEFINE o == [orders[k] EXCEPT !.state = IF At(w, "settled") THEN "payment_settled"
                                                 ELSE "manual_review"]
        <5>1. o.name = orders[k].name /\ o.permit = orders[k].permit /\ o # None
          BY <4>1 DEF KeeperOrder, OrderStates
        <5>2. Put(k, o)
          BY <3>0, <4>5 DEF RecordSettlement
        <5> HIDE DEF o
        <5> QED
          BY <5>1, <5>2
      <4>6. CASE RecordRefund(w)
        <5> DEFINE o == [orders[k] EXCEPT !.state = "refunded"]
        <5>1. o.name = orders[k].name /\ o.permit = orders[k].permit /\ o # None
          BY <4>1 DEF KeeperOrder, OrderStates
        <5>2. Put(k, o)
          BY <3>0, <4>6 DEF RecordRefund
        <5> HIDE DEF o
        <5> QED
          BY <5>1, <5>2
      <4> QED
        BY <2>9, <4>2, <4>3, <4>4, <4>5, <4>6
    <3>3. orders[k].permit # None
      BY <3>1 DEF KeeperInv, OrdersFit, FieldsFit
    <3> QED
      BY <2>6, <3>1, <3>2, <3>3
  <2>10. ASSUME NEW w \in Workers, WorkerNext(w) PROVE Promise!PromiseNext \/ Same
    <3>1. ASSUME UNCHANGED <<orders, registration, captured, refundSent>> PROVE Same
      BY <2>1, <2>2, <3>1
    <3>2. \/ UNCHANGED <<orders, registration, captured, refundSent>>
          \/ StoreCreate(w) \/ \E p \in Permits : IssuePermit(w, p)
          \/ VerifyPayment(w) \/ RecordSubmission(w) \/ CheckReceipt(w)
          \/ RecordSettlement(w) \/ RecordRefund(w)
          \/ (Settle(w) /\ UNCHANGED <<orders, registration, refundSent>>) \/ SendRefund(w)
      BY <2>10 DEF WorkerNext, CreateStart, Quote, AuthorizeStart, SubmitRegistration,
                   ReconcileStart, Settle, Fail, externalVars
    <3> QED
      BY <2>3, <2>4, <2>7, <2>8, <2>9, <3>1, <3>2
  <2>11. CASE SetPaused \/ ChainNext \/ UNCHANGED vars
    <3>1. \/ UNCHANGED <<orders, registration, captured, refundSent>>
          \/ \E x \in Txs : MineSuccess(x)
      BY <2>11 DEF SetPaused, ChainNext, MineRevert, SetPrice, vars, externalVars
    <3> QED
      BY <2>1, <2>2, <2>5, <3>1
  <2> QED
    BY <2>10, <2>11 DEF KeeperNext
<1> QED
  BY <1>1, <1>2, KeeperInvariant, KeeperInitInv, PTL DEF KeeperSpec, KeepsOrderPromise,
     Promise!PromiseSpec

\* Of the payments that were taken, each belongs to an order of its own.
ChargedOnce == \A p, q \in Payments : captured[p] # None /\ captured[p] = captured[q] => p = q

\* Two orders that both say a name is registered with their permit are one.
NameClaimedOnce ==
  \A k, l \in Keys :
    /\ orders[k] # None /\ orders[k].token
    /\ orders[l] # None /\ orders[l].token
    /\ orders[k].name = orders[l].name
    => k = l

\* No order is charged twice and no name is sold to two orders, whichever workers took
\* them up, crashed over them or repeated each other's steps.
THEOREM NoOrderChargedTwice ==
  UniqueIdentifiers => (KeeperSpec => [](ChargedOnce /\ NameClaimedOnce))
<1>1. KeeperInv => ChargedOnce
  BY DEF KeeperInv, MoneyFits, ChargedOnce
<1>2. KeeperInv => NameClaimedOnce
  <2> SUFFICES ASSUME KeeperInv, NEW k \in Keys, NEW l \in Keys,
                      orders[k] # None, orders[l] # None, orders[k].token, orders[l].token,
                      orders[k].name = orders[l].name
               PROVE  k = l
    BY DEF NameClaimedOnce
  <2>1. FieldsFit(k) /\ FieldsFit(l)
    BY DEF KeeperInv, OrdersFit
  <2>2. orders[k].permit = orders[l].permit
    BY <2>1 DEF FieldsFit
  <2>3. orders[k].permit # None
    <3>1. orders[k].state \in {"registration_confirmed", "payment_settled", "manual_review"}
      BY <2>1 DEF FieldsFit
    <3> QED
      BY <2>1, <3>1 DEF FieldsFit
  <2> QED
    BY <2>2, <2>3 DEF KeeperInv, IdentifiersUnique
<1> QED
  BY <1>1, <1>2, KeeperInvariant, PTL

(***************************************************************************)
(* Money follows the receipts.  KeeperInv says that a charged order has    *)
(* its name under its own permit; that the registration was also sold at   *)
(* the price the order was quoted, and that a refund answers a transaction *)
(* that failed, rests on the receipt the order recorded.                   *)
(***************************************************************************)

\* A mined transaction stands behind what the order concluded.
ReceiptFits(o) ==
  /\ o.token => /\ o.tx \in Txs /\ txs[o.tx] # None /\ txs[o.tx].status = "success"
                /\ ReceiptProves(o, txs[o.tx])
  /\ o.state \in {"refund_pending", "refunded"} =>
       o.tx \in Txs /\ txs[o.tx] # None /\ txs[o.tx].status = "reverted"
ReceiptsFit == \A k \in Keys : orders[k] # None => ReceiptFits(orders[k])

\* What was mined is final: nothing writes a transaction again.
LEMMA MinedIsFinal ==
  ASSUME KeeperInv, [KeeperNext]_vars, NEW t \in Txs, txs[t] # None, txs[t].status # "pending"
  PROVE  txs'[t] = txs[t]
<1>1. CASE UNCHANGED txs
  BY <1>1
<1>2. CASE \E x \in Txs : txs[x] = None /\ \E r : txs' = [txs EXCEPT ![x] = r]
  BY <1>2 DEF KeeperInv, KeeperTypeOK
<1>3. CASE \E x \in Txs : /\ txs[x].status = "pending"
                          /\ \E v : txs' = [txs EXCEPT ![x].status = v]
  BY <1>3 DEF KeeperInv, KeeperTypeOK
<1>4. ASSUME NEW w \in Workers, WorkerNext(w)
      PROVE  UNCHANGED txs \/ \E x \in Txs : txs[x] = None /\ \E r : txs' = [txs EXCEPT ![x] = r]
  BY <1>4 DEF WorkerNext, CreateStart, Quote, StoreCreate, IssuePermit, AuthorizeStart,
              VerifyPayment, SubmitRegistration, RecordSubmission, ReconcileStart, CheckReceipt,
              Settle, RecordSettlement, SendRefund, RecordRefund, Fail, externalVars
<1>5. ASSUME SetPaused \/ ChainNext \/ UNCHANGED vars
      PROVE  \/ UNCHANGED txs
             \/ \E x \in Txs : /\ txs[x].status = "pending"
                               /\ \E v : txs' = [txs EXCEPT ![x].status = v]
  BY <1>5 DEF SetPaused, ChainNext, MineSuccess, MineRevert, SetPrice, vars, externalVars
<1> QED
  BY <1>1, <1>2, <1>3, <1>4, <1>5 DEF KeeperNext

\* An order whose receipt fits still fits after the transactions of the others moved.
LEMMA ReceiptStaysFit ==
  ASSUME KeeperInv, [KeeperNext]_vars, NEW o, ReceiptFits(o)
  PROVE  ReceiptFits(o)'
<1>1. ASSUME NEW t \in Txs, txs[t] # None, txs[t].status # "pending" PROVE txs'[t] = txs[t]
  BY <1>1, MinedIsFinal
<1>2. o.token => txs'[o.tx] = txs[o.tx]
  BY <1>1 DEF ReceiptFits
<1>3. o.state \in {"refund_pending", "refunded"} => txs'[o.tx] = txs[o.tx]
  BY <1>1 DEF ReceiptFits
<1> QED
  BY <1>2, <1>3 DEF ReceiptFits, ReceiptProves

\* A step of a worker leaves every order with its receipt.
LEMMA WorkerKeepsReceipts ==
  ASSUME KeeperInv, ReceiptsFit, NEW w \in Workers, WorkerNext(w), [KeeperNext]_vars,
         NEW k \in Keys, orders'[k] # None, orders'[k] # orders[k]
  PROVE  ReceiptFits(orders[k])'
<1> PICK q : q = orders'[k]
  OBVIOUS
<1>1. ASSUME NEW p \in Permits, StoreCreate(w) \/ IssuePermit(w, p) PROVE ReceiptFits(q)'
  <2>1. CASE StoreCreate(w)
    <3>1. q = NewOrder(task[w].name, task[w].price)
      BY <2>1 DEF StoreCreate, Put, KeeperInv, KeeperTypeOK
    <3> QED
      BY <3>1 DEF NewOrder, ReceiptFits
  <2>2. CASE IssuePermit(w, p)
    <3>1. orders[k] \in KeeperOrder /\ orders[k].state = "quoted" /\ ~orders[k].token
      BY <2>2 DEF IssuePermit, Put, CanTransition, KeeperInv, KeeperTypeOK, OrdersFit, FieldsFit
    <3>2. q = [orders[k] EXCEPT !.state = "permit_issued", !.permit = p]
      BY <2>2 DEF IssuePermit, Put, KeeperInv, KeeperTypeOK
    <3>3. ~q.token /\ q.state = "permit_issued"
      BY <3>1, <3>2 DEF KeeperOrder
    <3> QED
      BY <3>3 DEF ReceiptFits
  <2> QED
    BY <1>1, <2>1, <2>2
<1>2. CASE VerifyPayment(w) \/ RecordSubmission(w)
  <2>0. k = task[w].key /\ orders[k] # None /\ orders[k] \in KeeperOrder
    BY <1>2 DEF VerifyPayment, RecordSubmission, Put, CanTransition, KeeperInv, KeeperTypeOK
  <2>1. /\ orders[k].state \in {"permit_issued", "payment_authorized"}
        /\ \/ q = [orders[k] EXCEPT !.state = "payment_authorized", !.payment = task[w].payment]
           \/ q = [orders[k] EXCEPT !.state = "registration_submitted", !.tx = task[w].tx]
    <3>1. CASE VerifyPayment(w)
      BY <2>0, <3>1 DEF VerifyPayment, Put, CanTransition, KeeperInv, KeeperTypeOK
    <3>2. CASE RecordSubmission(w)
      BY <2>0, <3>2 DEF RecordSubmission, Put, CanTransition, KeeperInv, KeeperTypeOK
    <3> QED
      BY <1>2, <3>1, <3>2
  <2>3. ~orders[k].token
    BY <2>0, <2>1 DEF KeeperInv, OrdersFit, FieldsFit
  <2>2. ~q.token /\ q.state \in {"payment_authorized", "registration_submitted"}
    BY <2>0, <2>1, <2>3 DEF KeeperOrder
  <2> QED
    BY <2>2 DEF ReceiptFits
<1>3. CASE CheckReceipt(w)
  <2> DEFINE tx == txs[orders[k].tx]
  <2>1. /\ orders[k] \in KeeperOrder /\ orders[k].state = "registration_submitted"
        /\ orders[k].tx \in Txs /\ tx # None /\ tx.status # "pending"
        /\ q = [orders[k] EXCEPT !.state = Verdict(orders[k], tx),
                                 !.token = Verdict(orders[k], tx) = "registration_confirmed"]
        /\ UNCHANGED txs
    <3>0. k = task[w].key /\ orders[k] # None /\ orders[k] \in KeeperOrder
      BY <1>3 DEF CheckReceipt, Put, CanTransition, KeeperInv, KeeperTypeOK
    <3>1. /\ orders[k].state = "registration_submitted" /\ tx.status # "pending"
          /\ q = [orders[k] EXCEPT !.state = Verdict(orders[k], tx),
                                   !.token = Verdict(orders[k], tx) = "registration_confirmed"]
      BY <1>3, <3>0 DEF CheckReceipt, Put, KeeperInv, KeeperTypeOK
    <3>2. orders[k].tx \in Txs /\ tx # None
      BY <3>0, <3>1 DEF KeeperInv, OrdersFit, FieldsFit, KeeperOrder
    <3> QED
      BY <1>3, <3>0, <3>1, <3>2 DEF CheckReceipt, externalVars
  <2>2. tx \in Transactions
    BY <2>1 DEF KeeperInv, KeeperTypeOK
  <2>3. /\ q.tx = orders[k].tx /\ q.permit = orders[k].permit /\ q.name = orders[k].name
        /\ q.price = orders[k].price /\ q.state = Verdict(orders[k], tx)
        /\ q.token <=> Verdict(orders[k], tx) = "registration_confirmed"
    BY <2>1 DEF KeeperOrder
  <2>4. CASE tx.status = "reverted"
    BY <2>1, <2>3, <2>4 DEF Verdict, ReceiptFits
  <2>5. CASE tx.status = "success"
    BY <2>1, <2>3, <2>5 DEF Verdict, ReceiptFits, ReceiptProves
  <2> QED
    BY <2>1, <2>2, <2>4, <2>5 DEF Transactions
<1>4. CASE RecordSettlement(w) \/ RecordRefund(w)
  <2>1. PICK s \in {"payment_settled", "manual_review", "refunded"} :
          /\ orders[k] \in KeeperOrder /\ ReceiptFits(orders[k])
          /\ q = [orders[k] EXCEPT !.state = s]
          /\ s = "refunded" => orders[k].state = "refund_pending"
          /\ UNCHANGED txs
    <3>1. CASE RecordSettlement(w)
      BY <3>1 DEF RecordSettlement, Put, CanTransition, externalVars, KeeperInv, KeeperTypeOK,
                  ReceiptsFit
    <3>2. CASE RecordRefund(w)
      BY <3>2 DEF RecordRefund, Put, CanTransition, externalVars, KeeperInv, KeeperTypeOK,
                  ReceiptsFit
    <3> QED
      BY <1>4, <3>1, <3>2
  <2>2. /\ q.tx = orders[k].tx /\ q.permit = orders[k].permit /\ q.name = orders[k].name
        /\ q.price = orders[k].price /\ q.token = orders[k].token /\ q.state = s
    BY <2>1 DEF KeeperOrder
  <2> QED
    BY <2>1, <2>2 DEF ReceiptFits, ReceiptProves
<1>5. \/ \E p \in Permits : IssuePermit(w, p)
      \/ StoreCreate(w) \/ VerifyPayment(w) \/ RecordSubmission(w) \/ CheckReceipt(w)
      \/ RecordSettlement(w) \/ RecordRefund(w)
  BY DEF WorkerNext, CreateStart, Quote, AuthorizeStart, SubmitRegistration, ReconcileStart,
         Settle, SendRefund, Fail, externalVars
<1>6. CASE StoreCreate(w)
  <2>1. q = NewOrder(task[w].name, task[w].price)
    BY <1>6 DEF StoreCreate, Put, KeeperInv, KeeperTypeOK
  <2> QED
    BY <2>1 DEF NewOrder, ReceiptFits
<1> QED
  BY <1>1, <1>2, <1>3, <1>4, <1>5, <1>6

\* The receipts of all orders fit, always.
LEMMA ReceiptsInvariant == UniqueIdentifiers => (KeeperSpec => []ReceiptsFit)
<1>1. KeeperInit => ReceiptsFit
  BY DEF KeeperInit, StoreInit, ReceiptsFit
<1>2. KeeperInv /\ ReceiptsFit /\ [KeeperNext]_vars => ReceiptsFit'
  <2> SUFFICES ASSUME KeeperInv, ReceiptsFit, [KeeperNext]_vars, NEW k \in Keys, orders'[k] # None
               PROVE  ReceiptFits(orders[k])'
    BY DEF ReceiptsFit
  <2>1. CASE orders'[k] = orders[k]
    <3>1. PICK o : o = orders[k]
      OBVIOUS
    <3>2. ReceiptFits(o)
      BY <2>1, <3>1 DEF ReceiptsFit
    <3>3. ReceiptFits(o)'
      BY <3>2, ReceiptStaysFit
    <3> QED
      BY <2>1, <3>1, <3>3
  <2>2. CASE orders'[k] # orders[k]
    <3>1. \E w \in Workers : WorkerNext(w)
      BY <2>2 DEF KeeperNext, SetPaused, ChainNext, MineSuccess, MineRevert, SetPrice, vars
    <3> QED
      BY <2>2, <3>1, WorkerKeepsReceipts
  <2> QED
    BY <2>1, <2>2
<1> QED
  BY <1>1, <1>2, KeeperInvariant, PTL DEF KeeperSpec

\* A payment that was taken is the one bound to its order, and the transaction the order
\* recorded succeeded, with the order's permit and name and at its quoted price.
PaymentBacked ==
  \A p \in Payments : captured[p] # None =>
    LET o == orders[captured[p]] IN
    /\ o.payment = p
    /\ txs[o.tx] # None /\ txs[o.tx].status = "success"
    /\ ReceiptProves(o, txs[o.tx])

\* Money goes back only for an order whose recorded transaction failed.
RefundBacked ==
  \A k \in refundSent : txs[orders[k].tx] # None /\ txs[orders[k].tx].status = "reverted"

\* Every payment taken and every refund sent answers a mined transaction of the order,
\* whatever the adapter named, the price became, or the workers repeated.
THEOREM MoneyFollowsReceipts ==
  UniqueIdentifiers => (KeeperSpec => [](PaymentBacked /\ RefundBacked))
<1>1. KeeperInv /\ ReceiptsFit => PaymentBacked
  <2> SUFFICES ASSUME KeeperInv, ReceiptsFit, NEW p \in Payments, captured[p] # None,
                      NEW o, o = orders[captured[p]]
               PROVE  /\ o.payment = p
                      /\ txs[o.tx] # None /\ txs[o.tx].status = "success"
                      /\ ReceiptProves(o, txs[o.tx])
    BY DEF PaymentBacked
  <2>1. captured[p] \in Keys /\ o # None /\ o.token /\ o.payment = p
    BY DEF KeeperInv, KeeperTypeOK, MoneyFits
  <2>2. ReceiptFits(o)
    BY <2>1 DEF ReceiptsFit
  <2> QED
    BY <2>1, <2>2 DEF ReceiptFits
<1>2. KeeperInv /\ ReceiptsFit => RefundBacked
  <2> SUFFICES ASSUME KeeperInv, ReceiptsFit, NEW k \in refundSent
               PROVE  txs[orders[k].tx] # None /\ txs[orders[k].tx].status = "reverted"
    BY DEF RefundBacked
  <2>1. /\ k \in Keys /\ orders[k] # None
        /\ orders[k].state \in {"refund_pending", "refunded"}
    BY DEF KeeperInv, KeeperTypeOK, MoneyFits
  <2> QED
    BY <2>1 DEF ReceiptsFit, ReceiptFits
<1> QED
  BY <1>1, <1>2, KeeperInvariant, ReceiptsInvariant, PTL

=============================================================================
