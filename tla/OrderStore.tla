----------------------------- MODULE OrderStore -----------------------------
(***************************************************************************)
(* apps/x402-keeper/src/state.ts and store.ts: the durable orders and the  *)
(* compare-and-set that moves them.  An order is named by its idempotency  *)
(* key, which both stores keep unique.  PostgresOrderStore also keeps      *)
(* payment and permit identifiers unique; MemoryOrderStore, which          *)
(* server.ts uses, does not (UniqueIdentifiers).  Orders survive a crash.  *)
(***************************************************************************)
EXTENDS Naturals, FiniteSets

CONSTANTS
  Keys,               \* idempotency keys
  Names, Prices, Permits, Payments, Txs,
  None,
  UniqueIdentifiers   \* whether the store has the two unique indexes

VARIABLE orders       \* the order of a key, or None

OrderStates ==
  {"quoted", "permit_issued", "payment_authorized", "registration_submitted",
   "registration_confirmed", "payment_settled", "refund_pending", "refunded", "manual_review"}

ALLOWED_TRANSITIONS ==
  [quoted |-> {"permit_issued", "manual_review"},
   permit_issued |-> {"payment_authorized", "manual_review"},
   payment_authorized |-> {"registration_submitted", "refund_pending", "manual_review"},
   registration_submitted |-> {"registration_confirmed", "refund_pending", "manual_review"},
   registration_confirmed |-> {"payment_settled", "refund_pending", "manual_review"},
   payment_settled |-> {"refund_pending", "manual_review"},
   refund_pending |-> {"refunded", "manual_review"},
   refunded |-> {},
   manual_review |-> {}]

\* token is registrationTokenId # null.
KeeperOrder ==
  [state : OrderStates, name : Names, price : Prices, permit : Permits \cup {None},
   payment : Payments \cup {None}, tx : Txs \cup {None}, token : BOOLEAN]

ASSUME OrderStoreAssumption ==
  /\ UniqueIdentifiers \in BOOLEAN
  /\ Prices \subseteq Nat
  /\ None \notin Keys \cup Permits \cup Payments \cup Txs \cup KeeperOrder

StoreInit == orders = [k \in Keys |-> None]

NewOrder(n, p) == [state |-> "quoted", name |-> n, price |-> p, permit |-> None,
                   payment |-> None, tx |-> None, token |-> FALSE]

\* The fingerprint covers what was asked for and the quoted price.
SameFingerprint(order, n, p) == order.name = n /\ order.price = p

\* Another order already has this identifier.
TakenPermit(k, p) == \E l \in Keys \ {k} : orders[l] # None /\ orders[l].permit = p
TakenPayment(k, p) == \E l \in Keys \ {k} : orders[l] # None /\ orders[l].payment = p

\* As CanTransition, but the update forgets WHERE state = from.
CanTransition_NoCompare(k, from, to) ==
  /\ to \in ALLOWED_TRANSITIONS[from]
  /\ orders[k] # None

\* transition: nothing but the state it was asked about is compared.
CanTransition(k, from, to) ==
  /\ to \in ALLOWED_TRANSITIONS[from]
  /\ orders[k] # None
  /\ orders[k].state = from

Put(k, order) == orders' = [orders EXCEPT ![k] = order]

\* What the queue of the reconciler holds.
Reconcilable ==
  {k \in Keys : /\ orders[k] # None
                /\ orders[k].state \in {"payment_authorized", "registration_submitted",
                                        "registration_confirmed", "refund_pending"}}

=============================================================================
