-------------------------- MODULE PaidRegistration --------------------------
(***************************************************************************)
(* What the x402 keeper promises of an order: its payment is taken only    *)
(* when its name was registered for it, a payment that was taken is never  *)
(* refunded, and nothing is taken after a refund.  The keeper may register *)
(* a name and never take the payment: docs/AGENT_X402.md accepts that risk *)
(* of the order "register, then settle".                                   *)
(***************************************************************************)

CONSTANT Orders

VARIABLES
  registered,   \* the orders whose name was registered under their permit
  captured,     \* the orders a payment was taken for
  refunded      \* the orders a refund was sent for

promiseVars == <<registered, captured, refunded>>

PromiseInit == registered = {} /\ captured = {} /\ refunded = {}

Register(k) ==
  /\ k \notin registered
  /\ registered' = registered \cup {k}
  /\ UNCHANGED <<captured, refunded>>

Capture(k) ==
  /\ k \in registered \ (captured \cup refunded)
  /\ captured' = captured \cup {k}
  /\ UNCHANGED <<registered, refunded>>

Refund(k) ==
  /\ k \notin captured \cup refunded
  /\ refunded' = refunded \cup {k}
  /\ UNCHANGED <<registered, captured>>

PromiseNext == \E k \in Orders : Register(k) \/ Capture(k) \/ Refund(k)

PromiseSpec == PromiseInit /\ [][PromiseNext]_promiseVars

=============================================================================
