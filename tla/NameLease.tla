----------------------------- MODULE NameLease -----------------------------
(***************************************************************************)
(* What the name service promises a registrant, whatever the contracts     *)
(* keep internally: a name has at most one holder; it is granted only when *)
(* nobody holds it; the holder keeps it through the paid time and a grace  *)
(* period after it; while the time is paid the holder may hand it on; in   *)
(* the grace period nothing but an extension can happen to it; and it      *)
(* falls free by the passing of time alone.                                *)
(***************************************************************************)
EXTENDS Naturals

CONSTANTS Names, Addresses, Zero, GRACE

VARIABLES
  holder,      \* who holds the name, Zero when it is free
  paidUntil,   \* the end of the paid time of the last grant
  now

leaseVars == <<holder, paidUntil, now>>

LeaseInit ==
  /\ holder = [n \in Names |-> Zero]
  /\ paidUntil = [n \in Names |-> 0]
  /\ now \in Nat

\* A free name is granted for a time that ends in the future.
Grant(n) ==
  /\ holder[n] = Zero
  /\ \E a \in Addresses : holder' = [holder EXCEPT ![n] = a]
  /\ paidUntil'[n] > now
  /\ paidUntil' = [paidUntil EXCEPT ![n] = paidUntil'[n]]
  /\ UNCHANGED now

\* Paid time is only ever added, also in the grace period.
Extend(n) ==
  /\ holder[n] # Zero
  /\ paidUntil'[n] > paidUntil[n]
  /\ paidUntil' = [paidUntil EXCEPT ![n] = paidUntil'[n]]
  /\ UNCHANGED <<holder, now>>

\* A name changes hands in its paid time only.
Move(n) ==
  /\ holder[n] # Zero
  /\ now <= paidUntil[n]
  /\ \E a \in Addresses : holder' = [holder EXCEPT ![n] = a]
  /\ UNCHANGED <<paidUntil, now>>

\* Time passes, and the names whose grace period it ends fall free.
Pass ==
  /\ now' = now + 1
  /\ holder' = [n \in Names |-> IF now' > paidUntil[n] + GRACE THEN Zero ELSE holder[n]]
  /\ UNCHANGED paidUntil

LeaseNext == Pass \/ \E n \in Names : Grant(n) \/ Extend(n) \/ Move(n)

LeaseSpec == LeaseInit /\ [][LeaseNext]_leaseVars

=============================================================================
