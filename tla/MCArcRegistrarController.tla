---------------------- MODULE MCArcRegistrarController ----------------------
(***************************************************************************)
(* The controller with one name, two accounts and two signers.  Prices     *)
(* are in units of 500000, bps in tenths, and the time constants keep      *)
(* their order: a permit window is shorter than the signer delay, which    *)
(* is shorter than a year.                                                 *)
(***************************************************************************)
EXTENDS ArcRegistrarController

CONSTANTS n1, alice, bob, ctrl, s1, s2

\* A label of two code points (price 5).
MCCodePoints == [id \in Names |-> 2]

\* A permit an issuer would sign for a requester who pays for itself.
Ordinary(id, requester, referrer, rate, permitId, nonce, from, signer) ==
  [name |-> id, requester |-> requester, recipient |-> requester, payer |-> requester,
   executor |-> requester, years |-> 1, withData |-> FALSE, referrer |-> referrer,
   amount |-> 5, bps |-> rate, permitId |-> permitId, nonce |-> nonce,
   issuedAt |-> from, validAfter |-> from, validUntil |-> from + 1, bound |-> TRUE,
   signer |-> signer]

\* Of the first signer: two registrations of n1, the second when the first lapsed and
\* as a present, each quoted with the rate of its time; one more for the second lease, with
\* the next nonce; and, as if somebody else controlled it, one that has Bob spend what Alice
\* approved.  Of the second signer: one that uses an id of the first one again.
MoneyPermits ==
  {Ordinary(n1, alice, bob, 3, 1, 0, 0, s1),
   [Ordinary(n1, bob, alice, 3, 2, 0, 4, s1) EXCEPT !.recipient = ctrl],
   [Ordinary(n1, alice, bob, 0, 3, 1, 4, s1) EXCEPT !.withData = TRUE],
   [Ordinary(n1, bob, Zero, 0, 2, 0, 0, s1) EXCEPT !.payer = alice],
   Ordinary(n1, bob, Zero, 0, 1, 0, 4, s2)}

MCInitialWallet == [a \in {alice, bob} |-> 6]

=============================================================================
