--------------------------- MODULE MCPermitIssuer ---------------------------
(***************************************************************************)
(* Instances of PermitIssuer for TLC: alice and bob ask for one name, and  *)
(* alice asks for a second one.                                            *)
(***************************************************************************)
EXTENDS PermitIssuer, TLC

CONSTANTS alice, bob, n1, n2, aliceN1, bobN1, aliceN2

MCRequester == [r \in Requests |-> IF r = bobN1 THEN bob ELSE alice]
MCLabel == [r \in Requests |-> IF r = aliceN2 THEN n2 ELSE n1]
MCRequestKey == [r \in Requests |-> r]

PermitIdSymmetry == Permutations(PermitIds)

=============================================================================
