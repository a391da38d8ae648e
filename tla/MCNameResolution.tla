-------------------------- MODULE MCNameResolution --------------------------
(***************************************************************************)
(* NameResolution on one name, two accounts of which Alice has a reverse   *)
(* node, the public resolver and one of somebody else.                     *)
(***************************************************************************)
EXTENDS NameResolution, TLC

CONSTANTS n1, aliceReverse, alice, bob, ctrl, registrar, reverse, Foreign

MCReverseNode == (alice :> aliceReverse)

=============================================================================
