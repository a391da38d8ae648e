-------------------------- MODULE MCKeeperWorkflow --------------------------
(***************************************************************************)
(* The keeper with two workers and two orders that compete for one name.   *)
(***************************************************************************)
EXTENDS KeeperWorkflow, TLC

KeeperSymmetry ==
  Permutations(Keys) \cup Permutations(Permits) \cup Permutations(Payments)
    \cup Permutations(Txs) \cup Permutations(Workers)

=============================================================================
