------------------------ MODULE MCArcNameMarketplace ------------------------
(***************************************************************************)
(* The market with one name, Alice, who is an externally owned account,    *)
(* and Bob, whose account has code.  Fees are in tenths.                   *)
(***************************************************************************)
EXTENDS ArcNameMarketplace

CONSTANTS n1, alice, bob, ctrl, market

MCOperatorPairs == {<<alice, market>>, <<bob, market>>}

MCInitialWallet == [a \in {alice, bob} |-> 10]

=============================================================================
