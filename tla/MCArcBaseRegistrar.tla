------------------------- MODULE MCArcBaseRegistrar -------------------------
(***************************************************************************)
(* ArcBaseRegistrar on one name, two registrants and the controller.  A    *)
(* year is two ticks and the grace period one, so that a name can be       *)
(* active, in grace, lapsed, and registered again within MaxTime.          *)
(***************************************************************************)
EXTENDS ArcBaseRegistrar

CONSTANTS n1, alice, bob, ctrl

\* Bob may become an operator of Alice, for her tokens and for her nodes.
MCOperatorPairs == {<<alice, bob>>}

=============================================================================
