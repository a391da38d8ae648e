-------------------------- MODULE ArcNameRegistry --------------------------
(***************************************************************************)
(* contracts/src/ArcNameRegistry.sol: who owns a node, which resolver and  *)
(* TTL it has, and which operators an account has approved.  The module    *)
(* keeps the registry's own state only; a contract that calls the registry *)
(* inside one of its transactions (ArcBaseRegistrar) writes these          *)
(* variables in its own action.                                            *)
(*                                                                         *)
(* The base node and the reverse node keep the owner the deployment script *)
(* gives them (the base registrar and the reverse registrar); recovery by  *)
(* the root owner is outside the model.                                    *)
(***************************************************************************)

CONSTANTS
  Addresses,   \* accounts and contracts that can be a msg.sender
  Zero,        \* address(0)
  Nodes,       \* the registry nodes under the base node
  Resolvers    \* resolver contracts a node can point at

ASSUME ZeroAssumption == Zero \notin Addresses /\ Zero \notin Resolvers

VARIABLES
  nodeOwner,      \* _records[node].owner
  nodeResolver,   \* _records[node].resolver
  nodeTTL,        \* _records[node].ttl
  nodeOperators   \* _operators, as the set of pairs <<account, operator>>

registryVars == <<nodeOwner, nodeResolver, nodeTTL, nodeOperators>>

RegistryInit ==
  /\ nodeOwner = [n \in Nodes |-> Zero]
  /\ nodeResolver = [n \in Nodes |-> Zero]
  /\ nodeTTL = [n \in Nodes |-> 0]
  /\ nodeOperators = {}

\* The modifier of every node operation: the owner, or an operator of the owner.
Authorised(caller, node) ==
  \/ caller = nodeOwner[node]
  \/ <<nodeOwner[node], caller>> \in nodeOperators

SetOwner(caller, node, newOwner) ==
  /\ Authorised(caller, node)
  /\ nodeOwner' = [nodeOwner EXCEPT ![node] = newOwner]
  /\ UNCHANGED <<nodeResolver, nodeTTL, nodeOperators>>

SetResolver(caller, node, newResolver) ==
  /\ Authorised(caller, node)
  /\ nodeResolver' = [nodeResolver EXCEPT ![node] = newResolver]
  /\ UNCHANGED <<nodeOwner, nodeTTL, nodeOperators>>

SetTTL(caller, node, newTTL) ==
  /\ Authorised(caller, node)
  /\ nodeTTL' = [nodeTTL EXCEPT ![node] = newTTL]
  /\ UNCHANGED <<nodeOwner, nodeResolver, nodeOperators>>

SetRegistryOperator(caller, operator, approved) ==
  /\ nodeOperators' = IF approved THEN nodeOperators \cup {<<caller, operator>>}
                                  ELSE nodeOperators \ {<<caller, operator>>}
  /\ UNCHANGED <<nodeOwner, nodeResolver, nodeTTL>>

=============================================================================
