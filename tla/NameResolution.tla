--------------------------- MODULE NameResolution ---------------------------
(***************************************************************************)
(* The calls that decide what a name resolves to and what an account is    *)
(* called, with what the logs of each transaction, in their order, make of *)
(* the index.  Token approvals and operators are ArcBaseRegistrar's run.   *)
(***************************************************************************)
EXTENDS BensSubgraph

CONSTANTS
  Users,              \* the accounts that act
  RegistrarAddress,   \* the base registrar, as owner of a node inside register
  ReverseAddress,     \* the reverse registrar, as owner of a node inside setName
  MaxReverseVersion   \* bound on the record versions of a reverse node

ASSUME UsersAssumption == Users \subseteq Addresses /\ MaxReverseVersion \in Nat

VARIABLE switched   \* history: the resolver was set since the address was written or cleared

resolutionVars == <<nameVars, recordData, spoken, index, switched>>

Init ==
  /\ ResolutionInit
  /\ IndexInit
  /\ switched = [id \in Names |-> FALSE]

(***************************************************************************)
(* Leases.  register: burn and mint, then the node in the registrar's own  *)
(* hands, cleared, pointed at the resolver and filled, then the holder's.  *)
(***************************************************************************)
RegisterIndexed(id, owner, expires, target) ==
  LET burnt  == IF Exists(id)
                THEN HandleRegistrarTransfer(HandleNewOwner(index, id, Zero), id, Zero)
                ELSE index
      minted == HandleNewOwner(HandleRegistrarTransfer(burnt, id, owner), id, RegistrarAddress)
      reset  == HandleNewTTL(HandleNewResolver(HandleVersionChanged(minted, id),
                                               id, PublicResolver), id, 0)
      filled == IF target # Zero THEN HandleAddrChanged(reset, id, target) ELSE reset
  IN HandleControllerNameRegistered(
       HandleBaseNameRegistered(HandleRegistryTransfer(filled, id, owner), id, owner, expires),
       id, owner, expires)

RegisterName(id, owner, duration, target) ==
  /\ Register(Controller, id, owner, duration, PublicResolver, target # Zero)
  /\ recordData' = [recordData EXCEPT ![id][recordVersions[id] + 1] = target]
  /\ switched' = [switched EXCEPT ![id] = FALSE]
  /\ index' = RegisterIndexed(id, owner, now + duration, target)
  /\ UNCHANGED spoken

RenewName(id, duration) ==
  LET expires == nameExpires[id] + duration
  IN /\ Renew(Controller, id, duration)
     /\ index' = HandleControllerNameRenewed(HandleBaseNameRenewed(index, id, expires),
                                             id, expires)
     /\ UNCHANGED <<recordData, spoken, switched>>

TransferName(caller, to, id) ==
  /\ TransferFrom(caller, to, id)
  /\ index' = HandleRegistrarTransfer(HandleNewOwner(index, id, to), id, to)
  /\ UNCHANGED <<recordData, spoken, switched>>

ReclaimName(caller, id, registryOwner) ==
  /\ Reclaim(caller, id, registryOwner)
  /\ index' = HandleNewOwner(index, id, registryOwner)
  /\ UNCHANGED <<recordData, spoken, switched>>

(***************************************************************************)
(* What the owner of a node does with it, and with its records.            *)
(***************************************************************************)
NodeSetOwner(caller, node, newOwner) ==
  /\ IF node \in Names
     THEN SetNodeOwner(caller, node, newOwner)
     ELSE SetOwner(caller, node, newOwner) /\ UNCHANGED <<registrarVars, resolverVars>>
  /\ index' = HandleRegistryTransfer(index, node, newOwner)
  /\ UNCHANGED <<recordData, spoken, switched>>

NodeSetResolver(caller, node, newResolver) ==
  /\ SetResolver(caller, node, newResolver)
  /\ switched' = [id \in Names |-> switched[id] \/ id = node]
  /\ index' = HandleNewResolver(index, node, newResolver)
  /\ UNCHANGED <<registrarVars, resolverVars, recordData, spoken>>

NodeSetTTL(caller, node) ==
  /\ node \in Names   \* bound: a reverse node keeps TTL 0
  /\ SetTTL(caller, node, leaseNo[node])
  /\ index' = HandleNewTTL(index, node, leaseNo[node])
  /\ UNCHANGED <<registrarVars, resolverVars, recordData, spoken, switched>>

\* setAddr of the public resolver, which does not ask whether the node uses it.
SetAddress(caller, id, target) ==
  /\ SetRecord(caller, id, leaseNo[id])
  /\ recordData' = [recordData EXCEPT ![id][recordVersions[id]] = target]
  /\ switched' = [switched EXCEPT ![id] = FALSE]
  /\ index' = HandleAddrChanged(index, id, target)
  /\ UNCHANGED <<registrarVars, spoken>>

\* setName of the public resolver at a reverse node, by whoever owns that node.
StoreName(caller, node, name) ==
  /\ SetRecord(caller, node, leaseNo[node])
  /\ recordData' = [recordData EXCEPT ![node][recordVersions[node]] = name]
  /\ UNCHANGED <<registrarVars, spoken, switched, index>>

ClearNode(caller, node) ==
  /\ ClearRecords(caller, node)
  /\ switched' = [id \in Names |-> switched[id] /\ id # node]
  /\ index' = HandleVersionChanged(index, node)
  /\ UNCHANGED <<registrarVars, recordData, spoken>>

(***************************************************************************)
(* The reverse registrar's calls.                                          *)
(***************************************************************************)
ClaimReverse(caller, reverseOwner) ==
  /\ Claim(caller, reverseOwner)
  /\ index' = HandleNewOwner(index, ReverseNode[caller], reverseOwner)
  /\ UNCHANGED switched

SetReverseName(caller, name) ==
  /\ SetPrimaryName(caller, name)
  /\ LET node  == ReverseNode[caller]
         taken == HandleNewOwner(index, node, ReverseAddress)
     IN index' = HandleRegistryTransfer(HandleNewResolver(taken, node, PublicResolver),
                                        node, caller)
  /\ UNCHANGED switched

TimePasses == Tick /\ UNCHANGED <<recordData, spoken, index, switched>>

(***************************************************************************)
(* Next.                                                                   *)
(***************************************************************************)
LeaseCall(caller, id) ==
  \/ \E d \in Durations :
        \/ \E target \in Users \cup {Zero} :
              now + d <= MaxExpiry /\ RegisterName(id, caller, d, target)
        \/ nameExpires[id] + d <= MaxExpiry /\ RenewName(id, d)
  \/ \E to \in Users : TransferName(caller, to, id) \/ ReclaimName(caller, id, to)

NodeOwnerCall(caller, node) ==
  \/ \E a \in Users : NodeSetOwner(caller, node, a)
  \/ \E r \in Resolvers \cup {Zero} : NodeSetResolver(caller, node, r)
  \/ NodeSetTTL(caller, node)
  \/ (node \in Names \/ recordVersions[node] < MaxReverseVersion) /\ ClearNode(caller, node)

RecordCall(caller) ==
  \/ \E id \in Names, target \in Users \cup {Zero} : SetAddress(caller, id, target)
  \/ \E node \in ReverseNodes, name \in Names \cup {Zero} : StoreName(caller, node, name)

ReverseCall(caller) ==
  \/ \E a \in Users : ClaimReverse(caller, a)
  \/ \E name \in Names : SetReverseName(caller, name)

Next ==
  \/ \E caller \in Users :
        \/ \E id \in Names : LeaseCall(caller, id)
        \/ \E node \in Nodes : NodeOwnerCall(caller, node)
        \/ RecordCall(caller)
        \/ ReverseCall(caller)
  \/ TimePasses

Spec == Init /\ [][Next]_resolutionVars

(***************************************************************************)
(* Properties.                                                             *)
(***************************************************************************)

\* The index agrees with the contracts it is drawn from: owner and TTL of the node,
\* holder and expiry of the lease, in the domain and in the registration, and the
\* address of the public resolver.  A registration emits up to eleven logs, with the burnt
\* token, the registrar as passing owner and the cleared records in between: applied
\* in their order they must leave the new lease and nothing of the old one.
IndexFollowsChain ==
  /\ \A n \in Nodes : /\ index.domains[n].owner = nodeOwner[n]
                      /\ index.domains[n].ttl = nodeTTL[n]
  /\ \A id \in Names :
        /\ index.domains[id].registrant = tokenOwner[id]
        /\ index.domains[id].expiryDate = nameExpires[id]
        /\ index.registrations[id] = [registrant |-> tokenOwner[id], expiryDate |-> nameExpires[id]]
        /\ index.resolvers[id] = PublicData(id)

\* The index never shows a stale address of a name that uses the public resolver: it
\* shows the address the resolver serves, or none after the resolver was switched.
\* It names another resolver than the registry only after an address was written in
\* the public resolver while the name used a different one, and that address it shows.
IndexedAddressIsServed ==
  \A id \in Names :
     LET shown == index.domains[id]
     IN /\ nodeResolver[id] = PublicResolver =>
             /\ shown.resolver = PublicResolver
             /\ shown.resolvedAddress \in ResolveAddress(id) \cup {Zero}
             /\ ~switched[id] => shown.resolvedAddress \in ResolveAddress(id)
        /\ shown.resolver # nodeResolver[id] =>
             /\ shown.resolver = PublicResolver
             /\ shown.resolvedAddress \in {PublicData(id), Zero}
        /\ shown.resolver # PublicResolver => shown.resolvedAddress = Zero

=============================================================================
