------------------------ MODULE ArcReverseRegistrar ------------------------
(***************************************************************************)
(* contracts/src/ArcReverseRegistrar.sol and the read facade               *)
(* ArcUniversalResolver.sol, over the registry, the resolver and the base  *)
(* registrar.  The reverse registrar owns the parent of all reverse nodes  *)
(* and keeps no state of its own: a primary name is a record at the        *)
(* reverse node of an account, believed only while the name it holds leads *)
(* back to the account.                                                    *)
(*                                                                         *)
(* The data of a record is what resolution reads: the address of a name,   *)
(* the name of a reverse node.  ArcPublicResolver's record keeps the lease *)
(* it was written in.  A resolver that is not the public one is a contract *)
(* of somebody else, which may answer anything at any time.                *)
(***************************************************************************)
EXTENDS ArcBaseRegistrar

CONSTANTS
  Claimants,     \* accounts that may have a reverse node
  ReverseNode    \* reverseNodeOf, as a function on Claimants

ASSUME ReverseAssumption ==
  /\ Claimants \subseteq Addresses
  /\ ReverseNode \in [Claimants -> Nodes \ Names]
  /\ \A a, b \in Claimants : ReverseNode[a] = ReverseNode[b] => a = b

VARIABLES
  recordData,    \* addr of a name, name of a reverse node, per record version
  spoken         \* history: the accounts that called claim or setName

ReverseNodes == {ReverseNode[a] : a \in Claimants}

ResolutionInit ==
  /\ RegistrarInit
  /\ recordData = [n \in Nodes |-> [v \in Versions |-> Zero]]
  /\ spoken = {}

\* addr(node) and name(node) of the public resolver.
PublicData(node) == recordData[node][recordVersions[node]]

\* What addr(node) or name(node) of a resolver may return.
Answers(resolver, node) ==
  IF resolver = PublicResolver THEN {PublicData(node)}
  ELSE IF resolver = Zero THEN {}
  ELSE IF node \in Names THEN Addresses \cup {Zero} ELSE Names \cup {Zero}

\* resolveAddress: no look at the lease, and no answer without a resolver.
ResolveAddress(name) == Answers(nodeResolver[name], name)

\* _isForwardConfirmed: an active name whose resolver answers with the account.
ForwardConfirmed(account, name) ==
  /\ IsActive(name)
  /\ account \in Answers(nodeResolver[name], name)

\* name(account), and resolveReverse, which hands it on: the names it may return.
PrimaryNames(account) ==
  LET node == ReverseNode[account]
  IN {n \in Names : n \in Answers(nodeResolver[node], node) /\ ForwardConfirmed(account, n)}

\* claim gives the caller's reverse node away, with the resolver and records it has.
Claim(caller, reverseOwner) ==
  /\ caller \in Claimants
  /\ reverseOwner # Zero
  /\ nodeOwner' = [nodeOwner EXCEPT ![ReverseNode[caller]] = reverseOwner]
  /\ spoken' = spoken \cup {caller}
  /\ UNCHANGED <<registrarVars, nodeResolver, nodeTTL, nodeOperators, resolverVars, recordData>>

\* Mutant: the resolver a former owner of the reverse node chose stays.
SetPrimaryName_KeepResolver(caller, name) ==
  /\ caller \in Claimants
  /\ ForwardConfirmed(caller, name)
  /\ LET node == ReverseNode[caller]
     IN /\ nodeOwner' = [nodeOwner EXCEPT ![node] = caller]
        /\ recordData' = [recordData EXCEPT ![node][recordVersions[node]] = name]
  /\ spoken' = spoken \cup {caller}
  /\ UNCHANGED <<registrarVars, nodeResolver, nodeTTL, nodeOperators, resolverVars>>

\* setName: takes the reverse node back from whoever has it, sets the default
\* resolver, stores the name and hands the node to the caller.
SetPrimaryName(caller, name) ==
  /\ caller \in Claimants
  /\ ForwardConfirmed(caller, name)
  /\ LET node == ReverseNode[caller]
     IN /\ nodeOwner' = [nodeOwner EXCEPT ![node] = caller]
        /\ nodeResolver' = [nodeResolver EXCEPT ![node] = PublicResolver]
        /\ recordData' = [recordData EXCEPT ![node][recordVersions[node]] = name]
  /\ spoken' = spoken \cup {caller}
  /\ UNCHANGED <<registrarVars, nodeTTL, nodeOperators, resolverVars>>

(***************************************************************************)
(* Properties.                                                             *)
(***************************************************************************)

\* A primary name is never somebody else's word: the account has called the reverse
\* registrar, and where the public resolver answers for the name, the address was
\* written in the lease that runs now.  A name that lapsed and was registered again
\* does not lead to an account of its earlier holder, who may have set it long ago.
PrimaryNameIsBacked ==
  \A a \in Claimants : \A n \in PrimaryNames(a) :
     /\ a \in spoken
     /\ nodeResolver[n] = PublicResolver => VisibleRecord(n) = leaseNo[n]

\* After setName the account has this primary name and no other, whatever owner,
\* resolver and records its reverse node was left with before.
SetNameTakesEffect ==
  [][\A a \in Claimants, n \in Names :
        SetPrimaryName(a, n) => PrimaryNames(a)' = {n}]_<<nameVars, recordData, spoken>>

=============================================================================
