-------------------------- MODULE ArcBaseRegistrar --------------------------
(***************************************************************************)
(* contracts/src/ArcBaseRegistrar.sol with the registry and the resolver   *)
(* it drives.  A name is its label hash: the ERC-721 token id, and the     *)
(* node under the base node.  Every external function is one action, since *)
(* a transaction is atomic; what a call to the registry or the resolver    *)
(* inside it changes is part of the action.  The data of a record or a TTL *)
(* is abstracted to the number of the lease it was written in.             *)
(***************************************************************************)
EXTENDS ArcPublicResolver, Integers, FiniteSets

CONSTANTS
  Names,               \* token ids
  Controller,          \* the registrar controller
  Durations,           \* seconds a controller registers or renews a name for
  GRACE,               \* gracePeriod
  RegisterResolvers,   \* resolver arguments the controllers pass to register
  OperatorPairs,       \* bound: <<account, operator>> pairs that may be approved
  MaxTime,             \* bound on block.timestamp
  MaxExpiry            \* bound on nameExpires

ASSUME RegistrarAssumption ==
  /\ Names \subseteq Nodes /\ IsFiniteSet(Names)
  /\ Controller \in Addresses
  /\ Durations \subseteq Nat \ {0}
  /\ GRACE \in Nat
  /\ RegisterResolvers \subseteq Resolvers \cup {Zero}
  /\ OperatorPairs \subseteq Addresses \X Addresses
  /\ MaxTime \in Nat /\ MaxExpiry \in Nat

VARIABLES
  now,                 \* block.timestamp
  nameExpires,         \* nameExpires[id], 0 when never registered
  tokenOwner,          \* _owners[id]
  balances,            \* _balances[account]
  tokenApprovals,      \* _tokenApprovals[id]
  operatorApprovals,   \* _operatorApprovals, as pairs <<owner, operator>>
  controllers,         \* the enabled controllers
  \* History: what the properties compare with; no action reads them.
  leaseNo,             \* how often the name was registered
  approvedIn,          \* <<owner, lease>> at the last approve of the token
  delegated            \* the node was handed on without the token

tokenVars == <<nameExpires, tokenOwner, balances, tokenApprovals, operatorApprovals>>
historyVars == <<leaseNo, approvedIn, delegated>>
registrarVars == <<now, tokenVars, controllers, historyVars>>
nameVars == <<registrarVars, registryVars, resolverVars>>

RegistrarInit ==
  /\ RegistryInit
  /\ ResolverInit
  /\ now = 0
  /\ nameExpires = [id \in Names |-> 0]
  /\ tokenOwner = [id \in Names |-> Zero]
  /\ balances = [a \in Addresses |-> 0]
  /\ tokenApprovals = [id \in Names |-> Zero]
  /\ operatorApprovals = {}
  /\ controllers = {Controller}
  /\ leaseNo = [n \in Nodes |-> 0]
  /\ approvedIn = [id \in Names |-> <<Zero, 0>>]
  /\ delegated = [id \in Names |-> FALSE]

(***************************************************************************)
(* The lifecycle of a name.  A name that lapsed keeps its token until it   *)
(* is registered again.                                                    *)
(***************************************************************************)
Exists(id) == tokenOwner[id] # Zero
Available(id) == nameExpires[id] = 0 \/ now > nameExpires[id] + GRACE
IsActive(id) == nameExpires[id] # 0 /\ now <= nameExpires[id]
InGracePeriod(id) ==
  nameExpires[id] # 0 /\ now > nameExpires[id] /\ now <= nameExpires[id] + GRACE

OwnerOrOperator(caller, id) ==
  caller = tokenOwner[id] \/ <<tokenOwner[id], caller>> \in operatorApprovals

ApprovedOrOwner(caller, id) ==
  OwnerOrOperator(caller, id) \/ tokenApprovals[id] = caller

\* Mutant: the recipient is never credited.
MoveBalance_NoCredit(from, to) ==
  [a \in Addresses |-> balances[a] - (IF a = from THEN 1 ELSE 0)]

\* _balances after a token leaves from (Zero: a mint) and reaches to.
MoveBalance(from, to) ==
  [a \in Addresses |->
     balances[a] - (IF a = from THEN 1 ELSE 0) + (IF a = to THEN 1 ELSE 0)]

\* Mutant: the records of the earlier lease stay reachable (no clearRecords).
ResetNode_KeepVersion(id, owner, resolver, withData) ==
  /\ records' = IF withData /\ resolver = PublicResolver
                THEN [records EXCEPT ![id][recordVersions[id]] = leaseNo[id] + 1]
                ELSE records
  /\ nodeResolver' = [nodeResolver EXCEPT ![id] = resolver]
  /\ nodeTTL' = [nodeTTL EXCEPT ![id] = 0]
  /\ nodeOwner' = [nodeOwner EXCEPT ![id] = owner]
  /\ UNCHANGED <<nodeOperators, recordVersions>>

\* Mutant: _mint over the lapsed token, without the _burn before it.
ReplaceToken_NoBurn(id, owner, expires) ==
  /\ balances' = MoveBalance(Zero, owner)
  /\ tokenOwner' = [tokenOwner EXCEPT ![id] = owner]
  /\ nameExpires' = [nameExpires EXCEPT ![id] = expires]
  /\ UNCHANGED <<tokenApprovals, operatorApprovals>>

(***************************************************************************)
(* register: _burn of a lapsed token, _mint, then the registry and the     *)
(* resolver while the registrar owns the node.  withData says that         *)
(* resolverData writes a record of the new lease.                          *)
(***************************************************************************)
ResetNode(id, owner, resolver, withData) ==
  LET next == recordVersions[id] + 1
  IN /\ IF resolver = PublicResolver
        THEN /\ recordVersions[id] < MaxVersion
             /\ recordVersions' = [recordVersions EXCEPT ![id] = next]
             /\ records' = IF withData
                           THEN [records EXCEPT ![id][next] = leaseNo[id] + 1]
                           ELSE records
        ELSE UNCHANGED resolverVars
     /\ nodeResolver' = [nodeResolver EXCEPT ![id] = resolver]
     /\ nodeTTL' = [nodeTTL EXCEPT ![id] = 0]
     /\ nodeOwner' = [nodeOwner EXCEPT ![id] = owner]
     /\ UNCHANGED nodeOperators

ReplaceToken(id, owner, expires) ==
  /\ balances' = MoveBalance(tokenOwner[id], owner)
  /\ tokenOwner' = [tokenOwner EXCEPT ![id] = owner]
  /\ tokenApprovals' = [tokenApprovals EXCEPT ![id] = Zero]
  /\ nameExpires' = [nameExpires EXCEPT ![id] = expires]
  /\ UNCHANGED operatorApprovals

Register(caller, id, owner, duration, resolver, withData) ==
  /\ caller \in controllers
  /\ Available(id)
  /\ ReplaceToken(id, owner, now + duration)
  /\ ResetNode(id, owner, resolver, withData)
  /\ leaseNo' = [leaseNo EXCEPT ![id] = @ + 1]
  /\ delegated' = [delegated EXCEPT ![id] = FALSE]
  /\ UNCHANGED <<now, controllers, approvedIn>>

\* Mutant: the grace period counts from the renewal, so a lapsed name can be renewed.
Renew_NoDeadline(caller, id, duration) ==
  /\ caller \in controllers
  /\ nameExpires[id] # 0
  /\ nameExpires' = [nameExpires EXCEPT ![id] = @ + duration]
  /\ UNCHANGED <<now, tokenOwner, balances, tokenApprovals, operatorApprovals, controllers,
                 historyVars, registryVars, resolverVars>>

\* Expired names can be renewed until the grace period ends.
Renew(caller, id, duration) ==
  /\ caller \in controllers
  /\ nameExpires[id] # 0 /\ now <= nameExpires[id] + GRACE
  /\ nameExpires' = [nameExpires EXCEPT ![id] = @ + duration]
  /\ UNCHANGED <<now, tokenOwner, balances, tokenApprovals, operatorApprovals, controllers,
                 historyVars, registryVars, resolverVars>>

\* Mutant: the registry node stays with the seller.
TransferFrom_NodeStays(caller, to, id) ==
  /\ Exists(id) /\ IsActive(id) /\ ApprovedOrOwner(caller, id)
  /\ tokenApprovals' = [tokenApprovals EXCEPT ![id] = Zero]
  /\ balances' = MoveBalance(tokenOwner[id], to)
  /\ tokenOwner' = [tokenOwner EXCEPT ![id] = to]
  /\ delegated' = [delegated EXCEPT ![id] = FALSE]
  /\ UNCHANGED <<now, nameExpires, operatorApprovals, controllers, leaseNo, approvedIn,
                 registryVars, resolverVars>>

\* transferFrom and safeTransferFrom: _transfer, with the registry node.
TransferFrom(caller, to, id) ==
  /\ Exists(id)
  /\ IsActive(id)
  /\ ApprovedOrOwner(caller, id)
  /\ tokenApprovals' = [tokenApprovals EXCEPT ![id] = Zero]
  /\ balances' = MoveBalance(tokenOwner[id], to)
  /\ tokenOwner' = [tokenOwner EXCEPT ![id] = to]
  /\ nodeOwner' = [nodeOwner EXCEPT ![id] = to]
  /\ delegated' = [delegated EXCEPT ![id] = FALSE]
  /\ UNCHANGED <<now, nameExpires, operatorApprovals, controllers, leaseNo, approvedIn,
                 nodeResolver, nodeTTL, nodeOperators, resolverVars>>

\* approve looks at the token's owner only: it is open in and after the grace period.
Approve(caller, approved, id) ==
  /\ Exists(id)
  /\ OwnerOrOperator(caller, id)
  /\ tokenApprovals' = [tokenApprovals EXCEPT ![id] = approved]
  /\ approvedIn' = [approvedIn EXCEPT ![id] = <<tokenOwner[id], leaseNo[id]>>]
  /\ UNCHANGED <<now, nameExpires, tokenOwner, balances, operatorApprovals, controllers,
                 leaseNo, delegated, registryVars, resolverVars>>

SetApprovalForAll(caller, operator, approved) ==
  /\ operator # caller
  /\ operatorApprovals' = IF approved THEN operatorApprovals \cup {<<caller, operator>>}
                                      ELSE operatorApprovals \ {<<caller, operator>>}
  /\ UNCHANGED <<now, nameExpires, tokenOwner, balances, tokenApprovals, controllers,
                 historyVars, registryVars, resolverVars>>

\* reclaim: the token's owner sets the node's owner again, while the name is active.
Reclaim(caller, id, registryOwner) ==
  /\ Exists(id)
  /\ OwnerOrOperator(caller, id)
  /\ IsActive(id)
  /\ nodeOwner' = [nodeOwner EXCEPT ![id] = registryOwner]
  /\ delegated' = [delegated EXCEPT ![id] = registryOwner # tokenOwner[id]]
  /\ UNCHANGED <<now, tokenVars, controllers, leaseNo, approvedIn,
                 nodeResolver, nodeTTL, nodeOperators, resolverVars>>

\* setController, called by the registrar's owner.
SetController(controller, enabled) ==
  /\ controllers' = IF enabled THEN controllers \cup {controller}
                               ELSE controllers \ {controller}
  /\ UNCHANGED <<now, tokenVars, historyVars, registryVars, resolverVars>>

(***************************************************************************)
(* Calls the accounts make to the registry and to the resolver directly.   *)
(***************************************************************************)
SetNodeOwner(caller, id, newOwner) ==
  /\ SetOwner(caller, id, newOwner)
  /\ delegated' = [delegated EXCEPT ![id] = newOwner # tokenOwner[id]]
  /\ UNCHANGED <<now, tokenVars, controllers, leaseNo, approvedIn, resolverVars>>

NodeCall(caller, id) ==
  \/ \E r \in Resolvers \cup {Zero} :
       SetResolver(caller, id, r) /\ UNCHANGED <<registrarVars, resolverVars>>
  \/ SetTTL(caller, id, leaseNo[id]) /\ UNCHANGED <<registrarVars, resolverVars>>
  \/ SetRecord(caller, id, leaseNo[id]) /\ UNCHANGED registrarVars
  \/ ClearRecords(caller, id) /\ UNCHANGED registrarVars

RegistryOperatorCall(caller, operator, approved) ==
  /\ SetRegistryOperator(caller, operator, approved)
  /\ UNCHANGED <<registrarVars, resolverVars>>

Tick ==
  /\ now < MaxTime
  /\ now' = now + 1
  /\ UNCHANGED <<tokenVars, controllers, historyVars, registryVars, resolverVars>>

(***************************************************************************)
(* Next.                                                                   *)
(***************************************************************************)
ControllerCall(caller, id) ==
  \E d \in Durations :
     \/ \E owner \in Addresses, r \in RegisterResolvers, withData \in BOOLEAN :
          now + d <= MaxExpiry /\ Register(caller, id, owner, d, r, withData)
     \/ nameExpires[id] + d <= MaxExpiry /\ Renew(caller, id, d)

TokenCall(caller, id) ==
  \/ \E to \in Addresses : TransferFrom(caller, to, id)
  \/ \E approved \in Addresses \cup {Zero} : Approve(caller, approved, id)
  \/ \E a \in Addresses \cup {Zero} : Reclaim(caller, id, a) \/ SetNodeOwner(caller, id, a)

OperatorCall(pair, approved) ==
  \/ SetApprovalForAll(pair[1], pair[2], approved)
  \/ RegistryOperatorCall(pair[1], pair[2], approved)

RegistrarNext ==
  \/ \E caller \in Addresses, id \in Names :
        ControllerCall(caller, id) \/ TokenCall(caller, id) \/ NodeCall(caller, id)
  \/ \E pair \in OperatorPairs, approved \in BOOLEAN : OperatorCall(pair, approved)
  \/ \E enabled \in BOOLEAN : SetController(Controller, enabled)
  \/ Tick

RegistrarSpec == RegistrarInit /\ [][RegistrarNext]_nameVars

(***************************************************************************)
(* Properties.                                                             *)
(***************************************************************************)

\* Every variable has its type; the balances, which the code changes in an
\* unchecked block, never pass below zero.
RegistrarTypeOK ==
  /\ now \in Nat
  /\ nameExpires \in [Names -> Nat]
  /\ tokenOwner \in [Names -> Addresses \cup {Zero}]
  /\ balances \in [Addresses -> Nat]
  /\ tokenApprovals \in [Names -> Addresses \cup {Zero}]
  /\ operatorApprovals \subseteq Addresses \X Addresses
  /\ controllers \subseteq Addresses
  /\ leaseNo \in [Nodes -> Nat]
  /\ approvedIn \in [Names -> (Addresses \cup {Zero}) \X Nat]
  /\ delegated \in [Names -> BOOLEAN]
  /\ nodeOwner \in [Nodes -> Addresses \cup {Zero}]
  /\ nodeResolver \in [Nodes -> Resolvers \cup {Zero}]
  /\ nodeTTL \in [Nodes -> Nat]
  /\ nodeOperators \subseteq Addresses \X Addresses
  /\ recordVersions \in [Nodes -> Versions]
  /\ records \in [Nodes -> [Versions -> Nat]]

\* balanceOf agrees with ownerOf, although _mint, _burn and _transfer keep the
\* two in step by hand and a lapsed token is burnt only by the next register.
BalancesMatchTokens ==
  \A a \in Addresses : balances[a] = Cardinality({id \in Names : tokenOwner[id] = a})

\* An approval that can still move a token was given by, or for, the account that
\* owns it now, in the lease that runs now: none survives a transfer or a new lease.
ApprovalIsCurrent ==
  \A id \in Names :
     tokenApprovals[id] # Zero => approvedIn[id] = <<tokenOwner[id], leaseNo[id]>>

\* No record and no TTL written in an earlier lease can be read in this one,
\* although whoever controlled the node in that lease may have written them
\* at any time before the new registration.
RecordsOfThisLease ==
  \A id \in Names : /\ VisibleRecord(id) \in {0, leaseNo[id]}
                    /\ nodeTTL[id] \in {0, leaseNo[id]}

\* The registry node is owned by the owner of the token, unless an account that was
\* entitled to it has handed the node on since the token last changed hands.
RegistryFollowsToken ==
  \A id \in Names : ~delegated[id] => nodeOwner[id] = tokenOwner[id]

\* The registrar, with its lazily burnt tokens and its two clocks, keeps the promise
\* of NameLease: the holder of a name is the token's owner until the grace period ends.
Lease == INSTANCE NameLease WITH
  holder <- [id \in Names |-> IF Available(id) THEN Zero ELSE tokenOwner[id]],
  paidUntil <- nameExpires

KeepsLeasePromise == Lease!LeaseSpec

=============================================================================
