----------------------- MODULE ArcBaseRegistrar_proofs -----------------------
(***************************************************************************)
(* Proofs about ArcBaseRegistrar, for any number of names, accounts and    *)
(* operators, any durations and grace period.                              *)
(***************************************************************************)
EXTENDS ArcBaseRegistrar, FiniteSetTheorems, TLAPS

\* The types of RegistrarTypeOK, with balances that might be negative.
RegistrarTypes ==
  /\ now \in Nat
  /\ nameExpires \in [Names -> Nat]
  /\ tokenOwner \in [Names -> Addresses \cup {Zero}]
  /\ balances \in [Addresses -> Int]
  /\ tokenApprovals \in [Names -> Addresses \cup {Zero}]
  /\ operatorApprovals \subseteq Addresses \X Addresses
  /\ controllers \subseteq Addresses
  /\ leaseNo \in [Nodes -> Nat]
  /\ approvedIn \in [Names -> (Addresses \cup {Zero}) \X Nat]
  /\ delegated \in [Names -> BOOLEAN]
  /\ nodeOwner \in [Nodes -> Addresses \cup {Zero}]
  /\ nodeResolver \in [Nodes -> Resolvers \cup {Zero}]
  /\ nodeTTL \in [Nodes -> Nat]
  /\ nodeOperators \subseteq Addresses \X Addresses
  /\ recordVersions \in [Nodes -> Versions]
  /\ records \in [Nodes -> [Versions -> Nat]]

LEMMA InitTypes == RegistrarInit => RegistrarTypes
  BY ZeroAssumption, ResolverAssumption, RegistrarAssumption
  DEF RegistrarInit, RegistryInit, ResolverInit, RegistrarTypes, Versions

\* Writing one entry of a table of tables.
LEMMA NestedUpdate ==
  ASSUME NEW A, NEW B, NEW C, NEW f \in [A -> [B -> C]],
         NEW a \in A, NEW b \in B, NEW c \in C
  PROVE  [f EXCEPT ![a][b] = c] \in [A -> [B -> C]]
<1>1. [f[a] EXCEPT ![b] = c] \in [B -> C]
  OBVIOUS
<1> QED
  BY <1>1

\* The reset of a node gives its variables values of their types.
LEMMA ResetNodeTypes ==
  ASSUME RegistrarTypes,
         NEW id \in Names, NEW owner \in Addresses, NEW r \in Resolvers \cup {Zero},
         NEW withData \in BOOLEAN, ResetNode(id, owner, r, withData)
  PROVE  /\ nodeOwner' \in [Nodes -> Addresses \cup {Zero}]
         /\ nodeResolver' \in [Nodes -> Resolvers \cup {Zero}]
         /\ nodeTTL' \in [Nodes -> Nat]
         /\ nodeOperators' \subseteq Addresses \X Addresses
         /\ recordVersions' \in [Nodes -> Versions]
         /\ records' \in [Nodes -> [Versions -> Nat]]
<1>1. id \in Nodes
  BY RegistrarAssumption
<1>2. /\ nodeOwner' \in [Nodes -> Addresses \cup {Zero}]
      /\ nodeResolver' \in [Nodes -> Resolvers \cup {Zero}]
      /\ nodeTTL' \in [Nodes -> Nat]
      /\ nodeOperators' \subseteq Addresses \X Addresses
  BY <1>1 DEF RegistrarTypes, ResetNode
<1>3. CASE r = PublicResolver
  <2>1. recordVersions[id] + 1 \in Versions
    <3>1. recordVersions[id] < MaxVersion
      BY <1>3 DEF ResetNode
    <3>2. recordVersions[id] \in 0..MaxVersion
      BY <1>1 DEF RegistrarTypes, Versions
    <3> QED
      BY <3>1, <3>2, ResolverAssumption DEF Versions
  <2>2. leaseNo[id] + 1 \in Nat /\ records \in [Nodes -> [Versions -> Nat]]
    BY <1>1 DEF RegistrarTypes
  <2>3. \/ records' = records
        \/ records' = [records EXCEPT ![id][recordVersions[id] + 1] = leaseNo[id] + 1]
    BY <1>3 DEF ResetNode
  <2>4. records' \in [Nodes -> [Versions -> Nat]]
    <3>1. [records EXCEPT ![id][recordVersions[id] + 1] = leaseNo[id] + 1]
             \in [Nodes -> [Versions -> Nat]]
      BY <1>1, <2>1, <2>2, NestedUpdate, Zenon
    <3> QED
      BY <2>2, <2>3, <3>1
  <2>5. recordVersions' \in [Nodes -> Versions]
    BY <1>1, <1>3, <2>1 DEF ResetNode, RegistrarTypes
  <2> QED
    BY <1>2, <2>4, <2>5
<1>4. CASE r # PublicResolver
  BY <1>2, <1>4 DEF ResetNode, resolverVars, RegistrarTypes
<1> QED
  BY <1>3, <1>4

\* A balance can only change by one.
LEMMA MoveBalanceType ==
  ASSUME balances \in [Addresses -> Int], NEW from, NEW to
  PROVE  MoveBalance(from, to) \in [Addresses -> Int]
  BY DEF MoveBalance

LEMMA RegisterTypes ==
  ASSUME RegistrarTypes,
         NEW caller \in Addresses, NEW id \in Names, NEW owner \in Addresses,
         NEW d \in Nat, NEW r \in Resolvers \cup {Zero}, NEW withData \in BOOLEAN,
         Register(caller, id, owner, d, r, withData)
  PROVE  RegistrarTypes'
<1>1. /\ now' \in Nat
      /\ controllers' \subseteq Addresses
      /\ leaseNo' \in [Nodes -> Nat]
      /\ approvedIn' \in [Names -> (Addresses \cup {Zero}) \X Nat]
      /\ delegated' \in [Names -> BOOLEAN]
  BY RegistrarAssumption DEF RegistrarTypes, Register
<1>2. ReplaceToken(id, owner, now + d) /\ ResetNode(id, owner, r, withData)
  BY DEF Register
<1>3. /\ nameExpires' \in [Names -> Nat]
      /\ tokenOwner' \in [Names -> Addresses \cup {Zero}]
      /\ tokenApprovals' \in [Names -> Addresses \cup {Zero}]
      /\ operatorApprovals' \subseteq Addresses \X Addresses
  BY <1>2 DEF RegistrarTypes, ReplaceToken
<1>4. balances' \in [Addresses -> Int]
  BY <1>2, MoveBalanceType DEF RegistrarTypes, ReplaceToken
<1>5. /\ nodeOwner' \in [Nodes -> Addresses \cup {Zero}]
      /\ nodeResolver' \in [Nodes -> Resolvers \cup {Zero}]
      /\ nodeTTL' \in [Nodes -> Nat]
      /\ nodeOperators' \subseteq Addresses \X Addresses
      /\ recordVersions' \in [Nodes -> Versions]
      /\ records' \in [Nodes -> [Versions -> Nat]]
  BY <1>2, ResetNodeTypes
<1> QED
  BY <1>1, <1>3, <1>4, <1>5 DEF RegistrarTypes

LEMMA RenewTypes ==
  ASSUME RegistrarTypes, NEW caller, NEW id \in Names, NEW d \in Nat, Renew(caller, id, d)
  PROVE  RegistrarTypes'
  BY DEF RegistrarTypes, Renew, historyVars, registryVars, resolverVars

LEMMA TransferTypes ==
  ASSUME RegistrarTypes, NEW caller, NEW id \in Names, NEW to \in Addresses,
         TransferFrom(caller, to, id)
  PROVE  RegistrarTypes'
<1>1. balances' \in [Addresses -> Int]
  BY MoveBalanceType DEF RegistrarTypes, TransferFrom
<1>2. /\ tokenOwner' \in [Names -> Addresses \cup {Zero}]
      /\ tokenApprovals' \in [Names -> Addresses \cup {Zero}]
      /\ nodeOwner' \in [Nodes -> Addresses \cup {Zero}]
      /\ delegated' \in [Names -> BOOLEAN]
  BY RegistrarAssumption DEF RegistrarTypes, TransferFrom
<1> QED
  BY <1>1, <1>2 DEF RegistrarTypes, TransferFrom, resolverVars

LEMMA ApproveTypes ==
  ASSUME RegistrarTypes, NEW caller, NEW id \in Names, NEW approved \in Addresses \cup {Zero},
         Approve(caller, approved, id)
  PROVE  RegistrarTypes'
<1>1. tokenApprovals' \in [Names -> Addresses \cup {Zero}]
  BY DEF RegistrarTypes, Approve
<1>2. approvedIn' \in [Names -> (Addresses \cup {Zero}) \X Nat]
  <2>1. <<tokenOwner[id], leaseNo[id]>> \in (Addresses \cup {Zero}) \X Nat
    BY RegistrarAssumption DEF RegistrarTypes
  <2> QED
    BY <2>1 DEF RegistrarTypes, Approve
<1> QED
  BY <1>1, <1>2 DEF RegistrarTypes, Approve, registryVars, resolverVars

LEMMA ReclaimTypes ==
  ASSUME RegistrarTypes, NEW caller, NEW id \in Names, NEW a \in Addresses \cup {Zero},
         Reclaim(caller, id, a) \/ SetNodeOwner(caller, id, a)
  PROVE  RegistrarTypes'
<1>1. /\ nodeOwner' = [nodeOwner EXCEPT ![id] = a]
      /\ delegated' = [delegated EXCEPT ![id] = a # tokenOwner[id]]
      /\ UNCHANGED <<now, tokenVars, controllers, leaseNo, approvedIn,
                     nodeResolver, nodeTTL, nodeOperators, resolverVars>>
  BY DEF Reclaim, SetNodeOwner, SetOwner
<1>2. /\ nodeOwner' \in [Nodes -> Addresses \cup {Zero}]
      /\ delegated' \in [Names -> BOOLEAN]
  BY <1>1, RegistrarAssumption DEF RegistrarTypes
<1> QED
  BY <1>1, <1>2 DEF RegistrarTypes, tokenVars, resolverVars

LEMMA NodeCallTypes ==
  ASSUME RegistrarTypes, NEW caller, NEW id \in Nodes, NodeCall(caller, id)
  PROVE  RegistrarTypes'
<1>1. id \in Nodes
  OBVIOUS
<1>2. ASSUME NEW r \in Resolvers \cup {Zero},
             SetResolver(caller, id, r), UNCHANGED <<registrarVars, resolverVars>>
      PROVE  RegistrarTypes'
  BY <1>1, <1>2 DEF RegistrarTypes, SetResolver, registrarVars, tokenVars, historyVars,
                    resolverVars
<1>3. ASSUME SetTTL(caller, id, leaseNo[id]), UNCHANGED <<registrarVars, resolverVars>>
      PROVE  RegistrarTypes'
  BY <1>1, <1>3 DEF RegistrarTypes, SetTTL, registrarVars, tokenVars, historyVars, resolverVars
<1>4. ASSUME SetRecord(caller, id, leaseNo[id]), UNCHANGED registrarVars
      PROVE  RegistrarTypes'
  <2>1. /\ records \in [Nodes -> [Versions -> Nat]]
        /\ recordVersions[id] \in Versions /\ leaseNo[id] \in Nat
    BY <1>1 DEF RegistrarTypes
  <2>2. [records EXCEPT ![id][recordVersions[id]] = leaseNo[id]]
           \in [Nodes -> [Versions -> Nat]]
    BY <1>1, <2>1, NestedUpdate, Zenon
  <2>3. records' \in [Nodes -> [Versions -> Nat]]
    BY <1>4, <2>2 DEF SetRecord
  <2> QED
    BY <1>4, <2>3 DEF RegistrarTypes, SetRecord, registrarVars, tokenVars, historyVars,
                      registryVars
<1>5. ASSUME ClearRecords(caller, id), UNCHANGED registrarVars
      PROVE  RegistrarTypes'
  <2>1. recordVersions' \in [Nodes -> Versions]
    BY <1>1, <1>5, ResolverAssumption DEF RegistrarTypes, ClearRecords, Versions
  <2> QED
    BY <1>5, <2>1 DEF RegistrarTypes, ClearRecords, registrarVars, tokenVars, historyVars,
                      registryVars
<1> QED
  BY <1>2, <1>3, <1>4, <1>5 DEF NodeCall

\* What is left: operators, controllers, and time.
LEMMA OperatorTypes ==
  ASSUME RegistrarTypes, NEW pair \in OperatorPairs, NEW approved \in BOOLEAN,
         OperatorCall(pair, approved)
  PROVE  RegistrarTypes'
<1>1. <<pair[1], pair[2]>> \in Addresses \X Addresses
  BY RegistrarAssumption
<1>2. CASE SetApprovalForAll(pair[1], pair[2], approved)
  <2>1. operatorApprovals' \subseteq Addresses \X Addresses
    BY <1>1, <1>2 DEF RegistrarTypes, SetApprovalForAll
  <2> QED
    BY <1>2, <2>1 DEF RegistrarTypes, SetApprovalForAll, historyVars, registryVars, resolverVars
<1>3. CASE RegistryOperatorCall(pair[1], pair[2], approved)
  <2>1. nodeOperators' \subseteq Addresses \X Addresses
    BY <1>1, <1>3 DEF RegistrarTypes, RegistryOperatorCall, SetRegistryOperator
  <2> QED
    BY <1>3, <2>1 DEF RegistrarTypes, RegistryOperatorCall, SetRegistryOperator, registrarVars,
                      tokenVars, historyVars, resolverVars
<1> QED
  BY <1>2, <1>3 DEF OperatorCall

LEMMA SetControllerTypes ==
  ASSUME RegistrarTypes, NEW controller \in Addresses, NEW enabled \in BOOLEAN,
         SetController(controller, enabled)
  PROVE  RegistrarTypes'
  BY DEF RegistrarTypes, SetController, tokenVars, historyVars, registryVars, resolverVars

LEMMA TickTypes == RegistrarTypes /\ Tick => RegistrarTypes'
  BY DEF RegistrarTypes, Tick, tokenVars, historyVars, registryVars, resolverVars

\* Every step keeps the types.
LEMMA NextTypes == RegistrarTypes /\ [RegistrarNext]_nameVars => RegistrarTypes'
<1> SUFFICES ASSUME RegistrarTypes, [RegistrarNext]_nameVars
             PROVE  RegistrarTypes'
  OBVIOUS
<1>1. ASSUME NEW caller \in Addresses, NEW id \in Names, ControllerCall(caller, id)
      PROVE  RegistrarTypes'
  BY <1>1, RegistrarAssumption, RegisterTypes, RenewTypes DEF ControllerCall
<1>2. ASSUME NEW caller \in Addresses, NEW id \in Names, TokenCall(caller, id)
      PROVE  RegistrarTypes'
  BY <1>2, TransferTypes, ApproveTypes, ReclaimTypes DEF TokenCall
<1>3. ASSUME NEW caller \in Addresses, NEW id \in Names, NodeCall(caller, id)
      PROVE  RegistrarTypes'
  BY <1>3, NodeCallTypes, RegistrarAssumption
<1>4. ASSUME NEW pair \in OperatorPairs, NEW approved \in BOOLEAN, OperatorCall(pair, approved)
      PROVE  RegistrarTypes'
  BY <1>4, OperatorTypes
<1>5. ASSUME NEW enabled \in BOOLEAN, SetController(Controller, enabled)
      PROVE  RegistrarTypes'
  BY <1>5, SetControllerTypes, RegistrarAssumption
<1>6. CASE UNCHANGED nameVars
  BY <1>6 DEF RegistrarTypes, nameVars, registrarVars, tokenVars, historyVars, registryVars,
              resolverVars
<1> QED
  BY <1>1, <1>2, <1>3, <1>4, <1>5, <1>6, TickTypes DEF RegistrarNext

(***************************************************************************)
(* Balances: a token that changes hands takes one from the number of       *)
(* tokens of the account it leaves and adds one to the other's.            *)
(***************************************************************************)
Held(owners, a) == {n \in Names : owners[n] = a}

LEMMA HeldFinite ==
  ASSUME NEW owners, NEW a
  PROVE  IsFiniteSet(Held(owners, a)) /\ Cardinality(Held(owners, a)) \in Nat
<1>1. Held(owners, a) \subseteq Names
  BY DEF Held
<1> QED
  BY <1>1, RegistrarAssumption, FS_Subset, FS_CardinalityType

LEMMA HeldMoves ==
  ASSUME RegistrarTypes, NEW id \in Names, NEW to \in Addresses, NEW a \in Addresses,
         tokenOwner' = [tokenOwner EXCEPT ![id] = to]
  PROVE  Cardinality(Held(tokenOwner', a))
           = Cardinality(Held(tokenOwner, a)) - (IF a = tokenOwner[id] THEN 1 ELSE 0)
                                              + (IF a = to THEN 1 ELSE 0)
<1>0. tokenOwner \in [Names -> Addresses \cup {Zero}]
  BY DEF RegistrarTypes
<1>1. /\ IsFiniteSet(Held(tokenOwner, a)) /\ Cardinality(Held(tokenOwner, a)) \in Nat
      /\ IsFiniteSet(Held(tokenOwner', a)) /\ Cardinality(Held(tokenOwner', a)) \in Nat
  BY HeldFinite
<1>2. CASE a = tokenOwner[id] /\ a = to
  <2>1. Held(tokenOwner', a) = Held(tokenOwner, a)
    BY <1>0, <1>2 DEF Held
  <2> QED
    BY <1>1, <1>2, <2>1
<1>3. CASE a # tokenOwner[id] /\ a # to
  <2>1. Held(tokenOwner', a) = Held(tokenOwner, a)
    BY <1>0, <1>3 DEF Held
  <2> QED
    BY <1>1, <1>3, <2>1
<1>4. CASE a = tokenOwner[id] /\ a # to
  <2>1. Held(tokenOwner', a) = Held(tokenOwner, a) \ {id} /\ id \in Held(tokenOwner, a)
    BY <1>0, <1>4 DEF Held
  <2>2. Cardinality(Held(tokenOwner', a)) = Cardinality(Held(tokenOwner, a)) - 1
    BY <1>1, <2>1, FS_RemoveElement
  <2> QED
    BY <1>1, <1>4, <2>2
<1>5. CASE a # tokenOwner[id] /\ a = to
  <2>1. Held(tokenOwner', a) = Held(tokenOwner, a) \cup {id} /\ id \notin Held(tokenOwner, a)
    BY <1>0, <1>5 DEF Held
  <2>2. Cardinality(Held(tokenOwner', a)) = Cardinality(Held(tokenOwner, a)) + 1
    BY <1>1, <2>1, FS_AddElement
  <2> QED
    BY <1>1, <1>5, <2>2
<1> QED
  BY <1>2, <1>3, <1>4, <1>5

\* The step of ReplaceToken and TransferFrom on balances and owners.
LEMMA BalancesFollow ==
  ASSUME RegistrarTypes, BalancesMatchTokens, NEW id \in Names, NEW to \in Addresses,
         tokenOwner' = [tokenOwner EXCEPT ![id] = to],
         balances' = MoveBalance(tokenOwner[id], to)
  PROVE  BalancesMatchTokens'
<1> SUFFICES ASSUME NEW a \in Addresses
             PROVE  balances'[a] = Cardinality(Held(tokenOwner', a))
  BY DEF BalancesMatchTokens, Held
<1>1. balances[a] = Cardinality(Held(tokenOwner, a))
  BY DEF BalancesMatchTokens, Held
<1>2. balances'[a] = balances[a] - (IF a = tokenOwner[id] THEN 1 ELSE 0)
                                 + (IF a = to THEN 1 ELSE 0)
  BY DEF MoveBalance
<1>3. Cardinality(Held(tokenOwner', a))
        = Cardinality(Held(tokenOwner, a)) - (IF a = tokenOwner[id] THEN 1 ELSE 0)
                                           + (IF a = to THEN 1 ELSE 0)
  BY HeldMoves
<1>4. balances[a] \in Int
  BY DEF RegistrarTypes
<1> QED
  BY <1>1, <1>2, <1>3, <1>4

(***************************************************************************)
(* The inductive invariant.                                                *)
(***************************************************************************)

\* A name has a token exactly if it was ever registered.
TokenIffRegistered == \A id \in Names : nameExpires[id] # 0 <=> tokenOwner[id] # Zero

RegistrarInv ==
  /\ RegistrarTypes
  /\ BalancesMatchTokens
  /\ ApprovalIsCurrent
  /\ RegistryFollowsToken
  /\ TokenIffRegistered

LEMMA InitInv == RegistrarInit => RegistrarInv
<1> SUFFICES ASSUME RegistrarInit PROVE RegistrarInv
  OBVIOUS
<1>1. BalancesMatchTokens
  <2> SUFFICES ASSUME NEW a \in Addresses
               PROVE  balances[a] = Cardinality({n \in Names : tokenOwner[n] = a})
    BY DEF BalancesMatchTokens
  <2>1. {n \in Names : tokenOwner[n] = a} = {}
    BY ZeroAssumption DEF RegistrarInit
  <2> QED
    BY <2>1, FS_EmptySet DEF RegistrarInit
<1>2. ApprovalIsCurrent /\ RegistryFollowsToken /\ TokenIffRegistered
  BY RegistrarAssumption
  DEF RegistrarInit, RegistryInit, ApprovalIsCurrent, RegistryFollowsToken, TokenIffRegistered
<1> QED
  BY <1>1, <1>2, InitTypes DEF RegistrarInv

LEMMA RegisterInv ==
  ASSUME RegistrarInv,
         NEW caller \in Addresses, NEW id \in Names, NEW owner \in Addresses,
         NEW d \in Nat \ {0}, NEW r \in Resolvers \cup {Zero}, NEW withData \in BOOLEAN,
         Register(caller, id, owner, d, r, withData)
  PROVE  RegistrarInv'
<1>1. RegistrarTypes /\ RegistrarTypes'
  BY RegisterTypes DEF RegistrarInv
<1>2. /\ tokenOwner' = [tokenOwner EXCEPT ![id] = owner]
      /\ tokenApprovals' = [tokenApprovals EXCEPT ![id] = Zero]
      /\ balances' = MoveBalance(tokenOwner[id], owner)
      /\ nameExpires' = [nameExpires EXCEPT ![id] = now + d]
      /\ nodeOwner' = [nodeOwner EXCEPT ![id] = owner]
      /\ delegated' = [delegated EXCEPT ![id] = FALSE]
      /\ leaseNo' = [leaseNo EXCEPT ![id] = @ + 1]
      /\ approvedIn' = approvedIn
  BY DEF Register, ReplaceToken, ResetNode
<1>3. BalancesMatchTokens'
  BY <1>1, <1>2, BalancesFollow DEF RegistrarInv
<1>4. ApprovalIsCurrent'
  BY <1>1, <1>2, RegistrarAssumption DEF RegistrarInv, ApprovalIsCurrent, RegistrarTypes
<1>5. RegistryFollowsToken'
  BY <1>1, <1>2, RegistrarAssumption DEF RegistrarInv, RegistryFollowsToken, RegistrarTypes
<1>6. TokenIffRegistered'
  BY <1>1, <1>2, ZeroAssumption DEF RegistrarInv, TokenIffRegistered, RegistrarTypes
<1> QED
  BY <1>1, <1>3, <1>4, <1>5, <1>6 DEF RegistrarInv

LEMMA RenewInv ==
  ASSUME RegistrarInv, NEW caller, NEW id \in Names, NEW d \in Nat, Renew(caller, id, d)
  PROVE  RegistrarInv'
<1>1. RegistrarTypes /\ RegistrarTypes'
  BY RenewTypes DEF RegistrarInv
<1>2. BalancesMatchTokens' /\ ApprovalIsCurrent' /\ RegistryFollowsToken'
  BY DEF RegistrarInv, Renew, historyVars, registryVars,
         BalancesMatchTokens, ApprovalIsCurrent, RegistryFollowsToken
<1>3. TokenIffRegistered'
  BY <1>1 DEF RegistrarInv, Renew, TokenIffRegistered, RegistrarTypes
<1> QED
  BY <1>1, <1>2, <1>3 DEF RegistrarInv

LEMMA TransferInv ==
  ASSUME RegistrarInv, NEW caller, NEW id \in Names, NEW to \in Addresses,
         TransferFrom(caller, to, id)
  PROVE  RegistrarInv'
<1>1. RegistrarTypes /\ RegistrarTypes'
  BY TransferTypes DEF RegistrarInv
<1>2. BalancesMatchTokens'
  BY <1>1, BalancesFollow DEF RegistrarInv, TransferFrom
<1>3. ApprovalIsCurrent'
  BY <1>1 DEF RegistrarInv, TransferFrom, ApprovalIsCurrent, RegistrarTypes
<1>4. RegistryFollowsToken'
  BY <1>1, RegistrarAssumption DEF RegistrarInv, TransferFrom, RegistryFollowsToken,
                                   RegistrarTypes
<1>5. TokenIffRegistered'
  BY <1>1, ZeroAssumption DEF RegistrarInv, TransferFrom, Exists, TokenIffRegistered,
                              RegistrarTypes
<1> QED
  BY <1>1, <1>2, <1>3, <1>4, <1>5 DEF RegistrarInv

LEMMA ApproveInv ==
  ASSUME RegistrarInv, NEW caller, NEW id \in Names, NEW approved \in Addresses \cup {Zero},
         Approve(caller, approved, id)
  PROVE  RegistrarInv'
<1>1. RegistrarTypes /\ RegistrarTypes'
  BY ApproveTypes DEF RegistrarInv
<1>2. ApprovalIsCurrent'
  BY <1>1 DEF RegistrarInv, Approve, ApprovalIsCurrent, RegistrarTypes
<1>3. BalancesMatchTokens' /\ RegistryFollowsToken' /\ TokenIffRegistered'
  BY DEF RegistrarInv, Approve, registryVars, BalancesMatchTokens, RegistryFollowsToken,
         TokenIffRegistered
<1> QED
  BY <1>1, <1>2, <1>3 DEF RegistrarInv

LEMMA ReclaimInv ==
  ASSUME RegistrarInv, NEW caller, NEW id \in Names, NEW a \in Addresses \cup {Zero},
         Reclaim(caller, id, a) \/ SetNodeOwner(caller, id, a)
  PROVE  RegistrarInv'
<1>1. RegistrarTypes /\ RegistrarTypes'
  BY ReclaimTypes DEF RegistrarInv
<1>2. /\ nodeOwner' = [nodeOwner EXCEPT ![id] = a]
      /\ delegated' = [delegated EXCEPT ![id] = a # tokenOwner[id]]
      /\ UNCHANGED <<tokenVars, leaseNo, approvedIn>>
  BY DEF Reclaim, SetNodeOwner, SetOwner
<1>3. RegistryFollowsToken'
  <2> SUFFICES ASSUME NEW n \in Names, ~delegated'[n]
               PROVE  nodeOwner'[n] = tokenOwner[n]
    BY <1>2 DEF RegistryFollowsToken, tokenVars
  <2>1. CASE n = id
    BY <1>1, <1>2, <2>1, RegistrarAssumption DEF RegistrarTypes
  <2>2. CASE n # id
    BY <1>1, <1>2, <2>2, RegistrarAssumption
    DEF RegistrarInv, RegistryFollowsToken, RegistrarTypes
  <2> QED
    BY <2>1, <2>2
<1>4. BalancesMatchTokens' /\ ApprovalIsCurrent' /\ TokenIffRegistered'
  BY <1>2 DEF RegistrarInv, tokenVars, BalancesMatchTokens, ApprovalIsCurrent,
              TokenIffRegistered
<1> QED
  BY <1>1, <1>3, <1>4 DEF RegistrarInv

\* Steps that leave the tokens, their history and the node owners alone.
LEMMA OtherInv ==
  ASSUME RegistrarInv, RegistrarTypes',
         UNCHANGED <<tokenVars, leaseNo, approvedIn, delegated, nodeOwner>>
  PROVE  RegistrarInv'
  BY DEF RegistrarInv, tokenVars, BalancesMatchTokens, ApprovalIsCurrent, RegistryFollowsToken,
         TokenIffRegistered

LEMMA NextInv == RegistrarInv /\ [RegistrarNext]_nameVars => RegistrarInv'
<1> SUFFICES ASSUME RegistrarInv, [RegistrarNext]_nameVars
             PROVE  RegistrarInv'
  OBVIOUS
<1>0. RegistrarTypes'
  BY NextTypes DEF RegistrarInv
<1>1. ASSUME NEW caller \in Addresses, NEW id \in Names, ControllerCall(caller, id)
      PROVE  RegistrarInv'
  BY <1>1, RegistrarAssumption, RegisterInv, RenewInv DEF ControllerCall
<1>2. ASSUME NEW caller \in Addresses, NEW id \in Names, TokenCall(caller, id)
      PROVE  RegistrarInv'
  BY <1>2, TransferInv, ApproveInv, ReclaimInv DEF TokenCall
<1>3. ASSUME NEW caller \in Addresses, NEW id \in Names, NodeCall(caller, id)
      PROVE  RegistrarInv'
  BY <1>0, <1>3, OtherInv
  DEF NodeCall, SetResolver, SetTTL, SetRecord, ClearRecords, registrarVars, historyVars,
      registryVars
<1>4. ASSUME NEW pair \in OperatorPairs, NEW approved \in BOOLEAN, OperatorCall(pair, approved)
      PROVE  RegistrarInv'
  <2>1. CASE SetApprovalForAll(pair[1], pair[2], approved)
    BY <1>0, <2>1 DEF SetApprovalForAll, historyVars, registryVars, RegistrarInv,
       BalancesMatchTokens, ApprovalIsCurrent, RegistryFollowsToken, TokenIffRegistered
  <2>2. CASE RegistryOperatorCall(pair[1], pair[2], approved)
    BY <1>0, <2>2, OtherInv DEF RegistryOperatorCall, SetRegistryOperator, registrarVars,
       historyVars
  <2> QED
    BY <1>4, <2>1, <2>2 DEF OperatorCall
<1>5. ASSUME NEW enabled \in BOOLEAN, SetController(Controller, enabled)
      PROVE  RegistrarInv'
  BY <1>0, <1>5, OtherInv DEF SetController, historyVars, registryVars
<1>6. CASE Tick
  BY <1>0, <1>6, OtherInv DEF Tick, historyVars, registryVars
<1>7. CASE UNCHANGED nameVars
  BY <1>0, <1>7, OtherInv DEF nameVars, registrarVars, historyVars, registryVars
<1> QED
  BY <1>1, <1>2, <1>3, <1>4, <1>5, <1>6, <1>7 DEF RegistrarNext

LEMMA Invariance == RegistrarSpec => []RegistrarInv
  BY InitInv, NextInv, PTL DEF RegistrarSpec

(***************************************************************************)
(* Theorems.                                                               *)
(***************************************************************************)

\* The variables keep their types, and in particular no balance ever passes below
\* zero, for every number of names and accounts.
THEOREM TypeCorrect == RegistrarSpec => []RegistrarTypeOK
<1>1. RegistrarInv => RegistrarTypeOK
  <2> SUFFICES ASSUME RegistrarInv PROVE RegistrarTypeOK
    OBVIOUS
  <2>1. \A a \in Addresses : balances[a] \in Nat
    <3> SUFFICES ASSUME NEW a \in Addresses PROVE balances[a] \in Nat
      OBVIOUS
    <3>1. balances[a] = Cardinality(Held(tokenOwner, a))
      BY DEF RegistrarInv, BalancesMatchTokens, Held
    <3> QED
      BY <3>1, HeldFinite
  <2>2. balances \in [Addresses -> Nat]
    BY <2>1 DEF RegistrarInv, RegistrarTypes
  <2> QED
    BY <2>2 DEF RegistrarInv, RegistrarTypes, RegistrarTypeOK
<1> QED
  BY <1>1, Invariance, PTL

\* balanceOf agrees with ownerOf for every account in every reachable state.
THEOREM BalancesCorrect == RegistrarSpec => []BalancesMatchTokens
<1>1. RegistrarInv => BalancesMatchTokens
  BY DEF RegistrarInv
<1> QED
  BY <1>1, Invariance, PTL

\* No approval survives a transfer or a new registration.
THEOREM ApprovalsCorrect == RegistrarSpec => []ApprovalIsCurrent
<1>1. RegistrarInv => ApprovalIsCurrent
  BY DEF RegistrarInv
<1> QED
  BY <1>1, Invariance, PTL

\* The registry node follows the token unless somebody entitled handed it on.
THEOREM RegistryCorrect == RegistrarSpec => []RegistryFollowsToken
<1>1. RegistrarInv => RegistryFollowsToken
  BY DEF RegistrarInv
<1> QED
  BY <1>1, Invariance, PTL

(***************************************************************************)
(* Records of earlier leases.                                              *)
(***************************************************************************)

\* What makes RecordsOfThisLease inductive: nothing was written yet under the
\* versions to come.
RecordsInv ==
  /\ RegistrarTypes
  /\ \A id \in Names :
       /\ records[id][recordVersions[id]] \in {0, leaseNo[id]}
       /\ nodeTTL[id] \in {0, leaseNo[id]}
       /\ \A v \in Versions : v > recordVersions[id] => records[id][v] = 0

LEMMA RecordsInit == RegistrarInit => RecordsInv
  BY InitTypes, RegistrarAssumption, ResolverAssumption
  DEF RecordsInv, RegistrarInit, ResolverInit, RegistryInit, Versions

LEMMA RecordsRegister ==
  ASSUME RecordsInv, RegistrarTypes',
         NEW caller, NEW id \in Names, NEW owner \in Addresses, NEW d \in Nat,
         NEW withData \in BOOLEAN, Register(caller, id, owner, d, PublicResolver, withData)
  PROVE  RecordsInv'
<1> DEFINE next == recordVersions[id] + 1
<1>1. /\ recordVersions[id] < MaxVersion
      /\ recordVersions' = [recordVersions EXCEPT ![id] = next]
      /\ records' = IF withData THEN [records EXCEPT ![id][next] = leaseNo[id] + 1] ELSE records
      /\ nodeTTL' = [nodeTTL EXCEPT ![id] = 0]
      /\ leaseNo' = [leaseNo EXCEPT ![id] = @ + 1]
  BY DEF Register, ResetNode
<1>2. /\ id \in Nodes /\ recordVersions[id] \in Versions /\ next \in Versions
      /\ recordVersions[id] \in Nat
      /\ records \in [Nodes -> [Versions -> Nat]]
      /\ leaseNo \in [Nodes -> Nat] /\ nodeTTL \in [Nodes -> Nat]
      /\ recordVersions \in [Nodes -> Versions]
  <2>1. /\ id \in Nodes
        /\ records \in [Nodes -> [Versions -> Nat]]
        /\ leaseNo \in [Nodes -> Nat] /\ nodeTTL \in [Nodes -> Nat]
        /\ recordVersions \in [Nodes -> Versions]
    BY RegistrarAssumption DEF RecordsInv, RegistrarTypes
  <2>2. recordVersions[id] \in 0..MaxVersion
    BY <2>1 DEF Versions
  <2>3. next \in 0..MaxVersion
    BY <1>1, <2>2, ResolverAssumption
  <2> QED
    BY <2>1, <2>2, <2>3 DEF Versions
<1>3. ASSUME NEW n \in Names
      PROVE  /\ records'[n][recordVersions'[n]] \in {0, leaseNo'[n]}
             /\ nodeTTL'[n] \in {0, leaseNo'[n]}
             /\ \A v \in Versions : v > recordVersions'[n] => records'[n][v] = 0
  <2>0. n \in Nodes
    BY RegistrarAssumption
  <2>1. CASE n # id
    <3>1. /\ records'[n] = records[n] /\ recordVersions'[n] = recordVersions[n]
          /\ leaseNo'[n] = leaseNo[n] /\ nodeTTL'[n] = nodeTTL[n]
      BY <1>1, <1>2, <2>0, <2>1
    <3> QED
      BY <3>1 DEF RecordsInv
  <2>2. CASE n = id
    <3>1. /\ recordVersions'[n] = next /\ nodeTTL'[n] = 0
          /\ leaseNo'[n] = leaseNo[id] + 1
      BY <1>1, <1>2, <2>2
    <3>2. \A v \in Versions : v > recordVersions[id] => records[id][v] = 0
      BY DEF RecordsInv
    <3>3. \A v \in Versions : records'[n][v] = IF withData /\ v = next THEN leaseNo[id] + 1
                                                                      ELSE records[id][v]
      BY <1>1, <1>2, <2>2
    <3>4. next > recordVersions[id] /\ \A v \in Versions : v > next => v > recordVersions[id]
      BY <1>2 DEF Versions
    <3> HIDE DEF next
    <3>5. records'[n][next] \in {0, leaseNo[id] + 1}
      BY <1>2, <3>2, <3>3, <3>4
    <3>6. \A v \in Versions : v > next => v # next
      BY DEF Versions
    <3>7. \A v \in Versions : v > next => records'[n][v] = 0
      BY <3>2, <3>3, <3>4, <3>6
    <3> QED
      BY <3>1, <3>5, <3>7
  <2> QED
    BY <2>1, <2>2
<1> QED
  BY <1>3 DEF RecordsInv, Versions

LEMMA RecordsNodeCall ==
  ASSUME RecordsInv, RegistrarTypes', NEW caller, NEW id \in Nodes, NodeCall(caller, id)
  PROVE  RecordsInv'
<1>1. /\ id \in Nodes /\ Names \subseteq Nodes
      /\ records \in [Nodes -> [Versions -> Nat]]
      /\ leaseNo \in [Nodes -> Nat] /\ nodeTTL \in [Nodes -> Nat]
      /\ recordVersions \in [Nodes -> Versions]
  BY RegistrarAssumption DEF RecordsInv, RegistrarTypes
<1>2. ASSUME NEW r \in Resolvers \cup {Zero},
             SetResolver(caller, id, r), UNCHANGED <<registrarVars, resolverVars>>
      PROVE  RecordsInv'
  BY <1>2 DEF RecordsInv, SetResolver, registrarVars, historyVars, resolverVars, Versions
<1>3. ASSUME SetTTL(caller, id, leaseNo[id]), UNCHANGED <<registrarVars, resolverVars>>
      PROVE  RecordsInv'
  BY <1>1, <1>3 DEF RecordsInv, SetTTL, registrarVars, historyVars, resolverVars, Versions
<1>4. ASSUME SetRecord(caller, id, leaseNo[id]), UNCHANGED registrarVars
      PROVE  RecordsInv'
  <2>1. /\ records' = [records EXCEPT ![id][recordVersions[id]] = leaseNo[id]]
        /\ UNCHANGED <<recordVersions, nodeTTL, leaseNo>>
    BY <1>4 DEF SetRecord, registryVars, registrarVars, historyVars
  <2>2. ASSUME NEW n \in Names
        PROVE  /\ records'[n][recordVersions[n]] \in {0, leaseNo[n]}
               /\ \A v \in Versions : v > recordVersions[n] => records'[n][v] = 0
    <3>1. n \in Nodes /\ recordVersions[n] \in Versions
      BY <1>1
    <3>2. CASE n # id
      <4>1. records'[n] = records[n]
        BY <1>1, <2>1, <3>1, <3>2
      <4> QED
        BY <4>1 DEF RecordsInv
    <3>3. CASE n = id
      <4>1. \A v \in Versions : records'[n][v] = IF v = recordVersions[n] THEN leaseNo[n]
                                                                      ELSE records[n][v]
        BY <1>1, <2>1, <3>3
      <4>2. \A v \in Versions : v > recordVersions[n] => v # recordVersions[n]
        BY <3>1 DEF Versions
      <4> QED
        BY <3>1, <4>1, <4>2 DEF RecordsInv
    <3> QED
      BY <3>2, <3>3
  <2> QED
    BY <2>1, <2>2 DEF RecordsInv, Versions
<1>5. ASSUME ClearRecords(caller, id), UNCHANGED registrarVars
      PROVE  RecordsInv'
  <2>1. /\ recordVersions[id] < MaxVersion
        /\ recordVersions' = [recordVersions EXCEPT ![id] = @ + 1]
        /\ UNCHANGED <<records, nodeTTL, leaseNo>>
    BY <1>5 DEF ClearRecords, registryVars, registrarVars, historyVars
  <2>2. ASSUME NEW n \in Names
        PROVE  /\ records[n][recordVersions'[n]] \in {0, leaseNo[n]}
               /\ \A v \in Versions : v > recordVersions'[n] => records[n][v] = 0
    <3>1. n \in Nodes /\ recordVersions[n] \in Versions
      BY <1>1
    <3>2. CASE n # id
      BY <1>1, <2>1, <3>1, <3>2 DEF RecordsInv
    <3>3. CASE n = id
      <4>1. recordVersions'[n] = recordVersions[n] + 1
        BY <1>1, <2>1, <3>3
      <4>2. /\ recordVersions'[n] \in Versions /\ recordVersions'[n] > recordVersions[n]
            /\ \A v \in Versions : v > recordVersions'[n] => v > recordVersions[n]
        BY <2>1, <3>1, <3>3, <4>1, ResolverAssumption DEF Versions
      <4> QED
        BY <4>2 DEF RecordsInv
    <3> QED
      BY <3>2, <3>3
  <2> QED
    BY <2>1, <2>2 DEF RecordsInv, Versions
<1> QED
  BY <1>2, <1>3, <1>4, <1>5 DEF NodeCall

LEMMA RecordsSame ==
  ASSUME RecordsInv, RegistrarTypes', UNCHANGED <<records, recordVersions, nodeTTL, leaseNo>>
  PROVE  RecordsInv'
  BY DEF RecordsInv, Versions

LEMMA RecordsNext ==
  ASSUME RegisterResolvers \subseteq {PublicResolver}
  PROVE  RecordsInv /\ [RegistrarNext]_nameVars => RecordsInv'
<1> SUFFICES ASSUME RecordsInv, [RegistrarNext]_nameVars
             PROVE  RecordsInv'
  OBVIOUS
<1>0. RegistrarTypes'
  BY NextTypes DEF RecordsInv
<1>1. ASSUME UNCHANGED <<records, recordVersions, nodeTTL, leaseNo>>
      PROVE  RecordsInv'
  BY <1>0, <1>1, RecordsSame
<1>2. ASSUME NEW caller \in Addresses, NEW id \in Names, ControllerCall(caller, id)
      PROVE  RecordsInv'
  <2>1. ASSUME NEW d \in Durations, NEW owner \in Addresses, NEW r \in RegisterResolvers,
               NEW withData \in BOOLEAN, Register(caller, id, owner, d, r, withData)
        PROVE  RecordsInv'
    <3>1. r = PublicResolver /\ d \in Nat
      BY RegistrarAssumption
    <3>2. Register(caller, id, owner, d, PublicResolver, withData)
      BY <2>1, <3>1
    <3> QED
      BY <1>0, <3>1, <3>2, RecordsRegister
  <2>2. ASSUME NEW d \in Durations, Renew(caller, id, d)
        PROVE  RecordsInv'
    BY <1>1, <2>2 DEF Renew, historyVars, registryVars, resolverVars
  <2> QED
    BY <1>2, <2>1, <2>2 DEF ControllerCall
<1>3. ASSUME NEW caller \in Addresses, NEW id \in Names, TokenCall(caller, id)
      PROVE  RecordsInv'
  BY <1>1, <1>3 DEF TokenCall, TransferFrom, Approve, Reclaim, SetNodeOwner, SetOwner,
                    registryVars, resolverVars
<1>4. ASSUME NEW caller \in Addresses, NEW id \in Names, NodeCall(caller, id)
      PROVE  RecordsInv'
  BY <1>0, <1>4, RecordsNodeCall, RegistrarAssumption
<1>5. ASSUME NEW pair \in OperatorPairs, NEW approved \in BOOLEAN, OperatorCall(pair, approved)
      PROVE  RecordsInv'
  BY <1>1, <1>5 DEF OperatorCall, SetApprovalForAll, RegistryOperatorCall, SetRegistryOperator,
                    registrarVars, historyVars, registryVars, resolverVars
<1>6. ASSUME NEW enabled \in BOOLEAN, SetController(Controller, enabled)
      PROVE  RecordsInv'
  BY <1>1, <1>6 DEF SetController, historyVars, registryVars, resolverVars
<1>7. CASE Tick
  BY <1>1, <1>7 DEF Tick, historyVars, registryVars, resolverVars
<1>8. CASE UNCHANGED nameVars
  BY <1>1, <1>8 DEF nameVars, registrarVars, historyVars, registryVars, resolverVars
<1> QED
  BY <1>2, <1>3, <1>4, <1>5, <1>6, <1>7, <1>8 DEF RegistrarNext

\* As long as the controllers register with the public resolver, which is what
\* ArcRegistrarController does, no record and no TTL of an earlier lease is visible.
THEOREM RecordsCorrect ==
  ASSUME RegisterResolvers \subseteq {PublicResolver}
  PROVE  RegistrarSpec => []RecordsOfThisLease
<1>1. RecordsInv /\ [RegistrarNext]_nameVars => RecordsInv'
  BY RecordsNext
<1>2. RecordsInv => RecordsOfThisLease
  BY DEF RecordsInv, RecordsOfThisLease, VisibleRecord
<1> QED
  BY <1>1, <1>2, RecordsInit, PTL DEF RegistrarSpec

(***************************************************************************)
(* Whatever resolvers the controllers register with, a lease that begins   *)
(* at the public resolver begins with its own records.                     *)
(***************************************************************************)
\* Nothing was written yet under the versions to come.
FutureBlank ==
  /\ RegistrarTypes
  /\ \A n \in Names, v \in Versions : v > recordVersions[n] => records[n][v] = 0

LEMMA BlankKept ==
  ASSUME FutureBlank, RegistrarTypes',
         \A n \in Names : /\ recordVersions'[n] >= recordVersions[n]
                          /\ \A v \in Versions : v > recordVersions'[n] =>
                               records'[n][v] = records[n][v]
  PROVE  FutureBlank'
<1>1. \A n \in Names : recordVersions[n] \in Nat /\ recordVersions'[n] \in Nat
  <2>1. recordVersions \in [Nodes -> Versions] /\ recordVersions' \in [Nodes -> Versions]
    BY DEF FutureBlank, RegistrarTypes
  <2>2. \A v \in Versions : v \in Nat
    BY DEF Versions
  <2>3. Names \subseteq Nodes
    BY RegistrarAssumption
  <2> QED
    BY <2>1, <2>2, <2>3
<1>2. ASSUME NEW n \in Names, NEW v \in Versions, v > recordVersions'[n]
      PROVE  records'[n][v] = 0
  <2>1. v \in Nat /\ v > recordVersions[n]
    BY <1>1, <1>2 DEF Versions
  <2> QED
    BY <1>2, <2>1 DEF FutureBlank
<1> QED
  BY <1>2 DEF FutureBlank, Versions

LEMMA BlankTypes ==
  ASSUME FutureBlank
  PROVE  /\ Names \subseteq Nodes
         /\ records \in [Nodes -> [Versions -> Nat]] /\ recordVersions \in [Nodes -> Versions]
         /\ \A n \in Nodes : recordVersions[n] \in Nat
<1>1. Names \subseteq Nodes
  BY RegistrarAssumption
<1>2. records \in [Nodes -> [Versions -> Nat]] /\ recordVersions \in [Nodes -> Versions]
  BY DEF FutureBlank, RegistrarTypes
<1>3. \A v \in Versions : v \in Nat
  BY DEF Versions
<1> QED
  BY <1>1, <1>2, <1>3

LEMMA BlankRegister ==
  ASSUME FutureBlank, RegistrarTypes', NEW caller, NEW id \in Names, NEW owner \in Addresses,
         NEW d \in Nat, NEW r \in Resolvers \cup {Zero}, NEW withData \in BOOLEAN,
         Register(caller, id, owner, d, r, withData)
  PROVE  FutureBlank'
<1> DEFINE next == recordVersions[id] + 1
<1>1. /\ id \in Nodes /\ Names \subseteq Nodes
      /\ records \in [Nodes -> [Versions -> Nat]] /\ recordVersions \in [Nodes -> Versions]
      /\ \A n \in Names : recordVersions[n] \in Nat
  BY BlankTypes
<1>2. CASE r = PublicResolver
  <2>1. /\ recordVersions[id] < MaxVersion
        /\ recordVersions' = [recordVersions EXCEPT ![id] = next]
        /\ records' = IF withData THEN [records EXCEPT ![id][next] = leaseNo[id] + 1] ELSE records
    BY <1>2 DEF Register, ResetNode
  <2>2. recordVersions'[id] = recordVersions[id] + 1
    BY <1>1, <2>1
  <2>3. ASSUME NEW n \in Names, NEW v \in Versions, v > recordVersions'[n]
        PROVE  records'[n][v] = records[n][v]
    <3>1. CASE n # id
      BY <1>1, <2>1, <3>1
    <3>2. CASE n = id
      <4>1. v # next
        BY <2>2, <2>3, <3>2 DEF Versions
      <4> HIDE DEF next
      <4> QED
        BY <1>1, <2>1, <3>2, <4>1
    <3> QED
      BY <3>1, <3>2
  <2>4. \A n \in Names : recordVersions'[n] >= recordVersions[n]
    BY <1>1, <2>1, <2>2
  <2> QED
    BY <2>3, <2>4, BlankKept
<1>3. CASE r # PublicResolver
  <2>1. UNCHANGED <<recordVersions, records>>
    BY <1>3 DEF Register, ResetNode, resolverVars
  <2> QED
    BY <1>1, <2>1, BlankKept
<1> QED
  BY <1>2, <1>3

LEMMA BlankNodeCall ==
  ASSUME FutureBlank, RegistrarTypes', NEW caller, NEW id \in Nodes, NodeCall(caller, id)
  PROVE  FutureBlank'
<1>1. /\ Names \subseteq Nodes
      /\ records \in [Nodes -> [Versions -> Nat]] /\ recordVersions \in [Nodes -> Versions]
      /\ \A n \in Nodes : recordVersions[n] \in Nat
  BY BlankTypes
<1>2. CASE UNCHANGED <<recordVersions, records>>
  BY <1>1, <1>2, BlankKept
<1>3. CASE SetRecord(caller, id, leaseNo[id])
  <2>1. /\ records' = [records EXCEPT ![id][recordVersions[id]] = leaseNo[id]]
        /\ recordVersions' = recordVersions
    BY <1>3 DEF SetRecord
  <2>2. ASSUME NEW n \in Names, NEW v \in Versions, v > recordVersions[n]
        PROVE  records'[n][v] = records[n][v]
    <3>1. v # recordVersions[n]
      BY <1>1, <2>2 DEF Versions
    <3> QED
      BY <1>1, <2>1, <3>1
  <2> QED
    BY <1>1, <2>1, <2>2, BlankKept
<1>4. CASE ClearRecords(caller, id)
  <2>1. recordVersions' = [recordVersions EXCEPT ![id] = @ + 1] /\ records' = records
    BY <1>4 DEF ClearRecords
  <2>2. \A n \in Names : recordVersions'[n] >= recordVersions[n]
    BY <1>1, <2>1
  <2> QED
    BY <1>1, <2>1, <2>2, BlankKept
<1> QED
  BY <1>2, <1>3, <1>4 DEF NodeCall, resolverVars

LEMMA BlankNext == FutureBlank /\ [RegistrarNext]_nameVars => FutureBlank'
<1> SUFFICES ASSUME FutureBlank, [RegistrarNext]_nameVars
             PROVE  FutureBlank'
  OBVIOUS
<1>0. RegistrarTypes'
  BY NextTypes DEF FutureBlank
<1>1. ASSUME UNCHANGED <<records, recordVersions>>
      PROVE  FutureBlank'
  BY <1>0, <1>1 DEF FutureBlank, Versions
<1>2. ASSUME NEW caller \in Addresses, NEW id \in Names, ControllerCall(caller, id)
      PROVE  FutureBlank'
  <2>1. ASSUME NEW d \in Durations, NEW owner \in Addresses, NEW r \in RegisterResolvers,
               NEW withData \in BOOLEAN, Register(caller, id, owner, d, r, withData)
        PROVE  FutureBlank'
    <3>1. r \in Resolvers \cup {Zero} /\ d \in Nat
      BY RegistrarAssumption
    <3> QED
      BY <1>0, <2>1, <3>1, BlankRegister
  <2>2. ASSUME NEW d \in Durations, Renew(caller, id, d)
        PROVE  FutureBlank'
    BY <1>1, <2>2 DEF Renew, resolverVars
  <2> QED
    BY <1>2, <2>1, <2>2 DEF ControllerCall
<1>3. ASSUME NEW caller \in Addresses, NEW id \in Names, TokenCall(caller, id)
      PROVE  FutureBlank'
  BY <1>1, <1>3 DEF TokenCall, TransferFrom, Approve, Reclaim, SetNodeOwner, resolverVars
<1>4. ASSUME NEW caller \in Addresses, NEW id \in Names, NodeCall(caller, id)
      PROVE  FutureBlank'
  BY <1>0, <1>4, BlankNodeCall, RegistrarAssumption
<1>5. ASSUME NEW pair \in OperatorPairs, NEW approved \in BOOLEAN, OperatorCall(pair, approved)
      PROVE  FutureBlank'
  BY <1>1, <1>5 DEF OperatorCall, SetApprovalForAll, RegistryOperatorCall, resolverVars
<1>6. CASE \/ \E enabled \in BOOLEAN : SetController(Controller, enabled)
           \/ Tick
           \/ UNCHANGED nameVars
  BY <1>1, <1>6 DEF SetController, Tick, nameVars, resolverVars
<1> QED
  BY <1>2, <1>3, <1>4, <1>5, <1>6 DEF RegistrarNext

\* A new lease at the public resolver shows a record of its own, or none, and no TTL.
NewLeaseIsClean ==
  [][\A id \in Names : leaseNo'[id] # leaseNo[id] /\ nodeResolver'[id] = PublicResolver =>
       /\ VisibleRecord(id)' \in {0, leaseNo'[id]}
       /\ nodeTTL'[id] = 0]_nameVars

\* Whatever the holders before wrote, and whatever other resolver an enabled controller
\* registered the name with in between, a registration with the public resolver leaves
\* nothing of an earlier lease visible: RecordsCorrect without its assumption, for the
\* moment at which a lease begins.  (register)
THEOREM NewLeaseIsCleanCorrect == RegistrarSpec => NewLeaseIsClean
<1> DEFINE Clean(id) == /\ VisibleRecord(id)' \in {0, leaseNo'[id]}
                        /\ nodeTTL'[id] = 0
<1>1. FutureBlank /\ [RegistrarNext]_nameVars =>
        [\A id \in Names : leaseNo'[id] # leaseNo[id] /\ nodeResolver'[id] = PublicResolver =>
           Clean(id)]_nameVars
  <2> SUFFICES ASSUME FutureBlank, RegistrarNext, NEW n \in Names, leaseNo'[n] # leaseNo[n],
                      nodeResolver'[n] = PublicResolver
               PROVE  Clean(n)
    OBVIOUS
  <2>0. /\ n \in Nodes
        /\ records \in [Nodes -> [Versions -> Nat]] /\ recordVersions \in [Nodes -> Versions]
        /\ leaseNo \in [Nodes -> Nat] /\ nodeTTL \in [Nodes -> Nat]
        /\ nodeResolver \in [Nodes -> Resolvers \cup {Zero}]
    BY RegistrarAssumption DEF FutureBlank, RegistrarTypes
  <2>1. PICK caller \in Addresses, id \in Names, d \in Durations, owner \in Addresses,
             r \in RegisterResolvers, withData \in BOOLEAN :
          Register(caller, id, owner, d, r, withData)
    BY DEF RegistrarNext, ControllerCall, Renew, TokenCall, TransferFrom, Approve, Reclaim,
           SetNodeOwner, NodeCall, OperatorCall, SetApprovalForAll, RegistryOperatorCall,
           SetController, Tick, historyVars, registrarVars
  <2>2. n = id
    BY <2>0, <2>1 DEF Register
  <2>3. r = PublicResolver
    BY <2>0, <2>1, <2>2 DEF Register, ResetNode
  <2> DEFINE next == recordVersions[n] + 1
  <2>4. /\ recordVersions[n] < MaxVersion
        /\ recordVersions' = [recordVersions EXCEPT ![n] = next]
        /\ records' = IF withData THEN [records EXCEPT ![n][next] = leaseNo[n] + 1] ELSE records
        /\ nodeTTL' = [nodeTTL EXCEPT ![n] = 0]
        /\ leaseNo' = [leaseNo EXCEPT ![n] = @ + 1]
    BY <2>1, <2>2, <2>3 DEF Register, ResetNode
  <2>5. recordVersions[n] \in 0..MaxVersion /\ recordVersions[n] \in Nat
    BY <2>0 DEF Versions
  <2>6. next \in Versions /\ next > recordVersions[n]
    BY <2>4, <2>5, ResolverAssumption DEF Versions
  <2>7. records[n][next] = 0
    BY <2>6 DEF FutureBlank
  <2> HIDE DEF next
  <2>8. recordVersions'[n] = next /\ nodeTTL'[n] = 0 /\ leaseNo'[n] = leaseNo[n] + 1
    BY <2>0, <2>4
  <2>9. records'[n][next] \in {0, leaseNo[n] + 1}
    BY <2>0, <2>4, <2>6, <2>7
  <2> QED
    BY <2>8, <2>9 DEF VisibleRecord
<1>2. RegistrarInit => FutureBlank
  BY RecordsInit DEF RecordsInv, FutureBlank
<1> QED
  BY <1>1, <1>2, BlankNext, PTL DEF RegistrarSpec, NewLeaseIsClean

(***************************************************************************)
(* The registrar implements NameLease.                                     *)
(***************************************************************************)

\* The refinement mapping of Lease.
Holder == [id \in Names |-> IF Available(id) THEN Zero ELSE tokenOwner[id]]

LEMMA RegisterIsGrant ==
  ASSUME RegistrarInv,
         NEW caller, NEW id \in Names, NEW owner \in Addresses, NEW d \in Nat \ {0},
         NEW r, NEW withData, Register(caller, id, owner, d, r, withData)
  PROVE  Lease!Grant(id)
<1>1. /\ now \in Nat /\ nameExpires \in [Names -> Nat]
      /\ tokenOwner \in [Names -> Addresses \cup {Zero}]
  BY DEF RegistrarInv, RegistrarTypes
<1>2. /\ Available(id) /\ now' = now
      /\ tokenOwner' = [tokenOwner EXCEPT ![id] = owner]
      /\ nameExpires' = [nameExpires EXCEPT ![id] = now + d]
  BY DEF Register, ReplaceToken
<1>3. Holder[id] = Zero
  BY <1>2 DEF Holder
<1>4. Holder' = [Holder EXCEPT ![id] = owner]
  <2>1. ASSUME NEW n \in Names
        PROVE  Holder'[n] = [Holder EXCEPT ![id] = owner][n]
    <3>1. CASE n = id
      <4>1. nameExpires'[n] = now + d /\ tokenOwner'[n] = owner
        BY <1>1, <1>2, <3>1
      <4>2. ~Available(n)'
        BY <1>1, <1>2, <4>1, RegistrarAssumption DEF Available
      <4> QED
        BY <3>1, <4>1, <4>2 DEF Holder
    <3>2. CASE n # id
      BY <1>1, <1>2, <3>2 DEF Holder, Available
    <3> QED
      BY <3>1, <3>2
  <2> QED
    BY <2>1 DEF Holder
<1>5. nameExpires'[id] > now /\ nameExpires' = [nameExpires EXCEPT ![id] = nameExpires'[id]]
  BY <1>1, <1>2
<1> QED
  BY <1>2, <1>3, <1>4, <1>5 DEF Lease!Grant, Holder

LEMMA RenewIsExtend ==
  ASSUME RegistrarInv, NEW caller, NEW id \in Names, NEW d \in Nat \ {0}, Renew(caller, id, d)
  PROVE  Lease!Extend(id)
<1>1. /\ now \in Nat /\ nameExpires \in [Names -> Nat]
      /\ tokenOwner \in [Names -> Addresses \cup {Zero}]
  BY DEF RegistrarInv, RegistrarTypes
<1>2. /\ nameExpires[id] # 0 /\ now <= nameExpires[id] + GRACE
      /\ nameExpires' = [nameExpires EXCEPT ![id] = nameExpires[id] + d]
      /\ UNCHANGED <<now, tokenOwner>>
  BY DEF Renew
<1>3. ~Available(id) /\ ~Available(id)'
  BY <1>1, <1>2, RegistrarAssumption DEF Available
<1>4. Holder[id] # Zero
  BY <1>2, <1>3 DEF Holder, RegistrarInv, TokenIffRegistered
<1>5. Holder' = Holder
  BY <1>1, <1>2, <1>3 DEF Holder, Available
<1>6. nameExpires'[id] > nameExpires[id]
      /\ nameExpires' = [nameExpires EXCEPT ![id] = nameExpires'[id]]
  BY <1>1, <1>2
<1> QED
  BY <1>2, <1>4, <1>5, <1>6 DEF Lease!Extend, Holder

LEMMA TransferIsMove ==
  ASSUME RegistrarInv, NEW caller, NEW id \in Names, NEW to \in Addresses,
         TransferFrom(caller, to, id)
  PROVE  Lease!Move(id)
<1>1. /\ now \in Nat /\ nameExpires \in [Names -> Nat]
      /\ tokenOwner \in [Names -> Addresses \cup {Zero}]
  BY DEF RegistrarInv, RegistrarTypes
<1>2. /\ nameExpires[id] # 0 /\ now <= nameExpires[id] /\ tokenOwner[id] # Zero
      /\ tokenOwner' = [tokenOwner EXCEPT ![id] = to]
      /\ UNCHANGED <<now, nameExpires>>
  BY DEF TransferFrom, IsActive, Exists
<1>3. ~Available(id) /\ ~Available(id)'
  BY <1>1, <1>2, RegistrarAssumption DEF Available
<1>4. Holder[id] # Zero
  BY <1>2, <1>3 DEF Holder
<1>5. Holder' = [Holder EXCEPT ![id] = to]
  BY <1>1, <1>2, <1>3 DEF Holder, Available
<1> QED
  BY <1>2, <1>4, <1>5 DEF Lease!Move, Holder

LEMMA TickIsPass ==
  ASSUME RegistrarInv, Tick
  PROVE  Lease!Pass
<1>1. now \in Nat /\ nameExpires \in [Names -> Nat]
  BY DEF RegistrarInv, RegistrarTypes
<1>2. now' = now + 1 /\ UNCHANGED <<nameExpires, tokenOwner>>
  BY DEF Tick, tokenVars
<1>3. Holder' = [n \in Names |-> IF now' > nameExpires[n] + GRACE THEN Zero ELSE Holder[n]]
  <2>1. ASSUME NEW n \in Names
        PROVE  Holder'[n] = IF now' > nameExpires[n] + GRACE THEN Zero ELSE Holder[n]
    BY <1>1, <1>2, RegistrarAssumption DEF Holder, Available
  <2> QED
    BY <2>1 DEF Holder
<1> QED
  BY <1>2, <1>3 DEF Lease!Pass, Holder

LEMMA OtherIsStutter ==
  ASSUME UNCHANGED <<now, nameExpires, tokenOwner>>
  PROVE  UNCHANGED Lease!leaseVars
  BY DEF Lease!leaseVars, Available

LEMMA StepRefines == RegistrarInv /\ [RegistrarNext]_nameVars => [Lease!LeaseNext]_Lease!leaseVars
<1> SUFFICES ASSUME RegistrarInv, [RegistrarNext]_nameVars
             PROVE  Lease!LeaseNext \/ UNCHANGED Lease!leaseVars
  OBVIOUS
<1>1. ASSUME NEW caller \in Addresses, NEW id \in Names, ControllerCall(caller, id)
      PROVE  Lease!LeaseNext
  BY <1>1, RegistrarAssumption, RegisterIsGrant, RenewIsExtend DEF ControllerCall, Lease!LeaseNext
<1>2. ASSUME NEW caller \in Addresses, NEW id \in Names, TokenCall(caller, id)
      PROVE  Lease!LeaseNext \/ UNCHANGED Lease!leaseVars
  <2>1. ASSUME NEW to \in Addresses, TransferFrom(caller, to, id)
        PROVE  Lease!LeaseNext
    BY <2>1, TransferIsMove DEF Lease!LeaseNext
  <2>2. ASSUME NEW approved \in Addresses \cup {Zero}, Approve(caller, approved, id)
        PROVE  UNCHANGED Lease!leaseVars
    BY <2>2, OtherIsStutter DEF Approve
  <2>3. ASSUME NEW a \in Addresses \cup {Zero}, Reclaim(caller, id, a) \/ SetNodeOwner(caller, id, a)
        PROVE  UNCHANGED Lease!leaseVars
    BY <2>3, OtherIsStutter DEF Reclaim, SetNodeOwner, tokenVars
  <2> QED
    BY <1>2, <2>1, <2>2, <2>3 DEF TokenCall
<1>3. ASSUME NEW caller \in Addresses, NEW id \in Names, NodeCall(caller, id)
      PROVE  UNCHANGED Lease!leaseVars
  BY <1>3, OtherIsStutter DEF NodeCall, registrarVars, tokenVars
<1>4. ASSUME NEW pair \in OperatorPairs, NEW approved \in BOOLEAN, OperatorCall(pair, approved)
      PROVE  UNCHANGED Lease!leaseVars
  BY <1>4, OtherIsStutter DEF OperatorCall, SetApprovalForAll, RegistryOperatorCall,
                              registrarVars, tokenVars
<1>5. ASSUME NEW enabled \in BOOLEAN, SetController(Controller, enabled)
      PROVE  UNCHANGED Lease!leaseVars
  BY <1>5, OtherIsStutter DEF SetController, tokenVars, registrarVars
<1>6. CASE Tick
  BY <1>6, TickIsPass DEF Lease!LeaseNext
<1>7. CASE UNCHANGED nameVars
  BY <1>7, OtherIsStutter DEF nameVars, registrarVars, tokenVars
<1> QED
  BY <1>1, <1>2, <1>3, <1>4, <1>5, <1>6, <1>7 DEF RegistrarNext

LEMMA InitRefines == RegistrarInit => Lease!LeaseInit
<1> SUFFICES ASSUME RegistrarInit PROVE Lease!LeaseInit
  OBVIOUS
<1>1. Holder = [id \in Names |-> Zero]
  BY DEF RegistrarInit, Holder, Available
<1> QED
  BY <1>1 DEF RegistrarInit, Lease!LeaseInit, Holder

\* Lazily burnt tokens, renewal in grace and re-registration keep the promise of
\* NameLease: one holder at a time, nobody loses a name before its grace period ends.
THEOREM Refinement == RegistrarSpec => KeepsLeasePromise
<1>1. RegistrarInit => Lease!LeaseInit
  BY InitRefines
<1>2. RegistrarInv /\ [RegistrarNext]_nameVars => [Lease!LeaseNext]_Lease!leaseVars
  BY StepRefines
<1> QED
  BY <1>1, <1>2, Invariance, PTL DEF RegistrarSpec, KeepsLeasePromise, Lease!LeaseSpec

(***************************************************************************)
(* Sums without recursion: the amounts of a table added up are the number  *)
(* of its units, one element for each.  The two ledgers built over the     *)
(* registrar add to one amount at a time, or clear it.                     *)
(***************************************************************************)
Units(A, f) == UNION {{a} \X (1..f[a]) : a \in A}

LEMMA NoUnits ==
  ASSUME NEW A, NEW f \in [A -> Nat], \A a \in A : f[a] = 0
  PROVE  IsFiniteSet(Units(A, f)) /\ Cardinality(Units(A, f)) = 0
<1>1. Units(A, f) = {}
  BY DEF Units
<1> QED
  BY <1>1, FS_EmptySet

\* The units of one entry from the low one to the high one.
LEMMA UnitsOfOne ==
  ASSUME NEW a, NEW low \in Nat, NEW high \in Nat, low <= high
  PROVE  /\ IsFiniteSet({a} \X ((low + 1)..high))
         /\ Cardinality({a} \X ((low + 1)..high)) = high - low
<1> DEFINE I == (low + 1)..high
<1>1. IsFiniteSet(I) /\ Cardinality(I) = high - low
  <2>1. low + 1 \in Int /\ high \in Int
    OBVIOUS
  <2>2. /\ IsFiniteSet(I)
        /\ Cardinality(I) = IF low + 1 > high THEN 0 ELSE high - (low + 1) + 1
    BY <2>1, FS_Interval
  <2> HIDE DEF I
  <2> QED
    BY <2>2
<1>2. IsFiniteSet({a}) /\ Cardinality({a}) = 1
  BY FS_Singleton
<1> HIDE DEF I
<1>3. IsFiniteSet({a} \X I) /\ Cardinality({a} \X I) = 1 * Cardinality(I)
  BY <1>1, <1>2, FS_Product
<1> QED
  BY <1>1, <1>3 DEF I

LEMMA UnitsAdded ==
  ASSUME NEW A, NEW f \in [A -> Nat], IsFiniteSet(Units(A, f)), NEW a \in A,
         NEW n \in Nat, f[a] <= n, NEW g, g[a] = n, \A b \in A \ {a} : g[b] = f[b]
  PROVE  /\ IsFiniteSet(Units(A, g))
         /\ Cardinality(Units(A, g)) = Cardinality(Units(A, f)) + (n - f[a])
<1> DEFINE Added == {a} \X ((f[a] + 1)..n)
<1>1. IsFiniteSet(Added) /\ Cardinality(Added) = n - f[a]
  <2>1. f[a] \in Nat
    OBVIOUS
  <2> QED
    BY <2>1, UnitsOfOne
<1>2. Units(A, g) = Units(A, f) \cup Added
  <2>1. ASSUME NEW u PROVE u \in Units(A, g) <=> u \in Units(A, f) \/ u \in Added
    <3>1. u \in Units(A, g) <=> \E b \in A : u \in {b} \X (1..g[b])
      BY DEF Units
    <3>2. u \in Units(A, f) <=> \E b \in A : u \in {b} \X (1..f[b])
      BY DEF Units
    <3>3. g[a] = n /\ \A b \in A : b # a => g[b] = f[b]
      BY Zenon
    <3>4. u \in {a} \X (1..g[a]) <=> u \in {a} \X (1..f[a]) \/ u \in Added
      BY <3>3
    <3> QED
      BY <3>1, <3>2, <3>3, <3>4
  <2> QED
    BY <2>1
<1>3. Units(A, f) \cap Added = {}
  BY DEF Units
<1> HIDE DEF Added
<1>4. Cardinality(Units(A, f)) \in Nat
  BY FS_CardinalityType
<1>5. /\ IsFiniteSet(Units(A, f) \cup Added)
      /\ Cardinality(Units(A, f) \cup Added)
           = Cardinality(Units(A, f)) + Cardinality(Added) - Cardinality(Units(A, f) \cap Added)
  BY <1>1, FS_Union
<1>6. Cardinality(Units(A, f) \cap Added) = 0
  BY <1>3, FS_EmptySet
<1>7. IsFiniteSet(Units(A, g))
  BY <1>2, <1>5, Zenon
<1>8. Cardinality(Units(A, g)) = Cardinality(Units(A, f) \cup Added)
  BY <1>2, Zenon
<1> QED
  BY <1>1, <1>4, <1>5, <1>6, <1>7, <1>8

LEMMA UnitsCleared ==
  ASSUME NEW A, NEW f \in [A -> Nat], IsFiniteSet(Units(A, f)), NEW a \in A,
         NEW g, g = [f EXCEPT ![a] = 0]
  PROVE  /\ IsFiniteSet(Units(A, g))
         /\ Cardinality(Units(A, g)) = Cardinality(Units(A, f)) - f[a]
         /\ f[a] <= Cardinality(Units(A, f))
<1> DEFINE Taken == {a} \X (1..f[a])
<1>1. IsFiniteSet(Taken) /\ Cardinality(Taken) = f[a]
  <2>1. 0 \in Nat /\ f[a] \in Nat /\ 0 <= f[a] /\ 0 + 1 = 1
    OBVIOUS
  <2>2. /\ IsFiniteSet({a} \X ((0 + 1)..f[a]))
        /\ Cardinality({a} \X ((0 + 1)..f[a])) = f[a] - 0
    BY <2>1, UnitsOfOne
  <2> QED
    BY <2>1, <2>2
<1>2. Units(A, g) = Units(A, f) \ Taken
  <2>1. ASSUME NEW u PROVE u \in Units(A, g) <=> u \in Units(A, f) /\ u \notin Taken
    <3>1. u \in Units(A, g) <=> \E b \in A : u \in {b} \X (1..g[b])
      BY DEF Units
    <3>2. u \in Units(A, f) <=> \E b \in A : u \in {b} \X (1..f[b])
      BY DEF Units
    <3>3. g[a] = 0 /\ \A b \in A : b # a => g[b] = f[b]
      OBVIOUS
    <3>4. \A b \in A : b # a /\ u \in {b} \X (1..f[b]) => u \notin Taken
      OBVIOUS
    <3>5. u \notin {a} \X (1..g[a])
      BY <3>3
    <3> QED
      BY <3>1, <3>2, <3>3, <3>4, <3>5
  <2> QED
    BY <2>1
<1>3. Taken \subseteq Units(A, f)
  BY DEF Units
<1>4. Units(A, f) \cap Taken = Taken
  BY <1>3
<1> HIDE DEF Taken
<1>5. /\ IsFiniteSet(Units(A, f) \ Taken)
      /\ Cardinality(Units(A, f) \ Taken)
           = Cardinality(Units(A, f)) - Cardinality(Units(A, f) \cap Taken)
  BY FS_Difference
<1>6. Cardinality(Taken) <= Cardinality(Units(A, f))
  BY <1>3, FS_Subset
<1>7. Cardinality(Units(A, g)) = Cardinality(Units(A, f)) - f[a]
  BY <1>1, <1>2, <1>4, <1>5
<1>8. f[a] <= Cardinality(Units(A, f))
  BY <1>1, <1>6, Zenon
<1>9. IsFiniteSet(Units(A, g))
  BY <1>2, <1>5, Zenon
<1> QED
  BY <1>7, <1>8, <1>9

\* A ledger: total counts the units of f, and the pool covers it.
Ledger(A, f, total, pool) ==
  /\ IsFiniteSet(Units(A, f))
  /\ total = Cardinality(Units(A, f))
  /\ pool >= total

LEMMA LedgerCredited ==
  ASSUME NEW A, NEW f \in [A -> Nat], NEW total \in Nat, NEW pool \in Nat, Ledger(A, f, total, pool),
         NEW a \in A, NEW c \in Nat, NEW p \in Nat, p >= pool + c
  PROVE  Ledger(A, [f EXCEPT ![a] = @ + c], total + c, p)
<1> SUFFICES ASSUME NEW g, g = [f EXCEPT ![a] = @ + c]
             PROVE  Ledger(A, g, total + c, p)
  OBVIOUS
<1> DEFINE n == f[a] + c
<1>0. /\ n \in Nat /\ f[a] <= n /\ n - f[a] = c
      /\ g[a] = n /\ \A b \in A \ {a} : g[b] = f[b]
  OBVIOUS
<1> HIDE DEF n
<1>1. IsFiniteSet(Units(A, f)) /\ total = Cardinality(Units(A, f)) /\ pool >= total
  BY DEF Ledger
<1>2. /\ IsFiniteSet(Units(A, g))
      /\ Cardinality(Units(A, g)) = Cardinality(Units(A, f)) + (n - f[a])
  <2>1. IsFiniteSet(Units(A, f))
    BY <1>1
  <2>2. n \in Nat /\ f[a] <= n
    BY <1>0
  <2>3. g[a] = n /\ \A b \in A \ {a} : g[b] = f[b]
    BY <1>0
  <2>4. \A m \in Nat : \A h : f[a] <= m /\ h[a] = m /\ (\A b \in A \ {a} : h[b] = f[b])
          => /\ IsFiniteSet(Units(A, h))
             /\ Cardinality(Units(A, h)) = Cardinality(Units(A, f)) + (m - f[a])
    BY <2>1, UnitsAdded
  <2> QED
    BY <2>2, <2>3, <2>4
<1>3. total + c = Cardinality(Units(A, g))
  BY <1>0, <1>1, <1>2, Zenon
<1>4. p >= total + c
  BY <1>1
<1> QED
  BY <1>2, <1>3, <1>4 DEF Ledger

LEMMA LedgerPaid ==
  ASSUME NEW A, NEW f \in [A -> Nat], NEW total \in Nat, NEW pool \in Nat, Ledger(A, f, total, pool),
         NEW a \in A
  PROVE  /\ Ledger(A, [f EXCEPT ![a] = 0], total - f[a], pool - f[a])
         /\ f[a] <= total
<1> DEFINE g == [f EXCEPT ![a] = 0]
<1>0. g = [f EXCEPT ![a] = 0]
  OBVIOUS
<1> HIDE DEF g
<1>1. IsFiniteSet(Units(A, f)) /\ total = Cardinality(Units(A, f)) /\ pool >= total
  BY DEF Ledger
<1>2. /\ IsFiniteSet(Units(A, g)) /\ Cardinality(Units(A, g)) = Cardinality(Units(A, f)) - f[a]
      /\ f[a] <= Cardinality(Units(A, f))
  BY <1>0, <1>1, UnitsCleared, ZenonT(30)
<1>3. total - f[a] = Cardinality(Units(A, g)) /\ f[a] <= total
  BY <1>1, <1>2, Zenon
<1>4. pool - f[a] >= total - f[a]
  BY <1>1
<1>5. Ledger(A, g, total - f[a], pool - f[a])
  BY <1>2, <1>3, <1>4 DEF Ledger
<1> QED
  BY <1>3, <1>5 DEF g

=============================================================================
