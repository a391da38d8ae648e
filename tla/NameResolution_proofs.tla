------------------------ MODULE NameResolution_proofs ------------------------
(***************************************************************************)
(* Proofs about NameResolution, for any accounts, names, lease lengths and *)
(* resolvers: what is proved of the registrar's actions is used again for  *)
(* the calls that are theirs, and extended to the reverse nodes.           *)
(***************************************************************************)
EXTENDS NameResolution, ArcBaseRegistrar_proofs

Data == Addresses \cup Names \cup {Zero}

\* Data has its type, and an address is stored only where a record of its lease is.
DataFits ==
  /\ recordData \in [Nodes -> [Versions -> Data]]
  /\ \A id \in Names : \A v \in Versions :
        recordData[id][v] # Zero => records[id][v] # 0

\* A reverse node is nobody's and has no resolver before its account speaks.
Unspoken ==
  \A a \in Claimants : a \notin spoken =>
     nodeOwner[ReverseNode[a]] = Zero /\ nodeResolver[ReverseNode[a]] = Zero

\* A name that was never registered is nobody's.
Unregistered ==
  \A id \in Names : leaseNo[id] = 0 => tokenOwner[id] = Zero /\ nodeOwner[id] = Zero

ResolutionInv == RecordsInv /\ DataFits /\ Unspoken /\ Unregistered

(***************************************************************************)
(* Facts of one state.                                                     *)
(***************************************************************************)
LEMMA ReverseNodesApart ==
  ASSUME NEW a \in Claimants
  PROVE  /\ a \in Addresses
         /\ ReverseNode[a] \in Nodes /\ ReverseNode[a] \notin Names
         /\ \A b \in Claimants : ReverseNode[a] = ReverseNode[b] => a = b
  BY ReverseAssumption

LEMMA AuthorisedHasOwner ==
  ASSUME RegistrarTypes, NEW caller \in Addresses, NEW node \in Nodes, Authorised(caller, node)
  PROVE  nodeOwner[node] # Zero
  BY ZeroAssumption DEF RegistrarTypes, Authorised

LEMMA ResolutionInitInv == Init => ResolutionInv
<1> SUFFICES ASSUME Init PROVE ResolutionInv
  OBVIOUS
<1>1. RegistrarInit /\ recordData = [n \in Nodes |-> [v \in Versions |-> Zero]]
  BY DEF Init, ResolutionInit
<1>2. RecordsInv
  BY <1>1, RecordsInit
<1>3. DataFits
  BY <1>1, RegistrarAssumption DEF DataFits, Data
<1>4. Unspoken
  BY <1>1, ReverseNodesApart DEF Unspoken, RegistrarInit, RegistryInit
<1>5. Unregistered
  BY <1>1, RegistrarAssumption DEF Unregistered, RegistrarInit, RegistryInit
<1> QED
  BY <1>2, <1>3, <1>4, <1>5 DEF ResolutionInv

(***************************************************************************)
(* A conjunct that a step does not touch.                                  *)
(***************************************************************************)
LEMMA DataSame ==
  ASSUME DataFits, UNCHANGED <<recordData, records>>
  PROVE  DataFits'
  BY DEF DataFits, Versions, Data

LEMMA UnspokenSame ==
  ASSUME Unspoken, UNCHANGED spoken,
         \A a \in Claimants : /\ nodeOwner'[ReverseNode[a]] = nodeOwner[ReverseNode[a]]
                              /\ nodeResolver'[ReverseNode[a]] = nodeResolver[ReverseNode[a]]
  PROVE  Unspoken'
  BY DEF Unspoken

LEMMA UnregisteredSame ==
  ASSUME Unregistered, UNCHANGED <<leaseNo, tokenOwner>>,
         \A id \in Names : nodeOwner'[id] = nodeOwner[id]
  PROVE  Unregistered'
  BY DEF Unregistered

(***************************************************************************)
(* Leases.                                                                 *)
(***************************************************************************)
LEMMA RegisterNameInv ==
  ASSUME ResolutionInv, NEW id \in Names, NEW owner \in Users, NEW d \in Durations,
         NEW target \in Users \cup {Zero}, RegisterName(id, owner, d, target)
  PROVE  ResolutionInv'
<1> DEFINE next == recordVersions[id] + 1
<1>1. /\ Register(Controller, id, owner, d, PublicResolver, target # Zero)
      /\ recordData' = [recordData EXCEPT ![id][next] = target]
      /\ UNCHANGED spoken
  BY DEF RegisterName
<1>2. /\ owner \in Addresses /\ target \in Data /\ d \in Nat /\ id \in Nodes
      /\ Controller \in Addresses /\ PublicResolver \in Resolvers \cup {Zero}
      /\ (target # Zero) \in BOOLEAN
  BY UsersAssumption, RegistrarAssumption, ResolverAssumption DEF Data
<1>3. RecordsInv /\ RegistrarTypes
  BY DEF ResolutionInv, RecordsInv
<1>4. RegistrarTypes'
  BY <1>1, <1>2, <1>3, RegisterTypes
<1>5. RecordsInv'
  BY <1>1, <1>2, <1>3, <1>4, RecordsRegister
<1>6. DataFits'
  <2>1. /\ recordVersions[id] < MaxVersion
        /\ records' = IF target # Zero THEN [records EXCEPT ![id][next] = leaseNo[id] + 1]
                                       ELSE records
    BY <1>1 DEF Register, ResetNode
  <2>2. /\ records \in [Nodes -> [Versions -> Nat]] /\ leaseNo[id] \in Nat
        /\ recordVersions[id] \in 0..MaxVersion
    BY <1>2, <1>3 DEF RegistrarTypes, Versions
  <2>3. next \in Versions
    BY <2>1, <2>2, ResolverAssumption DEF Versions
  <2>4. recordData \in [Nodes -> [Versions -> Data]]
    BY DEF ResolutionInv, DataFits
  <2> HIDE DEF next
  <2>5. recordData' \in [Nodes -> [Versions -> Data]]
    BY <1>1, <1>2, <2>3, <2>4, NestedUpdate, Zenon
  <2>6. ASSUME NEW n \in Names, NEW v \in Versions, recordData'[n][v] # Zero
        PROVE  records'[n][v] # 0
    <3>1. n \in Nodes /\ (recordData[n][v] # Zero => records[n][v] # 0)
      BY RegistrarAssumption DEF ResolutionInv, DataFits
    <3>2. CASE n = id /\ v = next
      <4>1. recordData'[n][v] = target
        BY <1>1, <1>2, <2>3, <2>4, <3>2
      <4>2. records'[n][v] = leaseNo[id] + 1
        BY <1>2, <2>1, <2>2, <2>3, <2>6, <3>2, <4>1
      <4> QED
        BY <2>2, <4>2
    <3>3. CASE ~(n = id /\ v = next)
      <4>1. recordData'[n][v] = recordData[n][v]
        BY <1>1, <1>2, <2>3, <2>4, <3>1, <3>3
      <4>2. records'[n][v] = records[n][v]
        BY <1>2, <2>1, <2>2, <2>3, <3>1, <3>3
      <4> QED
        BY <2>6, <3>1, <4>1, <4>2
    <3> QED
      BY <3>2, <3>3
  <2> QED
    BY <2>5, <2>6 DEF DataFits, Data, Versions
<1>7. Unspoken'
  <2>1. /\ nodeOwner' = [nodeOwner EXCEPT ![id] = owner]
        /\ nodeResolver' = [nodeResolver EXCEPT ![id] = PublicResolver]
    BY <1>1 DEF Register, ResetNode
  <2>2. nodeOwner \in [Nodes -> Addresses \cup {Zero}]
        /\ nodeResolver \in [Nodes -> Resolvers \cup {Zero}]
    BY <1>3 DEF RegistrarTypes
  <2> QED
    BY <1>1, <2>1, <2>2, UnspokenSame, ReverseNodesApart DEF ResolutionInv
<1>8. Unregistered'
  <2>1. /\ nodeOwner' = [nodeOwner EXCEPT ![id] = owner]
        /\ tokenOwner' = [tokenOwner EXCEPT ![id] = owner]
        /\ leaseNo' = [leaseNo EXCEPT ![id] = @ + 1]
    BY <1>1 DEF Register, ResetNode, ReplaceToken
  <2>2. /\ nodeOwner \in [Nodes -> Addresses \cup {Zero}]
        /\ tokenOwner \in [Names -> Addresses \cup {Zero}]
        /\ leaseNo \in [Nodes -> Nat]
    BY <1>3 DEF RegistrarTypes
  <2> QED
    BY <2>1, <2>2, RegistrarAssumption DEF ResolutionInv, Unregistered
<1> QED
  BY <1>5, <1>6, <1>7, <1>8 DEF ResolutionInv

LEMMA RenewNameInv ==
  ASSUME ResolutionInv, NEW id \in Names, NEW d \in Durations, RenewName(id, d)
  PROVE  ResolutionInv'
<1>1. Renew(Controller, id, d) /\ UNCHANGED <<recordData, spoken>>
  BY DEF RenewName
<1>2. RegistrarTypes'
  BY <1>1, RenewTypes, RegistrarAssumption DEF ResolutionInv, RecordsInv
<1>3. UNCHANGED <<tokenOwner, leaseNo, nodeOwner, nodeResolver, nodeTTL, recordVersions, records>>
  BY <1>1 DEF Renew, historyVars, registryVars, resolverVars
<1> QED
  BY <1>1, <1>2, <1>3, RecordsSame, DataSame, UnspokenSame, UnregisteredSame DEF ResolutionInv

\* A step that changes nothing but the owner of one name, whose token or node the
\* caller controls: a transfer of the token, or of the node.
LEMMA OwnerOfNameInv ==
  ASSUME ResolutionInv, RegistrarTypes', NEW id \in Names, leaseNo[id] # 0,
         \A n \in Nodes : n # id => nodeOwner'[n] = nodeOwner[n],
         \A n \in Names : n # id => tokenOwner'[n] = tokenOwner[n],
         UNCHANGED <<leaseNo, nodeResolver, nodeTTL, recordVersions, records, recordData, spoken>>
  PROVE  ResolutionInv'
<1>1. Unspoken'
  BY UnspokenSame, ReverseNodesApart DEF ResolutionInv
<1>2. Unregistered'
  BY RegistrarAssumption DEF ResolutionInv, Unregistered
<1> QED
  BY <1>1, <1>2, RecordsSame, DataSame DEF ResolutionInv

LEMMA TransferNameInv ==
  ASSUME ResolutionInv, NEW caller \in Users, NEW to \in Users, NEW id \in Names,
         TransferName(caller, to, id)
  PROVE  ResolutionInv'
<1>1. TransferFrom(caller, to, id) /\ UNCHANGED <<recordData, spoken>>
  BY DEF TransferName
<1>2. /\ RegistrarTypes /\ to \in Addresses
      /\ nodeOwner \in [Nodes -> Addresses \cup {Zero}]
      /\ tokenOwner \in [Names -> Addresses \cup {Zero}]
  BY UsersAssumption DEF ResolutionInv, RecordsInv, RegistrarTypes
<1>3. RegistrarTypes'
  BY <1>1, <1>2, TransferTypes
<1>4. /\ nodeOwner' = [nodeOwner EXCEPT ![id] = to]
      /\ tokenOwner' = [tokenOwner EXCEPT ![id] = to]
      /\ UNCHANGED <<leaseNo, nodeResolver, nodeTTL, recordVersions, records>>
      /\ tokenOwner[id] # Zero
  BY <1>1 DEF TransferFrom, Exists, resolverVars
<1>5. leaseNo[id] # 0
  BY <1>4 DEF ResolutionInv, Unregistered
<1> QED
  BY <1>1, <1>2, <1>3, <1>4, <1>5, OwnerOfNameInv, Zenon

LEMMA ReclaimNameInv ==
  ASSUME ResolutionInv, NEW caller \in Users, NEW a \in Users, NEW id \in Names,
         ReclaimName(caller, id, a)
  PROVE  ResolutionInv'
<1>1. Reclaim(caller, id, a) /\ UNCHANGED <<recordData, spoken>>
  BY DEF ReclaimName
<1>2. /\ RegistrarTypes /\ a \in Addresses \cup {Zero}
      /\ nodeOwner \in [Nodes -> Addresses \cup {Zero}]
  BY UsersAssumption DEF ResolutionInv, RecordsInv, RegistrarTypes
<1>3. RegistrarTypes'
  BY <1>1, <1>2, ReclaimTypes
<1>4. /\ nodeOwner' = [nodeOwner EXCEPT ![id] = a]
      /\ UNCHANGED <<tokenOwner, leaseNo, nodeResolver, nodeTTL, recordVersions, records>>
      /\ tokenOwner[id] # Zero
  BY <1>1 DEF Reclaim, Exists, resolverVars, tokenVars
<1>5. leaseNo[id] # 0
  BY <1>4 DEF ResolutionInv, Unregistered
<1> QED
  BY <1>1, <1>2, <1>3, <1>4, <1>5, OwnerOfNameInv, Zenon

(***************************************************************************)
(* Nodes and records.                                                      *)
(***************************************************************************)

\* Whoever may act on a node is its owner or the owner's operator, so the node of
\* a name was registered and the account of a reverse node has spoken.
LEMMA AuthorisedNode ==
  ASSUME ResolutionInv, NEW caller \in Users, NEW node \in Nodes, Authorised(caller, node)
  PROVE  /\ node \in Names => leaseNo[node] # 0
         /\ \A a \in Claimants : ReverseNode[a] = node => a \in spoken
<1>1. nodeOwner[node] # Zero
  BY AuthorisedHasOwner, UsersAssumption DEF ResolutionInv, RecordsInv
<1> QED
  BY <1>1 DEF ResolutionInv, Unregistered, Unspoken

LEMMA NodeSetOwnerInv ==
  ASSUME ResolutionInv, NEW caller \in Users, NEW node \in Nodes, NEW a \in Users,
         NodeSetOwner(caller, node, a)
  PROVE  ResolutionInv'
<1>1. /\ Authorised(caller, node)
      /\ nodeOwner' = [nodeOwner EXCEPT ![node] = a]
      /\ UNCHANGED <<tokenOwner, leaseNo, nodeResolver, nodeTTL, recordVersions, records>>
      /\ UNCHANGED <<recordData, spoken>>
  BY DEF NodeSetOwner, SetNodeOwner, SetOwner, registrarVars, tokenVars, historyVars,
         resolverVars
<1>2. /\ RegistrarTypes /\ a \in Addresses
      /\ nodeOwner \in [Nodes -> Addresses \cup {Zero}]
  BY UsersAssumption DEF ResolutionInv, RecordsInv, RegistrarTypes
<1>3. RegistrarTypes'
  <2>1. CASE node \in Names
    BY <1>2, <2>1, ReclaimTypes DEF NodeSetOwner
  <2>2. CASE node \notin Names
    <3>1. nodeOwner' \in [Nodes -> Addresses \cup {Zero}]
      BY <1>1, <1>2
    <3> QED
      BY <1>2, <2>2, <3>1
      DEF NodeSetOwner, SetOwner, RegistrarTypes, registrarVars, tokenVars, historyVars,
          resolverVars
  <2> QED
    BY <2>1, <2>2
<1>4. CASE node \in Names
  <2>1. leaseNo[node] # 0
    BY <1>1, <1>4, AuthorisedNode
  <2> QED
    BY <1>1, <1>2, <1>3, <1>4, <2>1, OwnerOfNameInv, Zenon
<1>5. CASE node \notin Names
  <2>1. Unregistered'
    BY <1>1, <1>2, <1>5, UnregisteredSame, RegistrarAssumption DEF ResolutionInv
  <2>2. Unspoken'
    <3>1. \A b \in Claimants : ReverseNode[b] = node => b \in spoken
      BY <1>1, AuthorisedNode
    <3> QED
      BY <1>1, <1>2, <3>1, ReverseNodesApart DEF ResolutionInv, Unspoken
  <2> QED
    BY <1>1, <1>3, <2>1, <2>2, RecordsSame, DataSame DEF ResolutionInv
<1> QED
  BY <1>4, <1>5

LEMMA NodeSetResolverInv ==
  ASSUME ResolutionInv, NEW caller \in Users, NEW node \in Nodes,
         NEW r \in Resolvers \cup {Zero}, NodeSetResolver(caller, node, r)
  PROVE  ResolutionInv'
<1>1. /\ SetResolver(caller, node, r)
      /\ UNCHANGED <<registrarVars, resolverVars, recordData, spoken>>
  BY DEF NodeSetResolver
<1>2. NodeCall(caller, node)
  BY <1>1 DEF NodeCall, registrarVars, resolverVars
<1>3. RegistrarTypes' /\ RecordsInv'
  BY <1>2, NodeCallTypes, RecordsNodeCall DEF ResolutionInv, RecordsInv
<1>4. /\ Authorised(caller, node) /\ nodeResolver' = [nodeResolver EXCEPT ![node] = r]
      /\ UNCHANGED <<nodeOwner, tokenOwner, leaseNo, records>>
  BY <1>1 DEF SetResolver, registrarVars, tokenVars, historyVars, resolverVars
<1>5. nodeResolver \in [Nodes -> Resolvers \cup {Zero}]
  BY DEF ResolutionInv, RecordsInv, RegistrarTypes
<1>6. Unspoken'
  <2>1. \A b \in Claimants : ReverseNode[b] = node => b \in spoken
    BY <1>4, AuthorisedNode
  <2> QED
    BY <1>1, <1>4, <1>5, <2>1, ReverseNodesApart DEF ResolutionInv, Unspoken
<1> QED
  BY <1>1, <1>3, <1>4, <1>6, DataSame, UnregisteredSame DEF ResolutionInv

\* A call that leaves owners, resolvers and data alone.
LEMMA QuietNodeCallInv ==
  ASSUME ResolutionInv, NEW caller \in Users, NEW node \in Nodes, NodeCall(caller, node),
         UNCHANGED <<nodeOwner, nodeResolver, tokenOwner, leaseNo, records, recordData, spoken>>
  PROVE  ResolutionInv'
<1>1. RecordsInv'
  BY NodeCallTypes, RecordsNodeCall DEF ResolutionInv, RecordsInv
<1> QED
  BY <1>1, DataSame, UnspokenSame, UnregisteredSame DEF ResolutionInv

LEMMA NodeSetTTLInv ==
  ASSUME ResolutionInv, NEW caller \in Users, NEW node \in Nodes, NodeSetTTL(caller, node)
  PROVE  ResolutionInv'
<1>1. /\ SetTTL(caller, node, leaseNo[node])
      /\ UNCHANGED <<registrarVars, resolverVars, recordData, spoken>>
  BY DEF NodeSetTTL
<1>2. NodeCall(caller, node)
  BY <1>1 DEF NodeCall, registrarVars, resolverVars
<1> QED
  BY <1>1, <1>2, QuietNodeCallInv
  DEF SetTTL, registrarVars, tokenVars, historyVars, resolverVars

LEMMA ClearNodeInv ==
  ASSUME ResolutionInv, NEW caller \in Users, NEW node \in Nodes, ClearNode(caller, node)
  PROVE  ResolutionInv'
<1>1. ClearRecords(caller, node) /\ UNCHANGED <<registrarVars, recordData, spoken>>
  BY DEF ClearNode
<1>2. NodeCall(caller, node)
  BY <1>1 DEF NodeCall, registrarVars
<1> QED
  BY <1>1, <1>2, QuietNodeCallInv
  DEF ClearRecords, registrarVars, tokenVars, historyVars, registryVars

\* A record written by whoever may act on the node: of a name, with the lease.
LEMMA StoreInv ==
  ASSUME ResolutionInv, NEW caller \in Users, NEW node \in Nodes, NEW value \in Data,
         SetRecord(caller, node, leaseNo[node]), UNCHANGED <<registrarVars, spoken>>,
         recordData' = [recordData EXCEPT ![node][recordVersions[node]] = value]
  PROVE  ResolutionInv'
<1> DEFINE version == recordVersions[node]
<1>1. /\ records' = [records EXCEPT ![node][version] = leaseNo[node]]
      /\ Authorised(caller, node)
      /\ UNCHANGED <<nodeOwner, nodeResolver, tokenOwner, leaseNo>>
  BY DEF SetRecord, registryVars, registrarVars, tokenVars, historyVars
<1>2. NodeCall(caller, node)
  BY DEF NodeCall
<1>3. RecordsInv'
  BY <1>2, NodeCallTypes, RecordsNodeCall DEF ResolutionInv, RecordsInv
<1>4. DataFits'
  <2>1. /\ records \in [Nodes -> [Versions -> Nat]]
        /\ version \in Versions
        /\ recordData \in [Nodes -> [Versions -> Data]]
    BY DEF ResolutionInv, RecordsInv, RegistrarTypes, DataFits
  <2>2. recordData' \in [Nodes -> [Versions -> Data]]
    BY <2>1, NestedUpdate, Zenon
  <2>3. ASSUME NEW n \in Names, NEW v \in Versions, recordData'[n][v] # Zero
        PROVE  records'[n][v] # 0
    <3>1. n \in Nodes /\ (recordData[n][v] # Zero => records[n][v] # 0)
      BY RegistrarAssumption DEF ResolutionInv, DataFits
    <3>2. CASE n = node /\ v = version
      <4>1. leaseNo[node] # 0
        BY <1>1, <3>2, AuthorisedNode
      <4> QED
        BY <1>1, <2>1, <3>2, <4>1
    <3>3. CASE ~(n = node /\ v = version)
      <4> HIDE DEF version
      <4>1. records'[n][v] = records[n][v]
        BY <1>1, <2>1, <3>1, <3>3
      <4> USE DEF version
      <4>2. recordData'[n][v] = recordData[n][v]
        BY <2>1, <3>1, <3>3
      <4> QED
        BY <2>3, <3>1, <4>1, <4>2
    <3> QED
      BY <3>2, <3>3
  <2> QED
    BY <2>2, <2>3 DEF DataFits, Data, Versions
<1> QED
  BY <1>1, <1>3, <1>4, UnspokenSame, UnregisteredSame DEF ResolutionInv

LEMMA SetAddressInv ==
  ASSUME ResolutionInv, NEW caller \in Users, NEW id \in Names,
         NEW target \in Users \cup {Zero}, SetAddress(caller, id, target)
  PROVE  ResolutionInv'
  BY StoreInv, UsersAssumption, RegistrarAssumption DEF SetAddress, Data

LEMMA StoreNameInv ==
  ASSUME ResolutionInv, NEW caller \in Users, NEW node \in ReverseNodes,
         NEW name \in Names \cup {Zero}, StoreName(caller, node, name)
  PROVE  ResolutionInv'
  BY StoreInv, ReverseNodesApart DEF StoreName, ReverseNodes, Data

(***************************************************************************)
(* The reverse registrar.                                                  *)
(***************************************************************************)

\* A step of the reverse registrar changes the caller's reverse node only.
LEMMA ReverseInv ==
  ASSUME ResolutionInv, RegistrarTypes', NEW caller \in Claimants, DataFits',
         spoken' = spoken \cup {caller},
         \A n \in Nodes : n # ReverseNode[caller] =>
            nodeOwner'[n] = nodeOwner[n] /\ nodeResolver'[n] = nodeResolver[n],
         UNCHANGED <<leaseNo, tokenOwner, nodeTTL, recordVersions, records>>
  PROVE  ResolutionInv'
<1>1. Unspoken'
  BY ReverseNodesApart DEF ResolutionInv, Unspoken
<1>2. Unregistered'
  BY UnregisteredSame, RegistrarAssumption, ReverseNodesApart DEF ResolutionInv
<1> QED
  BY <1>1, <1>2, RecordsSame DEF ResolutionInv

LEMMA ClaimReverseInv ==
  ASSUME ResolutionInv, NEW caller \in Users, NEW a \in Users, ClaimReverse(caller, a)
  PROVE  ResolutionInv'
<1>1. Claim(caller, a)
  BY DEF ClaimReverse
<1>2. /\ RegistrarTypes /\ a \in Addresses
      /\ nodeOwner \in [Nodes -> Addresses \cup {Zero}]
      /\ caller \in Claimants /\ ReverseNode[caller] \in Nodes
  BY <1>1, UsersAssumption, ReverseAssumption
  DEF Claim, ResolutionInv, RecordsInv, RegistrarTypes
<1>3. /\ nodeOwner' = [nodeOwner EXCEPT ![ReverseNode[caller]] = a]
      /\ spoken' = spoken \cup {caller}
      /\ UNCHANGED <<leaseNo, tokenOwner, nodeTTL, nodeResolver, recordVersions, records,
                     recordData>>
  BY <1>1 DEF Claim, registrarVars, tokenVars, historyVars, resolverVars
<1>4. RegistrarTypes'
  <2>1. nodeOwner' \in [Nodes -> Addresses \cup {Zero}]
    BY <1>2, <1>3
  <2> QED
    BY <1>1, <1>2, <2>1
    DEF Claim, RegistrarTypes, registrarVars, tokenVars, historyVars, resolverVars
<1>5. DataFits'
  BY <1>3, DataSame DEF ResolutionInv
<1> QED
  BY <1>2, <1>3, <1>4, <1>5, ReverseInv

LEMMA SetPrimaryNameInv ==
  ASSUME ResolutionInv, NEW caller, NEW name \in Names, SetPrimaryName(caller, name)
  PROVE  ResolutionInv'
<1> DEFINE node == ReverseNode[caller]
<1>1. /\ nodeOwner' = [nodeOwner EXCEPT ![node] = caller]
      /\ nodeResolver' = [nodeResolver EXCEPT ![node] = PublicResolver]
      /\ recordData' = [recordData EXCEPT ![node][recordVersions[node]] = name]
      /\ spoken' = spoken \cup {caller}
      /\ caller \in Claimants
      /\ UNCHANGED <<registrarVars, nodeTTL, nodeOperators, resolverVars>>
  BY DEF SetPrimaryName
<1>2. /\ RegistrarTypes /\ caller \in Addresses
      /\ node \in Nodes /\ node \notin Names
      /\ nodeOwner \in [Nodes -> Addresses \cup {Zero}]
      /\ nodeResolver \in [Nodes -> Resolvers \cup {Zero}]
      /\ recordVersions[node] \in Versions
      /\ recordData \in [Nodes -> [Versions -> Data]]
      /\ name \in Data
  BY <1>1, ReverseNodesApart DEF ResolutionInv, RecordsInv, RegistrarTypes, DataFits, Data
<1>3. UNCHANGED <<leaseNo, tokenOwner, nodeTTL, recordVersions, records>>
  BY <1>1 DEF registrarVars, tokenVars, historyVars, resolverVars
<1>4. RegistrarTypes'
  <2>1. /\ nodeOwner' \in [Nodes -> Addresses \cup {Zero}]
        /\ nodeResolver' \in [Nodes -> Resolvers \cup {Zero}]
    BY <1>1, <1>2, ResolverAssumption
  <2> QED
    BY <1>1, <1>2, <2>1
    DEF RegistrarTypes, registrarVars, tokenVars, historyVars, resolverVars
<1> HIDE DEF node
<1>5. DataFits'
  <2>1. recordData' \in [Nodes -> [Versions -> Data]]
    BY <1>1, <1>2, NestedUpdate, Zenon
  <2>2. \A id \in Names : recordData'[id] = recordData[id]
    BY <1>1, <1>2, RegistrarAssumption
  <2> QED
    BY <1>3, <2>1, <2>2 DEF ResolutionInv, DataFits, Data, Versions
<1>6. \A n \in Nodes : n # node =>
         nodeOwner'[n] = nodeOwner[n] /\ nodeResolver'[n] = nodeResolver[n]
  BY <1>1, <1>2
<1> QED
  BY <1>1, <1>3, <1>4, <1>5, <1>6, ReverseInv DEF node

(***************************************************************************)
(* Every step.                                                             *)
(***************************************************************************)
LEMMA SameInv ==
  ASSUME ResolutionInv, RegistrarTypes',
         UNCHANGED <<tokenOwner, leaseNo, registryVars, resolverVars, recordData, spoken>>
  PROVE  ResolutionInv'
  BY RecordsSame, DataSame, UnspokenSame, UnregisteredSame
  DEF ResolutionInv, registryVars, resolverVars

LEMMA ResolutionNextInv == ResolutionInv /\ [Next]_resolutionVars => ResolutionInv'
<1> SUFFICES ASSUME ResolutionInv, [Next]_resolutionVars
             PROVE  ResolutionInv'
  OBVIOUS
<1>1. ASSUME NEW caller \in Users, NEW id \in Names, LeaseCall(caller, id)
      PROVE  ResolutionInv'
  BY <1>1, RegisterNameInv, RenewNameInv, TransferNameInv, ReclaimNameInv DEF LeaseCall
<1>2. ASSUME NEW caller \in Users, NEW node \in Nodes, NodeOwnerCall(caller, node)
      PROVE  ResolutionInv'
  BY <1>2, NodeSetOwnerInv, NodeSetResolverInv, NodeSetTTLInv, ClearNodeInv DEF NodeOwnerCall
<1>3. ASSUME NEW caller \in Users, RecordCall(caller)
      PROVE  ResolutionInv'
  BY <1>3, SetAddressInv, StoreNameInv DEF RecordCall
<1>4. ASSUME NEW caller \in Users, ReverseCall(caller)
      PROVE  ResolutionInv'
  BY <1>4, ClaimReverseInv, SetPrimaryNameInv DEF ReverseCall, SetReverseName
<1>5. CASE TimePasses
  <2>1. RegistrarTypes'
    BY <1>5, TickTypes DEF TimePasses, ResolutionInv, RecordsInv
  <2> QED
    BY <1>5, <2>1, SameInv DEF TimePasses, Tick, tokenVars, historyVars
<1>6. CASE UNCHANGED resolutionVars
  <2>1. RegistrarTypes'
    BY <1>6 DEF resolutionVars, nameVars, ResolutionInv, RecordsInv, RegistrarTypes,
                registrarVars, tokenVars, historyVars, registryVars, resolverVars
  <2> QED
    BY <1>6, <2>1, SameInv DEF resolutionVars, nameVars, registrarVars, tokenVars, historyVars
<1> QED
  BY <1>1, <1>2, <1>3, <1>4, <1>5, <1>6 DEF Next

LEMMA ResolutionInvariance == Spec => []ResolutionInv
  BY ResolutionInitInv, ResolutionNextInv, PTL DEF Spec

(***************************************************************************)
(* Theorems.                                                               *)
(***************************************************************************)

\* A primary name is never somebody else's word: the account has called the reverse
\* registrar, and the address the public resolver answers with was written in the
\* lease that runs now, for any number of accounts, names and record versions.
THEOREM PrimaryNamesAreBacked == Spec => []PrimaryNameIsBacked
<1>1. ResolutionInv => PrimaryNameIsBacked
  <2> SUFFICES ASSUME ResolutionInv, NEW a \in Claimants, NEW n \in PrimaryNames(a)
               PROVE  /\ a \in spoken
                      /\ nodeResolver[n] = PublicResolver => VisibleRecord(n) = leaseNo[n]
    BY DEF PrimaryNameIsBacked
  <2>1. /\ n \in Names
        /\ n \in Answers(nodeResolver[ReverseNode[a]], ReverseNode[a])
        /\ a \in Answers(nodeResolver[n], n)
    BY DEF PrimaryNames, ForwardConfirmed
  <2>2. a \in spoken
    <3>1. nodeResolver[ReverseNode[a]] # Zero
      BY <2>1, ZeroAssumption, ResolverAssumption DEF Answers
    <3> QED
      BY <3>1 DEF ResolutionInv, Unspoken
  <2>3. ASSUME nodeResolver[n] = PublicResolver
        PROVE  VisibleRecord(n) = leaseNo[n]
    <3>1. a = recordData[n][recordVersions[n]] /\ a # Zero
      BY <2>1, <2>3, ReverseNodesApart, ZeroAssumption DEF Answers, PublicData
    <3>2. recordVersions[n] \in Versions
      BY <2>1, RegistrarAssumption DEF ResolutionInv, RecordsInv, RegistrarTypes
    <3>3. records[n][recordVersions[n]] # 0
      BY <2>1, <3>1, <3>2 DEF ResolutionInv, DataFits
    <3> QED
      BY <2>1, <3>3 DEF ResolutionInv, RecordsInv, VisibleRecord
  <2> QED
    BY <2>2, <2>3
<1> QED
  BY <1>1, ResolutionInvariance, PTL

\* After setName the account has this primary name and no other, whoever owned its
\* reverse node before and whatever resolver and records it was left with.
THEOREM SetNameWorks == Spec => SetNameTakesEffect
<1>1. ASSUME ResolutionInv, NEW a \in Claimants, NEW n \in Names, SetPrimaryName(a, n)
      PROVE  PrimaryNames(a)' = {n}
  <2> DEFINE node == ReverseNode[a]
  <2>1. /\ node \in Nodes /\ node \notin Names /\ n \in Nodes
        /\ nodeResolver \in [Nodes -> Resolvers \cup {Zero}]
        /\ recordVersions[node] \in Versions
        /\ recordData \in [Nodes -> [Versions -> Data]]
    BY <1>1, ReverseNodesApart, RegistrarAssumption
    DEF ResolutionInv, RecordsInv, RegistrarTypes, DataFits
  <2>2. /\ nodeResolver' = [nodeResolver EXCEPT ![node] = PublicResolver]
        /\ recordData' = [recordData EXCEPT ![node][recordVersions[node]] = n]
        /\ UNCHANGED <<now, nameExpires, recordVersions>>
        /\ IsActive(n) /\ a \in Answers(nodeResolver[n], n)
    BY <1>1 DEF SetPrimaryName, ForwardConfirmed, registrarVars, tokenVars, resolverVars
  <2> HIDE DEF node
  <2>3. nodeResolver'[node] = PublicResolver /\ PublicData(node)' = n
    BY <2>1, <2>2 DEF PublicData
  <2>4. Answers(nodeResolver[node], node)' = {n}
    BY <2>3 DEF Answers
  <2>5. ForwardConfirmed(a, n)'
    <3>1. nodeResolver'[n] = nodeResolver[n] /\ PublicData(n)' = PublicData(n)
      BY <2>1, <2>2 DEF PublicData
    <3>2. (a \in Answers(nodeResolver[n], n))'
      BY <2>2, <3>1 DEF Answers
    <3>3. IsActive(n)'
      BY <2>2 DEF IsActive
    <3> QED
      BY <3>2, <3>3 DEF ForwardConfirmed
  <2> QED
    BY <2>4, <2>5 DEF PrimaryNames, node
<1>2. ResolutionInv => [\A a \in Claimants, n \in Names :
                          SetPrimaryName(a, n) => PrimaryNames(a)' = {n}]_<<nameVars, recordData, spoken>>
  BY <1>1
<1> QED
  BY <1>2, ResolutionInvariance, PTL DEF SetNameTakesEffect


(***************************************************************************)
(* The index.  What one handler makes of one entry; then what the handlers *)
(* of a transaction make of it; then that this is what the contracts did.  *)
(***************************************************************************)

\* Whatever a handler may write into a field.
Shown == Addresses \cup Resolvers \cup {Zero, RegistrarAddress, ReverseAddress} \cup Nat

Domain ==
  [owner : Shown, registrant : Shown, expiryDate : Shown,
   ttl : Shown, resolver : Shown, resolvedAddress : Shown]

Entities ==
  [domains : [Nodes -> Domain],
   registrations : [Names -> [registrant : Shown, expiryDate : Shown]],
   resolvers : [Nodes -> Shown]]

\* From ix to new, nothing but the entities of one node has changed.
Touches(ix, new, node) ==
  /\ new \in Entities
  /\ \A n \in Nodes \ {node} : /\ new.domains[n] = ix.domains[n]
                              /\ new.resolvers[n] = ix.resolvers[n]
  /\ \A id \in Names \ {node} : new.registrations[id] = ix.registrations[id]

\* The entities of a node that are no domain are unchanged.
DomainOnly(ix, new, node) ==
  /\ Touches(ix, new, node)
  /\ new.resolvers = ix.resolvers /\ new.registrations = ix.registrations

LEMMA NewOwnerHandled ==
  ASSUME NEW ix \in Entities, NEW node \in Nodes, NEW owner \in Shown,
         NEW new, new = HandleNewOwner(ix, node, owner)
  PROVE  /\ DomainOnly(ix, new, node)
         /\ new.domains[node] = [ix.domains[node] EXCEPT !.owner = owner]
<1>1. Zero \in Shown /\ PublicResolver \in Shown
  BY ResolverAssumption DEF Shown
<1>2. [ix.domains[node] EXCEPT !.owner = owner] \in Domain
  BY <1>1 DEF Entities, Domain
<1> QED
  BY <1>1, <1>2 DEF HandleNewOwner, DomainOnly, Touches, Entities, Domain

LEMMA TransferHandled ==
  ASSUME NEW ix \in Entities, NEW node \in Nodes, NEW owner \in Shown,
         NEW new, new = HandleRegistryTransfer(ix, node, owner)
  PROVE  /\ DomainOnly(ix, new, node)
         /\ new.domains[node] = [ix.domains[node] EXCEPT !.owner = owner]
<1>1. Zero \in Shown /\ PublicResolver \in Shown
  BY ResolverAssumption DEF Shown
<1>2. [ix.domains[node] EXCEPT !.owner = owner] \in Domain
  BY <1>1 DEF Entities, Domain
<1> QED
  BY <1>1, <1>2 DEF HandleRegistryTransfer, DomainOnly, Touches, Entities, Domain

LEMMA NewResolverHandled ==
  ASSUME NEW ix \in Entities, NEW node \in Nodes, NEW resolver \in Shown,
         NEW new, new = HandleNewResolver(ix, node, resolver)
  PROVE  /\ DomainOnly(ix, new, node)
         /\ new.domains[node].owner = ix.domains[node].owner
         /\ new.domains[node].registrant = ix.domains[node].registrant
         /\ new.domains[node].expiryDate = ix.domains[node].expiryDate
         /\ new.domains[node].ttl = ix.domains[node].ttl
         /\ new.domains[node].resolver = resolver
         /\ new.domains[node].resolvedAddress = Zero
<1>1. Zero \in Shown /\ PublicResolver \in Shown
  BY ResolverAssumption DEF Shown
<1> DEFINE shown == [owner |-> ix.domains[node].owner, registrant |-> ix.domains[node].registrant,
                    expiryDate |-> ix.domains[node].expiryDate, ttl |-> ix.domains[node].ttl,
                    resolver |-> resolver, resolvedAddress |-> Zero]
<1>2. shown \in Domain
  BY <1>1 DEF Entities, Domain
<1> QED
  BY <1>1, <1>2 DEF HandleNewResolver, DomainOnly, Touches, Entities, Domain

LEMMA NewTTLHandled ==
  ASSUME NEW ix \in Entities, NEW node \in Nodes, NEW ttl \in Shown,
         NEW new, new = HandleNewTTL(ix, node, ttl)
  PROVE  /\ DomainOnly(ix, new, node)
         /\ new.domains[node] = [ix.domains[node] EXCEPT !.ttl = ttl]
<1>1. Zero \in Shown /\ PublicResolver \in Shown
  BY ResolverAssumption DEF Shown
<1>2. [ix.domains[node] EXCEPT !.ttl = ttl] \in Domain
  BY <1>1 DEF Entities, Domain
<1> QED
  BY <1>1, <1>2 DEF HandleNewTTL, DomainOnly, Touches, Entities, Domain

LEMMA AddrChangedHandled ==
  ASSUME NEW ix \in Entities, NEW node \in Nodes, NEW addr \in Shown,
         NEW new, new = HandleAddrChanged(ix, node, addr)
  PROVE  /\ Touches(ix, new, node)
         /\ new.domains[node].owner = ix.domains[node].owner
         /\ new.domains[node].registrant = ix.domains[node].registrant
         /\ new.domains[node].expiryDate = ix.domains[node].expiryDate
         /\ new.domains[node].ttl = ix.domains[node].ttl
         /\ new.domains[node].resolver = PublicResolver
         /\ new.domains[node].resolvedAddress = addr
         /\ new.resolvers[node] = addr
         /\ new.registrations = ix.registrations
<1>1. Zero \in Shown /\ PublicResolver \in Shown
  BY ResolverAssumption DEF Shown
<1> DEFINE shown == [owner |-> ix.domains[node].owner, registrant |-> ix.domains[node].registrant,
                    expiryDate |-> ix.domains[node].expiryDate, ttl |-> ix.domains[node].ttl,
                    resolver |-> PublicResolver, resolvedAddress |-> addr]
<1>2. shown \in Domain
  BY <1>1 DEF Entities, Domain
<1> QED
  BY <1>1, <1>2 DEF HandleAddrChanged, DomainOnly, Touches, Entities, Domain

LEMMA VersionChangedHandled ==
  ASSUME NEW ix \in Entities, NEW node \in Nodes,
         NEW new, new = HandleVersionChanged(ix, node)
  PROVE  /\ Touches(ix, new, node)
         /\ new.domains[node] = [ix.domains[node] EXCEPT !.resolvedAddress = Zero]
         /\ new.resolvers[node] = Zero
         /\ new.registrations = ix.registrations
<1>1. Zero \in Shown /\ PublicResolver \in Shown
  BY ResolverAssumption DEF Shown
<1>2. [ix.domains[node] EXCEPT !.resolvedAddress = Zero] \in Domain
  BY <1>1 DEF Entities, Domain
<1> QED
  BY <1>1, <1>2 DEF HandleVersionChanged, DomainOnly, Touches, Entities, Domain

LEMMA TokenTransferHandled ==
  ASSUME NEW ix \in Entities, NEW id \in Names, NEW to \in Shown,
         NEW new, new = HandleRegistrarTransfer(ix, id, to)
  PROVE  /\ Touches(ix, new, id)
         /\ new.domains[id] = [ix.domains[id] EXCEPT !.registrant = to]
         /\ new.resolvers = ix.resolvers
         /\ new.registrations[id].expiryDate = ix.registrations[id].expiryDate
         /\ new.registrations[id].registrant =
              IF ix.registrations[id].expiryDate = 0 THEN ix.registrations[id].registrant ELSE to
<1>1. id \in Nodes
  BY RegistrarAssumption
<1>2. /\ [ix.domains[id] EXCEPT !.registrant = to] \in Domain
      /\ [ix.registrations[id] EXCEPT !.registrant = to] \in [registrant : Shown, expiryDate : Shown]
  BY <1>1 DEF Entities, Domain
<1>3. CASE ix.registrations[id].expiryDate = 0
  BY <1>1, <1>2, <1>3 DEF HandleRegistrarTransfer, Touches, Entities, Domain
<1>4. CASE ix.registrations[id].expiryDate # 0
  BY <1>1, <1>2, <1>4 DEF HandleRegistrarTransfer, Touches, Entities, Domain
<1> QED
  BY <1>3, <1>4

LEMMA BaseRegisteredHandled ==
  ASSUME NEW ix \in Entities, NEW id \in Names, NEW owner \in Shown, NEW expires \in Shown,
         NEW new, new = HandleBaseNameRegistered(ix, id, owner, expires)
  PROVE  /\ DomainOnly(ix, new, id)
         /\ new.domains[id].owner = ix.domains[id].owner
         /\ new.domains[id].registrant = owner
         /\ new.domains[id].expiryDate = expires
         /\ new.domains[id].ttl = ix.domains[id].ttl
         /\ new.domains[id].resolver = ix.domains[id].resolver
         /\ new.domains[id].resolvedAddress = ix.domains[id].resolvedAddress
<1>1. id \in Nodes /\ Zero \in Shown
  BY RegistrarAssumption DEF Shown
<1> DEFINE shown == [owner |-> ix.domains[id].owner, registrant |-> owner,
                    expiryDate |-> expires, ttl |-> ix.domains[id].ttl,
                    resolver |-> ix.domains[id].resolver,
                    resolvedAddress |-> ix.domains[id].resolvedAddress]
<1>2. shown \in Domain
  BY <1>1 DEF Entities, Domain
<1> QED
  BY <1>1, <1>2 DEF HandleBaseNameRegistered, DomainOnly, Touches, Entities, Domain

LEMMA BaseRenewedHandled ==
  ASSUME NEW ix \in Entities, NEW id \in Names, NEW expires \in Shown,
         NEW new, new = HandleBaseNameRenewed(ix, id, expires)
  PROVE  /\ DomainOnly(ix, new, id)
         /\ new.domains[id] = [ix.domains[id] EXCEPT !.expiryDate = expires]
<1>1. id \in Nodes /\ Zero \in Shown
  BY RegistrarAssumption DEF Shown
<1>2. [ix.domains[id] EXCEPT !.expiryDate = expires] \in Domain
  BY <1>1 DEF Entities, Domain
<1> QED
  BY <1>1, <1>2 DEF HandleBaseNameRenewed, DomainOnly, Touches, Entities, Domain

LEMMA RegisteredHandled ==
  ASSUME NEW ix \in Entities, NEW id \in Names, NEW owner \in Shown, NEW expires \in Shown,
         NEW new, new = HandleControllerNameRegistered(ix, id, owner, expires)
  PROVE  /\ Touches(ix, new, id)
         /\ new.domains[id].owner = ix.domains[id].owner
         /\ new.domains[id].registrant = owner
         /\ new.domains[id].expiryDate = expires
         /\ new.domains[id].ttl = ix.domains[id].ttl
         /\ new.domains[id].resolver = ix.domains[id].resolver
         /\ new.domains[id].resolvedAddress = ix.domains[id].resolvedAddress
         /\ new.resolvers = ix.resolvers
         /\ new.registrations[id] = [registrant |-> owner, expiryDate |-> expires]
<1>1. id \in Nodes /\ Zero \in Shown
  BY RegistrarAssumption DEF Shown
<1> DEFINE shown == [owner |-> ix.domains[id].owner, registrant |-> owner,
                    expiryDate |-> expires, ttl |-> ix.domains[id].ttl,
                    resolver |-> ix.domains[id].resolver,
                    resolvedAddress |-> ix.domains[id].resolvedAddress]
<1>2. shown \in Domain
  BY <1>1 DEF Entities, Domain
<1> QED
  BY <1>1, <1>2 DEF HandleControllerNameRegistered, DomainOnly, Touches, Entities, Domain

LEMMA RenewedHandled ==
  ASSUME NEW ix \in Entities, NEW id \in Names, NEW expires \in Shown,
         NEW new, new = HandleControllerNameRenewed(ix, id, expires)
  PROVE  /\ Touches(ix, new, id)
         /\ new.domains[id] = [ix.domains[id] EXCEPT !.expiryDate = expires]
         /\ new.resolvers = ix.resolvers
         /\ new.registrations[id].registrant = ix.registrations[id].registrant
         /\ new.registrations[id].expiryDate =
              IF ix.registrations[id].expiryDate = 0 THEN ix.registrations[id].expiryDate ELSE expires
<1>1. id \in Nodes
  BY RegistrarAssumption
<1>2. /\ [ix.domains[id] EXCEPT !.expiryDate = expires] \in Domain
      /\ [ix.registrations[id] EXCEPT !.expiryDate = expires]
           \in [registrant : Shown, expiryDate : Shown]
  BY <1>1 DEF Entities, Domain
<1>3. CASE ix.registrations[id].expiryDate = 0
  BY <1>1, <1>2, <1>3 DEF HandleControllerNameRenewed, Touches, Entities, Domain
<1>4. CASE ix.registrations[id].expiryDate # 0
  BY <1>1, <1>2, <1>4 DEF HandleControllerNameRenewed, Touches, Entities, Domain
<1> QED
  BY <1>3, <1>4

LEMMA Touched ==
  ASSUME NEW a, NEW b, NEW node
  PROVE  /\ Touches(a, b, node) => b \in Entities
         /\ DomainOnly(a, b, node) => Touches(a, b, node)
         /\ a \in Entities => Touches(a, a, node)
         /\ b \in Entities /\ node \in Nodes => b.domains[node] \in Domain
  BY DEF Touches, DomainOnly, Entities

LEMMA TouchesTwice ==
  ASSUME NEW a, NEW b, NEW c, NEW node, Touches(a, b, node), Touches(b, c, node)
  PROVE  Touches(a, c, node)
  BY DEF Touches

\* A registration emits up to eleven logs: the burnt token and its node, the minted token, the
\* registrar as passing owner, cleared records, resolver, TTL, address, the new owner
\* and the lease.  Whatever the index showed of the name before, afterwards it shows the
\* new lease and nothing else, and of other nodes what it showed.
THEOREM RegistrationShowsNewLease ==
  ASSUME index \in Entities,
         NEW id \in Names, NEW owner \in Addresses, NEW expires \in Nat,
         NEW target \in Addresses \cup {Zero}
  PROVE  LET new == RegisterIndexed(id, owner, expires, target)
         IN /\ Touches(index, new, id)
            /\ new.domains[id] = [owner |-> owner, registrant |-> owner, expiryDate |-> expires,
                                  ttl |-> 0, resolver |-> PublicResolver,
                                  resolvedAddress |-> target]
            /\ new.registrations[id] = [registrant |-> owner, expiryDate |-> expires]
            /\ new.resolvers[id] = target
<1>1. /\ id \in Nodes /\ owner \in Shown /\ expires \in Shown /\ target \in Shown
      /\ Zero \in Shown /\ RegistrarAddress \in Shown /\ PublicResolver \in Shown /\ 0 \in Shown
  BY RegistrarAssumption, ResolverAssumption DEF Shown
<1> DEFINE freed  == HandleNewOwner(index, id, Zero)
           burnt  == IF Exists(id) THEN HandleRegistrarTransfer(freed, id, Zero) ELSE index
           given  == HandleRegistrarTransfer(burnt, id, owner)
           minted == HandleNewOwner(given, id, RegistrarAddress)
           wiped  == HandleVersionChanged(minted, id)
           aimed  == HandleNewResolver(wiped, id, PublicResolver)
           reset  == HandleNewTTL(aimed, id, 0)
           filled == IF target # Zero THEN HandleAddrChanged(reset, id, target) ELSE reset
           handed == HandleRegistryTransfer(filled, id, owner)
           leased == HandleBaseNameRegistered(handed, id, owner, expires)
           new    == HandleControllerNameRegistered(leased, id, owner, expires)
<1>2. /\ freed = HandleNewOwner(index, id, Zero)
      /\ burnt = IF Exists(id) THEN HandleRegistrarTransfer(freed, id, Zero) ELSE index
      /\ given = HandleRegistrarTransfer(burnt, id, owner)
      /\ minted = HandleNewOwner(given, id, RegistrarAddress)
      /\ wiped = HandleVersionChanged(minted, id)
      /\ aimed = HandleNewResolver(wiped, id, PublicResolver)
      /\ reset = HandleNewTTL(aimed, id, 0)
      /\ filled = IF target # Zero THEN HandleAddrChanged(reset, id, target) ELSE reset
      /\ handed = HandleRegistryTransfer(filled, id, owner)
      /\ leased = HandleBaseNameRegistered(handed, id, owner, expires)
      /\ new = HandleControllerNameRegistered(leased, id, owner, expires)
      /\ new = RegisterIndexed(id, owner, expires, target)
  BY DEF RegisterIndexed
<1> HIDE DEF freed, burnt, given, minted, wiped, aimed, reset, filled, handed, leased, new
<1>3. Touches(index, burnt, id)
  <2>1. Touches(index, freed, id) /\ freed \in Entities
    BY <1>1, <1>2, <1>2, NewOwnerHandled, Touched
  <2>2. Touches(index, index, id)
    BY Touched
  <2> QED
    BY <1>1, <1>2, <2>1, <2>2, TokenTransferHandled, TouchesTwice, Touched
<1>4. Touches(index, given, id)
  BY <1>1, <1>2, <1>3, TokenTransferHandled, TouchesTwice, Touched
<1>5. Touches(index, minted, id)
  <2>1. Touches(given, minted, id)
    BY <1>1, <1>2, <1>4, NewOwnerHandled, Touched
  <2> QED
    BY <1>4, <2>1, TouchesTwice
<1>6. Touches(index, wiped, id) /\ wiped.resolvers[id] = Zero
  <2>1. Touches(minted, wiped, id) /\ wiped.resolvers[id] = Zero
    <3>1. minted \in Entities /\ wiped = HandleVersionChanged(minted, id)
      BY <1>2, <1>5, Touched
    <3> QED
      BY <1>1, <3>1, VersionChangedHandled
  <2> QED
    BY <1>5, <2>1, TouchesTwice
<1>7. /\ Touches(index, aimed, id) /\ aimed.resolvers[id] = Zero
      /\ aimed.domains[id].resolver = PublicResolver /\ aimed.domains[id].resolvedAddress = Zero
  <2>1. /\ DomainOnly(wiped, aimed, id)
        /\ aimed.domains[id].resolver = PublicResolver
        /\ aimed.domains[id].resolvedAddress = Zero
    <3>1. wiped \in Entities /\ aimed = HandleNewResolver(wiped, id, PublicResolver)
      BY <1>2, <1>6, Touched
    <3> QED
      BY <1>1, <3>1, NewResolverHandled
  <2>2. wiped.domains[id] \in Domain
    BY <1>1, <1>6, Touched
  <2>3. Touches(index, aimed, id)
    BY <1>6, <2>1, Touched, TouchesTwice
  <2>4. aimed.resolvers = wiped.resolvers
    BY <2>1 DEF DomainOnly
  <2> QED
    BY <1>6, <2>1, <2>2, <2>3, <2>4 DEF Domain
<1>8. /\ Touches(index, reset, id) /\ reset.resolvers[id] = Zero /\ reset.domains[id].ttl = 0
      /\ reset.domains[id].resolver = PublicResolver /\ reset.domains[id].resolvedAddress = Zero
  <2>1. DomainOnly(aimed, reset, id) /\ reset.domains[id] = [aimed.domains[id] EXCEPT !.ttl = 0]
    BY <1>1, <1>2, <1>7, NewTTLHandled, Touched
  <2>2. aimed.domains[id] \in Domain
    BY <1>1, <1>7, Touched
  <2>3. Touches(index, reset, id)
    BY <1>7, <2>1, Touched, TouchesTwice
  <2>4. reset.resolvers = aimed.resolvers
    BY <2>1 DEF DomainOnly
  <2> QED
    BY <1>7, <2>1, <2>2, <2>3, <2>4 DEF Domain
<1>9. /\ Touches(index, filled, id) /\ filled.resolvers[id] = target /\ filled.domains[id].ttl = 0
      /\ filled.domains[id].resolver = PublicResolver
      /\ filled.domains[id].resolvedAddress = target
  <2>1. CASE target = Zero
    BY <1>2, <1>8, <2>1
  <2>2. CASE target # Zero
    <3>1. /\ Touches(reset, filled, id) /\ filled.resolvers[id] = target
          /\ filled.domains[id].resolver = PublicResolver
          /\ filled.domains[id].resolvedAddress = target
          /\ filled.domains[id].ttl = reset.domains[id].ttl
      <4>1. reset \in Entities /\ filled = HandleAddrChanged(reset, id, target)
        BY <1>2, <1>8, <2>2, Touched
      <4> QED
        BY <1>1, <4>1, AddrChangedHandled
    <3>2. reset.domains[id] \in Domain
      BY <1>1, <1>8, Touched
    <3>3. Touches(index, filled, id)
      BY <1>8, <3>1, TouchesTwice
    <3> QED
      BY <1>8, <3>1, <3>2, <3>3 DEF Domain
  <2> QED
    BY <2>1, <2>2
<1>10. /\ Touches(index, handed, id) /\ handed.resolvers[id] = target
       /\ handed.domains[id].ttl = 0 /\ handed.domains[id].owner = owner
       /\ handed.domains[id].resolver = PublicResolver
       /\ handed.domains[id].resolvedAddress = target
  <2>1. /\ DomainOnly(filled, handed, id)
        /\ handed.domains[id] = [filled.domains[id] EXCEPT !.owner = owner]
    BY <1>1, <1>2, <1>9, TransferHandled, Touched
  <2>2. filled.domains[id] \in Domain
    BY <1>1, <1>9, Touched
  <2>3. Touches(index, handed, id)
    BY <1>9, <2>1, Touched, TouchesTwice
  <2>4. handed.resolvers = filled.resolvers
    BY <2>1 DEF DomainOnly
  <2> QED
    BY <1>9, <2>1, <2>2, <2>3, <2>4 DEF Domain
<1>11. /\ Touches(index, leased, id) /\ leased.resolvers[id] = target
       /\ leased.domains[id].ttl = 0 /\ leased.domains[id].owner = owner
       /\ leased.domains[id].resolver = PublicResolver
       /\ leased.domains[id].resolvedAddress = target
  <2>1. /\ DomainOnly(handed, leased, id)
        /\ leased.domains[id].ttl = handed.domains[id].ttl
        /\ leased.domains[id].owner = handed.domains[id].owner
        /\ leased.domains[id].resolver = handed.domains[id].resolver
        /\ leased.domains[id].resolvedAddress = handed.domains[id].resolvedAddress
    <3>1. handed \in Entities /\ leased = HandleBaseNameRegistered(handed, id, owner, expires)
      BY <1>2, <1>10, Touched
    <3> QED
      BY <1>1, <3>1, BaseRegisteredHandled
  <2>2. handed.domains[id] \in Domain
    BY <1>1, <1>10, Touched
  <2>3. Touches(index, leased, id)
    BY <1>10, <2>1, Touched, TouchesTwice
  <2>4. leased.resolvers = handed.resolvers
    BY <2>1 DEF DomainOnly
  <2> QED
    BY <1>10, <2>1, <2>2, <2>3, <2>4 DEF Domain
<1>12. leased \in Entities /\ new = HandleControllerNameRegistered(leased, id, owner, expires)
  BY <1>2, <1>11, Touched
<1>13. /\ Touches(leased, new, id) /\ new.resolvers = leased.resolvers
       /\ new.domains[id].owner = leased.domains[id].owner
       /\ new.domains[id].registrant = owner /\ new.domains[id].expiryDate = expires
       /\ new.domains[id].ttl = leased.domains[id].ttl
       /\ new.domains[id].resolver = leased.domains[id].resolver
       /\ new.domains[id].resolvedAddress = leased.domains[id].resolvedAddress
       /\ new.registrations[id] = [registrant |-> owner, expiryDate |-> expires]
  BY <1>1, <1>12, RegisteredHandled
<1>14. Touches(index, new, id)
  BY <1>11, <1>13, TouchesTwice
<1>15. new.domains[id] \in Domain
  BY <1>1, <1>14, Touched
<1>16. new.domains[id] = [owner |-> owner, registrant |-> owner, expiryDate |-> expires, ttl |-> 0,
                          resolver |-> PublicResolver, resolvedAddress |-> target]
  BY <1>11, <1>13, <1>15 DEF Domain
<1> QED
  BY <1>2, <1>11, <1>13, <1>14, <1>16

(***************************************************************************)
(* What the index shows, node by node.                                     *)
(***************************************************************************)
OwnerShown(n) == index.domains[n].owner = nodeOwner[n] /\ index.domains[n].ttl = nodeTTL[n]

LeaseShown(id) ==
  /\ index.domains[id].registrant = tokenOwner[id]
  /\ index.domains[id].expiryDate = nameExpires[id]
  /\ index.registrations[id] = [registrant |-> tokenOwner[id], expiryDate |-> nameExpires[id]]
  /\ index.resolvers[id] = PublicData(id)

AddressShown(id) ==
  /\ index.domains[id].resolver = PublicResolver =>
        index.domains[id].resolvedAddress \in {PublicData(id), Zero}
  /\ index.domains[id].resolver # PublicResolver =>
        /\ index.domains[id].resolver = nodeResolver[id]
        /\ index.domains[id].resolvedAddress = Zero
  /\ nodeResolver[id] = PublicResolver /\ ~switched[id] =>
        index.domains[id].resolvedAddress = PublicData(id)

IndexInv ==
  /\ index \in Entities
  /\ switched \in [Names -> BOOLEAN]
  /\ \A n \in Nodes : OwnerShown(n)
  /\ \A id \in Names : LeaseShown(id) /\ AddressShown(id)

\* A step changes what is shown, or what there is to show, at one node only.
OnlyAt(node) ==
  /\ Touches(index, index', node)
  /\ \A n \in Nodes \ {node} :
        /\ nodeOwner'[n] = nodeOwner[n] /\ nodeTTL'[n] = nodeTTL[n]
        /\ nodeResolver'[n] = nodeResolver[n] /\ PublicData(n)' = PublicData(n)
  /\ \A id \in Names \ {node} :
        /\ tokenOwner'[id] = tokenOwner[id] /\ nameExpires'[id] = nameExpires[id]
        /\ switched'[id] = switched[id]

LEMMA IndexLocal ==
  ASSUME IndexInv, NEW node \in Nodes, OnlyAt(node), switched' \in [Names -> BOOLEAN],
         OwnerShown(node)',
         node \in Names => LeaseShown(node)' /\ AddressShown(node)'
  PROVE  IndexInv'
<1>1. index' \in Entities
  BY DEF OnlyAt, Touches
<1>2. ASSUME NEW n \in Nodes PROVE OwnerShown(n)'
  BY DEF IndexInv, OnlyAt, Touches, OwnerShown
<1>3. ASSUME NEW id \in Names, id # node PROVE LeaseShown(id)' /\ AddressShown(id)'
  <2>1. id \in Nodes /\ LeaseShown(id) /\ AddressShown(id)
    BY RegistrarAssumption DEF IndexInv
  <2>2. /\ index'.domains[id] = index.domains[id]
        /\ index'.resolvers[id] = index.resolvers[id]
        /\ index'.registrations[id] = index.registrations[id]
        /\ nodeResolver'[id] = nodeResolver[id] /\ PublicData(id)' = PublicData(id)
        /\ tokenOwner'[id] = tokenOwner[id] /\ nameExpires'[id] = nameExpires[id]
        /\ switched'[id] = switched[id]
    BY <1>3, <2>1 DEF OnlyAt, Touches
  <2> QED
    BY <2>1, <2>2 DEF LeaseShown, AddressShown
<1> QED
  BY <1>1, <1>2, <1>3 DEF IndexInv

LEMMA IndexInvImplies ==
  ASSUME IndexInv
  PROVE  IndexFollowsChain /\ IndexedAddressIsServed
<1>1. IndexFollowsChain
  BY RegistrarAssumption DEF IndexInv, OwnerShown, LeaseShown, IndexFollowsChain
<1>2. ASSUME NEW id \in Names, nodeResolver[id] = PublicResolver
      PROVE  ResolveAddress(id) = {PublicData(id)}
  BY <1>2 DEF ResolveAddress, Answers
<1>3. IndexedAddressIsServed
  BY <1>2 DEF IndexInv, AddressShown, IndexedAddressIsServed
<1> QED
  BY <1>1, <1>3

LEMMA IndexInitInv == Init => IndexInv
<1> SUFFICES ASSUME Init PROVE IndexInv
  OBVIOUS
<1>1. Zero \in Shown /\ 0 \in Shown /\ Names \subseteq Nodes /\ 0 \in Versions
  BY RegistrarAssumption, ResolverAssumption DEF Shown, Versions
<1>2. RegistrarInit /\ recordData = [n \in Nodes |-> [v \in Versions |-> Zero]] /\ IndexInit
      /\ switched = [id \in Names |-> FALSE]
  BY DEF Init, ResolutionInit
<1>3. index \in Entities
  BY <1>1, <1>2 DEF IndexInit, Entities, Domain
<1>4. \A id \in Names : PublicData(id) = Zero
  BY <1>1, <1>2 DEF RegistrarInit, ResolverInit, PublicData
<1>5. /\ \A n \in Nodes : OwnerShown(n)
      /\ \A id \in Names : LeaseShown(id) /\ AddressShown(id)
  BY <1>1, <1>2, <1>4, ZeroAssumption, ResolverAssumption
  DEF IndexInit, RegistrarInit, RegistryInit, OwnerShown, LeaseShown, AddressShown
<1> QED
  BY <1>2, <1>3, <1>5 DEF IndexInv

(***************************************************************************)
(* Every step keeps the index.                                             *)
(***************************************************************************)
LEMMA ShownTypes ==
  ASSUME ResolutionInv
  PROVE  /\ Zero \in Shown /\ PublicResolver \in Shown /\ 0 \in Shown
         /\ RegistrarAddress \in Shown /\ ReverseAddress \in Shown
         /\ Users \subseteq Shown /\ Nat \subseteq Shown /\ Resolvers \cup {Zero} \subseteq Shown
         /\ Names \subseteq Nodes
         /\ nodeOwner \in [Nodes -> Addresses \cup {Zero}]
         /\ nodeResolver \in [Nodes -> Resolvers \cup {Zero}]
         /\ nodeTTL \in [Nodes -> Nat] /\ leaseNo \in [Nodes -> Nat]
         /\ tokenOwner \in [Names -> Addresses \cup {Zero}]
         /\ nameExpires \in [Names -> Nat] /\ now \in Nat
         /\ recordVersions \in [Nodes -> Versions]
         /\ recordData \in [Nodes -> [Versions -> Data]]
  BY UsersAssumption, RegistrarAssumption, ResolverAssumption
  DEF Shown, ResolutionInv, RecordsInv, RegistrarTypes, DataFits

LEMMA IndexRegister ==
  ASSUME ResolutionInv, IndexInv, NEW id \in Names, NEW owner \in Users, NEW d \in Durations,
         NEW target \in Users \cup {Zero}, RegisterName(id, owner, d, target)
  PROVE  IndexInv'
<1> DEFINE next == recordVersions[id] + 1
<1>1. /\ Register(Controller, id, owner, d, PublicResolver, target # Zero)
      /\ recordData' = [recordData EXCEPT ![id][next] = target]
      /\ switched' = [switched EXCEPT ![id] = FALSE]
      /\ index' = RegisterIndexed(id, owner, now + d, target)
  BY DEF RegisterName
<1>2. /\ nodeOwner' = [nodeOwner EXCEPT ![id] = owner]
      /\ nodeResolver' = [nodeResolver EXCEPT ![id] = PublicResolver]
      /\ nodeTTL' = [nodeTTL EXCEPT ![id] = 0]
      /\ tokenOwner' = [tokenOwner EXCEPT ![id] = owner]
      /\ nameExpires' = [nameExpires EXCEPT ![id] = now + d]
      /\ recordVersions' = [recordVersions EXCEPT ![id] = next]
      /\ recordVersions[id] < MaxVersion
  BY <1>1 DEF Register, ResetNode, ReplaceToken
<1>3. /\ id \in Nodes /\ owner \in Addresses /\ target \in Addresses \cup {Zero} /\ now + d \in Nat
      /\ next \in Versions
  BY <1>2, ShownTypes, UsersAssumption, RegistrarAssumption, ResolverAssumption DEF Versions
<1>4. /\ Touches(index, index', id)
      /\ index'.domains[id] = [owner |-> owner, registrant |-> owner, expiryDate |-> now + d,
                               ttl |-> 0, resolver |-> PublicResolver,
                               resolvedAddress |-> target]
      /\ index'.registrations[id] = [registrant |-> owner, expiryDate |-> now + d]
      /\ index'.resolvers[id] = target
  BY <1>1, <1>3, RegistrationShowsNewLease DEF IndexInv
<1> HIDE DEF next
<1>5. PublicData(id)' = target /\ \A n \in Nodes \ {id} : PublicData(n)' = PublicData(n)
  BY <1>1, <1>2, <1>3, ShownTypes DEF PublicData
<1>6. OnlyAt(id)
  BY <1>1, <1>2, <1>4, <1>5, ShownTypes DEF OnlyAt, IndexInv
<1>7. OwnerShown(id)' /\ LeaseShown(id)' /\ AddressShown(id)' /\ switched' \in [Names -> BOOLEAN]
  BY <1>1, <1>2, <1>3, <1>4, <1>5, ShownTypes DEF OwnerShown, LeaseShown, AddressShown, IndexInv
<1> QED
  BY <1>3, <1>6, <1>7, IndexLocal

LEMMA IndexRenew ==
  ASSUME ResolutionInv, IndexInv, NEW id \in Names, NEW d \in Durations, RenewName(id, d)
  PROVE  IndexInv'
<1> DEFINE expires == nameExpires[id] + d
           renewed == HandleBaseNameRenewed(index, id, expires)
<1>1. /\ nameExpires' = [nameExpires EXCEPT ![id] = expires]
      /\ nameExpires[id] # 0 /\ expires \in Nat /\ id \in Nodes
      /\ UNCHANGED <<tokenOwner, nodeOwner, nodeResolver, nodeTTL, recordVersions,
                     recordData, switched>>
      /\ index' = HandleControllerNameRenewed(renewed, id, expires)
  BY ShownTypes, RegistrarAssumption DEF RenewName, Renew, registryVars, resolverVars
<1>2. renewed = HandleBaseNameRenewed(index, id, expires)
  OBVIOUS
<1> HIDE DEF renewed, expires
<1>3. /\ DomainOnly(index, renewed, id)
      /\ renewed.domains[id] = [index.domains[id] EXCEPT !.expiryDate = expires]
  BY <1>1, <1>2, BaseRenewedHandled, ShownTypes DEF IndexInv
<1>4. /\ Touches(renewed, index', id) /\ index'.resolvers = renewed.resolvers
      /\ index'.domains[id] = [renewed.domains[id] EXCEPT !.expiryDate = expires]
      /\ index'.registrations[id].registrant = renewed.registrations[id].registrant
      /\ index'.registrations[id].expiryDate =
           IF renewed.registrations[id].expiryDate = 0
           THEN renewed.registrations[id].expiryDate ELSE expires
  <2>1. renewed \in Entities /\ expires \in Shown
    BY <1>1, <1>3, Touched, ShownTypes
  <2> QED
    BY <1>1, <2>1, RenewedHandled
<1>5. Touches(index, index', id)
  BY <1>3, <1>4, Touched, TouchesTwice
<1>6. \A n \in Nodes : PublicData(n)' = PublicData(n)
  BY <1>1 DEF PublicData
<1>7. OnlyAt(id)
  BY <1>1, <1>5, <1>6, ShownTypes DEF OnlyAt
<1>8. /\ OwnerShown(id) /\ LeaseShown(id) /\ AddressShown(id)
      /\ index.domains[id] \in Domain /\ index' \in Entities
      /\ renewed.registrations = index.registrations /\ renewed.resolvers = index.resolvers
  BY <1>1, <1>3, <1>5, Touched DEF IndexInv, DomainOnly
<1>9. index'.registrations[id] = [registrant |-> tokenOwner[id], expiryDate |-> expires]
  BY <1>1, <1>4, <1>8 DEF LeaseShown, Entities
<1>10. index'.domains[id] = [index.domains[id] EXCEPT !.expiryDate = expires]
  BY <1>3, <1>4, <1>8 DEF Domain
<1>11. OwnerShown(id)' /\ LeaseShown(id)' /\ AddressShown(id)'
  BY <1>1, <1>4, <1>6, <1>8, <1>9, <1>10, ShownTypes
  DEF OwnerShown, LeaseShown, AddressShown, Domain
<1> QED
  BY <1>1, <1>7, <1>11, IndexLocal DEF IndexInv

LEMMA IndexTransfer ==
  ASSUME ResolutionInv, IndexInv, NEW caller \in Users, NEW to \in Users, NEW id \in Names,
         TransferName(caller, to, id)
  PROVE  IndexInv'
<1> DEFINE handed == HandleNewOwner(index, id, to)
<1>1. /\ nodeOwner' = [nodeOwner EXCEPT ![id] = to]
      /\ tokenOwner' = [tokenOwner EXCEPT ![id] = to]
      /\ nameExpires[id] # 0 /\ id \in Nodes
      /\ UNCHANGED <<nameExpires, nodeResolver, nodeTTL, recordVersions, recordData, switched>>
      /\ index' = HandleRegistrarTransfer(handed, id, to)
  BY ShownTypes DEF TransferName, TransferFrom, IsActive, resolverVars
<1>2. handed = HandleNewOwner(index, id, to)
  OBVIOUS
<1> HIDE DEF handed
<1>3. /\ DomainOnly(index, handed, id)
      /\ handed.domains[id] = [index.domains[id] EXCEPT !.owner = to]
  BY <1>1, <1>2, NewOwnerHandled, ShownTypes DEF IndexInv
<1>4. /\ Touches(handed, index', id) /\ index'.resolvers = handed.resolvers
      /\ index'.domains[id] = [handed.domains[id] EXCEPT !.registrant = to]
      /\ index'.registrations[id].expiryDate = handed.registrations[id].expiryDate
      /\ index'.registrations[id].registrant =
           IF handed.registrations[id].expiryDate = 0
           THEN handed.registrations[id].registrant ELSE to
  <2>1. handed \in Entities /\ to \in Shown
    BY <1>3, Touched, ShownTypes
  <2> QED
    BY <1>1, <2>1, TokenTransferHandled
<1>5. Touches(index, index', id)
  BY <1>3, <1>4, Touched, TouchesTwice
<1>6. \A n \in Nodes : PublicData(n)' = PublicData(n)
  BY <1>1 DEF PublicData
<1>7. OnlyAt(id)
  BY <1>1, <1>5, <1>6, ShownTypes DEF OnlyAt
<1>8. /\ OwnerShown(id) /\ LeaseShown(id) /\ AddressShown(id)
      /\ index.domains[id] \in Domain /\ index' \in Entities
      /\ handed.registrations = index.registrations /\ handed.resolvers = index.resolvers
  BY <1>1, <1>3, <1>5, Touched DEF IndexInv, DomainOnly
<1>9. index'.registrations[id] = [registrant |-> to, expiryDate |-> nameExpires[id]]
  BY <1>1, <1>4, <1>8 DEF LeaseShown, Entities
<1>10. index'.domains[id] = [index.domains[id] EXCEPT !.owner = to, !.registrant = to]
  BY <1>3, <1>4, <1>8 DEF Domain
<1>11. OwnerShown(id)' /\ LeaseShown(id)' /\ AddressShown(id)'
  BY <1>1, <1>4, <1>6, <1>8, <1>9, <1>10, ShownTypes
  DEF OwnerShown, LeaseShown, AddressShown, Domain
<1> QED
  BY <1>1, <1>7, <1>11, IndexLocal DEF IndexInv

\* A step that passes the node of a name or an account to somebody, with one log about it.
LEMMA IndexOwner ==
  ASSUME ResolutionInv, IndexInv, NEW node \in Nodes, NEW owner \in Users,
         nodeOwner' = [nodeOwner EXCEPT ![node] = owner],
         UNCHANGED <<nodeResolver, nodeTTL, tokenOwner, nameExpires, recordVersions, recordData,
                     switched>>,
         \/ index' = HandleNewOwner(index, node, owner)
         \/ index' = HandleRegistryTransfer(index, node, owner)
  PROVE  IndexInv'
<1>1. /\ DomainOnly(index, index', node)
      /\ index'.domains[node] = [index.domains[node] EXCEPT !.owner = owner]
  BY NewOwnerHandled, TransferHandled, ShownTypes DEF IndexInv
<1>2. Touches(index, index', node) /\ index.domains[node] \in Domain
  BY <1>1, Touched DEF IndexInv
<1>3. \A n \in Nodes : PublicData(n)' = PublicData(n)
  BY DEF PublicData
<1>4. OnlyAt(node)
  BY <1>2, <1>3, ShownTypes DEF OnlyAt
<1>5. OwnerShown(node)'
  BY <1>1, <1>2, ShownTypes DEF OwnerShown, IndexInv, Domain
<1>6. ASSUME node \in Names PROVE LeaseShown(node)' /\ AddressShown(node)'
  <2>1. LeaseShown(node) /\ AddressShown(node)
    BY <1>6 DEF IndexInv
  <2>2. /\ index'.registrations = index.registrations /\ index'.resolvers = index.resolvers
        /\ index'.domains[node].registrant = index.domains[node].registrant
        /\ index'.domains[node].expiryDate = index.domains[node].expiryDate
        /\ index'.domains[node].resolver = index.domains[node].resolver
        /\ index'.domains[node].resolvedAddress = index.domains[node].resolvedAddress
    BY <1>1, <1>2 DEF DomainOnly, Domain
  <2> QED
    BY <1>3, <2>1, <2>2 DEF LeaseShown, AddressShown
<1> QED
  BY <1>4, <1>5, <1>6, IndexLocal DEF IndexInv

LEMMA IndexSetResolver ==
  ASSUME ResolutionInv, IndexInv, NEW caller \in Users, NEW node \in Nodes,
         NEW r \in Resolvers \cup {Zero}, NodeSetResolver(caller, node, r)
  PROVE  IndexInv'
<1>1. /\ nodeResolver' = [nodeResolver EXCEPT ![node] = r]
      /\ switched' = [id \in Names |-> switched[id] \/ id = node]
      /\ UNCHANGED <<nodeOwner, nodeTTL, tokenOwner, nameExpires, recordVersions, recordData>>
      /\ index' = HandleNewResolver(index, node, r)
  BY DEF NodeSetResolver, SetResolver, registrarVars, tokenVars, resolverVars
<1>2. /\ DomainOnly(index, index', node)
      /\ index'.domains[node].owner = index.domains[node].owner
      /\ index'.domains[node].registrant = index.domains[node].registrant
      /\ index'.domains[node].expiryDate = index.domains[node].expiryDate
      /\ index'.domains[node].ttl = index.domains[node].ttl
      /\ index'.domains[node].resolver = r
      /\ index'.domains[node].resolvedAddress = Zero
  BY <1>1, NewResolverHandled, ShownTypes DEF IndexInv
<1>3. Touches(index, index', node)
  BY <1>2, Touched
<1>4. \A n \in Nodes : PublicData(n)' = PublicData(n)
  BY <1>1 DEF PublicData
<1>5. OnlyAt(node) /\ switched' \in [Names -> BOOLEAN]
  BY <1>1, <1>3, <1>4, ShownTypes DEF OnlyAt, IndexInv
<1>6. OwnerShown(node)'
  BY <1>1, <1>2 DEF OwnerShown, IndexInv
<1>7. ASSUME node \in Names PROVE LeaseShown(node)' /\ AddressShown(node)'
  <2>1. LeaseShown(node) /\ switched'[node]
    BY <1>1, <1>7 DEF IndexInv
  <2>2. index'.registrations = index.registrations /\ index'.resolvers = index.resolvers
    BY <1>2 DEF DomainOnly
  <2> QED
    BY <1>1, <1>2, <1>4, <2>1, <2>2, ShownTypes DEF LeaseShown, AddressShown
<1> QED
  BY <1>5, <1>6, <1>7, IndexLocal

LEMMA IndexSetTTL ==
  ASSUME ResolutionInv, IndexInv, NEW caller \in Users, NEW node \in Nodes,
         NodeSetTTL(caller, node)
  PROVE  IndexInv'
<1>1. /\ nodeTTL' = [nodeTTL EXCEPT ![node] = leaseNo[node]] /\ leaseNo[node] \in Nat
      /\ UNCHANGED <<nodeOwner, nodeResolver, tokenOwner, nameExpires, recordVersions, recordData,
                     switched>>
      /\ index' = HandleNewTTL(index, node, leaseNo[node])
  BY ShownTypes DEF NodeSetTTL, SetTTL, registrarVars, tokenVars, resolverVars
<1>2. /\ DomainOnly(index, index', node)
      /\ index'.domains[node] = [index.domains[node] EXCEPT !.ttl = leaseNo[node]]
  BY <1>1, NewTTLHandled, ShownTypes DEF IndexInv
<1>3. Touches(index, index', node) /\ index.domains[node] \in Domain
  BY <1>2, Touched DEF IndexInv
<1>4. \A n \in Nodes : PublicData(n)' = PublicData(n)
  BY <1>1 DEF PublicData
<1>5. OnlyAt(node)
  BY <1>1, <1>3, <1>4, ShownTypes DEF OnlyAt
<1>6. OwnerShown(node)'
  BY <1>1, <1>2, <1>3, ShownTypes DEF OwnerShown, IndexInv, Domain
<1>7. ASSUME node \in Names PROVE LeaseShown(node)' /\ AddressShown(node)'
  <2>1. LeaseShown(node) /\ AddressShown(node)
    BY <1>7 DEF IndexInv
  <2>2. /\ index'.registrations = index.registrations /\ index'.resolvers = index.resolvers
        /\ index'.domains[node].registrant = index.domains[node].registrant
        /\ index'.domains[node].expiryDate = index.domains[node].expiryDate
        /\ index'.domains[node].resolver = index.domains[node].resolver
        /\ index'.domains[node].resolvedAddress = index.domains[node].resolvedAddress
    BY <1>2, <1>3 DEF DomainOnly, Domain
  <2> QED
    BY <1>1, <1>4, <2>1, <2>2 DEF LeaseShown, AddressShown
<1> QED
  BY <1>1, <1>5, <1>6, <1>7, IndexLocal DEF IndexInv

LEMMA IndexSetAddress ==
  ASSUME ResolutionInv, IndexInv, NEW caller \in Users, NEW id \in Names,
         NEW target \in Users \cup {Zero}, SetAddress(caller, id, target)
  PROVE  IndexInv'
<1> DEFINE version == recordVersions[id]
<1>1. /\ recordData' = [recordData EXCEPT ![id][version] = target]
      /\ switched' = [switched EXCEPT ![id] = FALSE]
      /\ UNCHANGED <<nodeOwner, nodeResolver, nodeTTL, tokenOwner, nameExpires, recordVersions>>
      /\ index' = HandleAddrChanged(index, id, target)
      /\ id \in Nodes /\ version \in Versions /\ target \in Shown
  BY ShownTypes DEF SetAddress, SetRecord, registrarVars, tokenVars, registryVars
<1>2. /\ Touches(index, index', id)
      /\ index'.domains[id].owner = index.domains[id].owner
      /\ index'.domains[id].registrant = index.domains[id].registrant
      /\ index'.domains[id].expiryDate = index.domains[id].expiryDate
      /\ index'.domains[id].ttl = index.domains[id].ttl
      /\ index'.domains[id].resolver = PublicResolver
      /\ index'.domains[id].resolvedAddress = target
      /\ index'.resolvers[id] = target
      /\ index'.registrations = index.registrations
  BY <1>1, AddrChangedHandled DEF IndexInv
<1>3. PublicData(id)' = target /\ \A n \in Nodes \ {id} : PublicData(n)' = PublicData(n)
  BY <1>1, ShownTypes DEF PublicData
<1>4. OnlyAt(id) /\ switched' \in [Names -> BOOLEAN]
  BY <1>1, <1>2, <1>3 DEF OnlyAt, IndexInv
<1>5. OwnerShown(id)'
  BY <1>1, <1>2 DEF OwnerShown, IndexInv
<1>6. LeaseShown(id)' /\ AddressShown(id)'
  BY <1>1, <1>2, <1>3 DEF LeaseShown, AddressShown, IndexInv
<1> QED
  BY <1>1, <1>4, <1>5, <1>6, IndexLocal

LEMMA IndexClear ==
  ASSUME ResolutionInv, IndexInv, NEW caller \in Users, NEW node \in Nodes,
         ClearNode(caller, node)
  PROVE  IndexInv'
<1>1. /\ recordVersions' = [recordVersions EXCEPT ![node] = @ + 1]
      /\ recordVersions[node] < MaxVersion
      /\ switched' = [id \in Names |-> switched[id] /\ id # node]
      /\ UNCHANGED <<nodeOwner, nodeResolver, nodeTTL, tokenOwner, nameExpires, recordData>>
      /\ index' = HandleVersionChanged(index, node)
  BY DEF ClearNode, ClearRecords, registrarVars, tokenVars, registryVars
<1>2. /\ Touches(index, index', node)
      /\ index'.domains[node] = [index.domains[node] EXCEPT !.resolvedAddress = Zero]
      /\ index'.resolvers[node] = Zero
      /\ index'.registrations = index.registrations
      /\ index.domains[node] \in Domain
  BY <1>1, VersionChangedHandled, Touched DEF IndexInv
<1>3. \A n \in Nodes \ {node} : PublicData(n)' = PublicData(n)
  BY <1>1, ShownTypes DEF PublicData
<1>4. ASSUME node \in Names PROVE PublicData(node)' = Zero
  <2>1. recordVersions[node] \in 0..MaxVersion
    BY ShownTypes DEF Versions
  <2>2. recordVersions[node] + 1 \in Versions /\ recordVersions[node] + 1 > recordVersions[node]
    BY <1>1, <2>1, ResolverAssumption DEF Versions
  <2>3. recordData[node][recordVersions[node] + 1] = Zero
    BY <1>4, <2>2 DEF ResolutionInv, RecordsInv, DataFits
  <2> QED
    BY <1>1, <2>3, ShownTypes DEF PublicData
<1>5. OnlyAt(node) /\ switched' \in [Names -> BOOLEAN]
  BY <1>1, <1>2, <1>3, ShownTypes DEF OnlyAt, IndexInv
<1>6. OwnerShown(node)'
  BY <1>1, <1>2 DEF OwnerShown, IndexInv, Domain
<1>7. ASSUME node \in Names PROVE LeaseShown(node)' /\ AddressShown(node)'
  <2>1. LeaseShown(node) /\ AddressShown(node)
    BY <1>7 DEF IndexInv
  <2>2. /\ index'.domains[node].registrant = index.domains[node].registrant
        /\ index'.domains[node].expiryDate = index.domains[node].expiryDate
        /\ index'.domains[node].resolver = index.domains[node].resolver
        /\ index'.domains[node].resolvedAddress = Zero
    BY <1>2 DEF Domain
  <2> QED
    BY <1>1, <1>2, <1>4, <1>7, <2>1, <2>2 DEF LeaseShown, AddressShown
<1> QED
  BY <1>5, <1>6, <1>7, IndexLocal

\* The index shows nothing of the name a reverse node stores.
LEMMA IndexSame ==
  ASSUME IndexInv, UNCHANGED <<index, switched, nodeOwner, nodeResolver, nodeTTL, tokenOwner,
                               nameExpires>>,
         \A id \in Names : PublicData(id)' = PublicData(id)
  PROVE  IndexInv'
  BY DEF IndexInv, OwnerShown, LeaseShown, AddressShown, Shown, Entities, Domain

LEMMA IndexStoreName ==
  ASSUME ResolutionInv, IndexInv, NEW caller \in Users, NEW node \in ReverseNodes,
         NEW name \in Names \cup {Zero}, StoreName(caller, node, name)
  PROVE  IndexInv'
<1>1. /\ recordData' = [recordData EXCEPT ![node][recordVersions[node]] = name]
      /\ UNCHANGED <<index, switched, nodeOwner, nodeResolver, nodeTTL, tokenOwner, nameExpires,
                     recordVersions>>
  BY DEF StoreName, SetRecord, registrarVars, tokenVars, registryVars
<1>2. node \notin Names
  BY ReverseNodesApart DEF ReverseNodes
<1>3. \A id \in Names : PublicData(id)' = PublicData(id)
  BY <1>1, <1>2, ShownTypes DEF PublicData
<1> QED
  BY <1>1, <1>3, IndexSame

LEMMA IndexReverse ==
  ASSUME ResolutionInv, IndexInv, NEW caller \in Users, NEW name \in Names,
         SetReverseName(caller, name)
  PROVE  IndexInv'
<1> DEFINE node  == ReverseNode[caller]
           taken == HandleNewOwner(index, node, ReverseAddress)
           aimed == HandleNewResolver(taken, node, PublicResolver)
<1>1. /\ nodeOwner' = [nodeOwner EXCEPT ![node] = caller]
      /\ nodeResolver' = [nodeResolver EXCEPT ![node] = PublicResolver]
      /\ recordData' = [recordData EXCEPT ![node][recordVersions[node]] = name]
      /\ caller \in Claimants
      /\ UNCHANGED <<nodeTTL, tokenOwner, nameExpires, recordVersions, switched>>
      /\ index' = HandleRegistryTransfer(aimed, node, caller)
  BY DEF SetReverseName, SetPrimaryName, registrarVars, tokenVars, resolverVars
<1>2. node \in Nodes /\ node \notin Names /\ caller \in Shown
  BY <1>1, ReverseNodesApart, ShownTypes
<1>3. taken = HandleNewOwner(index, node, ReverseAddress)
      /\ aimed = HandleNewResolver(taken, node, PublicResolver)
  OBVIOUS
<1> HIDE DEF node, taken, aimed
<1>4. /\ DomainOnly(index, taken, node)
      /\ taken.domains[node] = [index.domains[node] EXCEPT !.owner = ReverseAddress]
  BY <1>2, <1>3, NewOwnerHandled, ShownTypes DEF IndexInv
<1>5. DomainOnly(taken, aimed, node) /\ aimed.domains[node].ttl = taken.domains[node].ttl
  <2>1. taken \in Entities
    BY <1>4, Touched
  <2> QED
    BY <1>2, <1>3, <2>1, NewResolverHandled, ShownTypes
<1>6. /\ DomainOnly(aimed, index', node)
      /\ index'.domains[node] = [aimed.domains[node] EXCEPT !.owner = caller]
  <2>1. aimed \in Entities
    BY <1>5, Touched
  <2> QED
    BY <1>1, <1>2, <2>1, TransferHandled
<1>7. Touches(index, index', node)
  BY <1>4, <1>5, <1>6, Touched, TouchesTwice
<1>8. /\ index.domains[node] \in Domain /\ taken.domains[node] \in Domain
      /\ aimed.domains[node] \in Domain
  BY <1>2, <1>4, <1>5, Touched DEF IndexInv
<1>9. OwnerShown(node)'
  BY <1>1, <1>2, <1>4, <1>5, <1>6, <1>8, ShownTypes DEF OwnerShown, IndexInv, Domain
<1>10. \A n \in Nodes \ {node} : PublicData(n)' = PublicData(n)
  BY <1>1, ShownTypes DEF PublicData
<1>11. OnlyAt(node)
  BY <1>1, <1>7, <1>10, ShownTypes DEF OnlyAt
<1> QED
  BY <1>1, <1>2, <1>9, <1>11, IndexLocal DEF IndexInv

LEMMA IndexNextInv ==
  ResolutionInv /\ IndexInv /\ [Next]_resolutionVars => IndexInv'
<1> SUFFICES ASSUME ResolutionInv, IndexInv, [Next]_resolutionVars
             PROVE  IndexInv'
  OBVIOUS
<1>1. ASSUME NEW caller \in Users, NEW id \in Names, NEW to \in Users, ReclaimName(caller, id, to)
      PROVE  IndexInv'
  BY <1>1, IndexOwner, ShownTypes
  DEF ReclaimName, Reclaim, tokenVars, resolverVars
<1>2. ASSUME NEW caller \in Users, NEW id \in Names, LeaseCall(caller, id)
      PROVE  IndexInv'
  BY <1>1, <1>2, IndexRegister, IndexRenew, IndexTransfer DEF LeaseCall
<1>3. ASSUME NEW caller \in Users, NEW node \in Nodes, NEW a \in Users,
             NodeSetOwner(caller, node, a)
      PROVE  IndexInv'
  <2>1. /\ nodeOwner' = [nodeOwner EXCEPT ![node] = a]
        /\ UNCHANGED <<nodeResolver, nodeTTL, tokenOwner, nameExpires, recordVersions,
                       recordData, switched>>
        /\ index' = HandleRegistryTransfer(index, node, a)
    BY <1>3 DEF NodeSetOwner, SetNodeOwner, SetOwner, registrarVars, tokenVars, resolverVars
  <2> QED
    BY <2>1, IndexOwner
<1>4. ASSUME NEW caller \in Users, NEW node \in Nodes, NodeOwnerCall(caller, node)
      PROVE  IndexInv'
  BY <1>3, <1>4, IndexSetResolver, IndexSetTTL, IndexClear DEF NodeOwnerCall
<1>5. ASSUME NEW caller \in Users, RecordCall(caller)
      PROVE  IndexInv'
  BY <1>5, IndexSetAddress, IndexStoreName DEF RecordCall
<1>6. ASSUME NEW caller \in Users, NEW a \in Users, ClaimReverse(caller, a)
      PROVE  IndexInv'
  <2>1. /\ nodeOwner' = [nodeOwner EXCEPT ![ReverseNode[caller]] = a]
        /\ caller \in Claimants
        /\ UNCHANGED <<nodeResolver, nodeTTL, tokenOwner, nameExpires, recordVersions,
                       recordData, switched>>
        /\ index' = HandleNewOwner(index, ReverseNode[caller], a)
    BY <1>6 DEF ClaimReverse, Claim, registrarVars, tokenVars, resolverVars
  <2> QED
    BY <2>1, IndexOwner, ReverseNodesApart
<1>7. ASSUME NEW caller \in Users, ReverseCall(caller)
      PROVE  IndexInv'
  BY <1>6, <1>7, IndexReverse DEF ReverseCall
<1>8. CASE TimePasses \/ UNCHANGED resolutionVars
  <2>1. UNCHANGED <<index, switched, nodeOwner, nodeResolver, nodeTTL, tokenOwner, nameExpires,
                    recordVersions, recordData>>
    BY <1>8 DEF TimePasses, Tick, resolutionVars, nameVars, registrarVars, tokenVars,
                registryVars, resolverVars
  <2> QED
    BY <2>1, IndexSame DEF PublicData
<1> QED
  BY <1>2, <1>4, <1>5, <1>7, <1>8 DEF Next

LEMMA IndexInvariance == Spec => []IndexInv
<1>1. Init => ResolutionInv /\ IndexInv
  BY ResolutionInitInv, IndexInitInv
<1>2. ResolutionInv /\ IndexInv /\ [Next]_resolutionVars => (ResolutionInv /\ IndexInv)'
  BY ResolutionNextInv, IndexNextInv
<1> QED
  BY <1>1, <1>2, PTL DEF Spec

\* The index equals the contracts in owner, TTL, holder, expiry and address after every
\* transaction, for any number of names, accounts, leases and record versions.
THEOREM IndexFollowsChainCorrect == Spec => []IndexFollowsChain
  BY IndexInvImplies, IndexInvariance, PTL

\* The index never shows a stale address of a name that uses the public resolver, and
\* where it disagrees with the registry about the resolver, it shows the public one's.
THEOREM IndexedAddressCorrect == Spec => []IndexedAddressIsServed
  BY IndexInvImplies, IndexInvariance, PTL

=============================================================================
