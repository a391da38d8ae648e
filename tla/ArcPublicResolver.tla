------------------------- MODULE ArcPublicResolver -------------------------
(***************************************************************************)
(* contracts/src/ArcPublicResolver.sol: versioned records of a node.  The  *)
(* address, text, name, contenthash and interface records of one version   *)
(* are all reached through recordVersions[node], so they are one value     *)
(* here: 0 when nothing was written under that version.                    *)
(***************************************************************************)
EXTENDS ArcNameRegistry, Naturals

CONSTANTS
  PublicResolver,   \* the address of this resolver
  MaxVersion        \* bound on the record versions of a node

ASSUME ResolverAssumption == PublicResolver \in Resolvers /\ MaxVersion \in Nat

VARIABLES
  recordVersions,   \* recordVersions[node]
  records           \* the record value stored under each version of a node

resolverVars == <<recordVersions, records>>

Versions == 0..MaxVersion

ResolverInit ==
  /\ recordVersions = [n \in Nodes |-> 0]
  /\ records = [n \in Nodes |-> [v \in Versions |-> 0]]

\* What addr, text, name, contenthash and interfaceImplementer read.
VisibleRecord(node) == records[node][recordVersions[node]]

\* setAddr, setText, setName, setContenthash, setInterface, or a
\* multicallWithNodeCheck of them: each authorises the msg.sender.
SetRecord(caller, node, value) ==
  /\ Authorised(caller, node)
  /\ records' = [records EXCEPT ![node][recordVersions[node]] = value]
  /\ UNCHANGED <<recordVersions, registryVars>>

ClearRecords(caller, node) ==
  /\ Authorised(caller, node)
  /\ recordVersions[node] < MaxVersion
  /\ recordVersions' = [recordVersions EXCEPT ![node] = @ + 1]
  /\ UNCHANGED <<records, registryVars>>

=============================================================================
