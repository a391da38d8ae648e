---------------------------- MODULE BensSubgraph ----------------------------
(***************************************************************************)
(* indexer/bens-subgraph/src: the entities the explorer shows.  Graph Node *)
(* runs the handlers of the logs of a transaction in their order: here the *)
(* handlers of one transaction are applied to one another, the first log   *)
(* innermost, so that one transaction is one step.                         *)
(* The public resolver is the only resolver that is a data source.  Event  *)
(* entities, plaintext labels, parents and NameChanged, which changes no    *)
(* entity a reader resolves with, are left out.  Zero and 0 stand for an   *)
(* unset field; a registration exists once its expiry is set.              *)
(***************************************************************************)
EXTENDS ArcReverseRegistrar

VARIABLE index   \* the entities: domains, registrations, resolvers (addr of the public one)

IndexInit ==
  index = [domains |-> [n \in Nodes |-> [owner |-> Zero, registrant |-> Zero, expiryDate |-> 0,
                                         ttl |-> 0, resolver |-> Zero, resolvedAddress |-> Zero]],
           registrations |-> [id \in Names |-> [registrant |-> Zero, expiryDate |-> 0]],
           resolvers |-> [n \in Nodes |-> Zero]]

(***************************************************************************)
(* The handlers, each as the index after the log, with the log's fields.   *)
(***************************************************************************)
HandleRegistryTransfer(ix, node, owner) == [ix EXCEPT !.domains[node].owner = owner]

HandleNewOwner(ix, node, owner) == [ix EXCEPT !.domains[node].owner = owner]

\* Mutant: a resolver switch keeps the address of the old resolver.
HandleNewResolver_KeepAddress(ix, node, resolver) ==
  [ix EXCEPT !.domains[node].resolver = resolver]

HandleNewResolver(ix, node, resolver) ==
  [ix EXCEPT !.domains[node].resolver = resolver, !.domains[node].resolvedAddress = Zero]

HandleNewTTL(ix, node, ttl) == [ix EXCEPT !.domains[node].ttl = ttl]

\* Sets resolver and address of the domain, also when the registry names another resolver.
HandleAddrChanged(ix, node, addr) ==
  [ix EXCEPT !.resolvers[node] = addr,
             !.domains[node].resolver = PublicResolver,
             !.domains[node].resolvedAddress = addr]

HandleVersionChanged(ix, node) ==
  [ix EXCEPT !.resolvers[node] = Zero, !.domains[node].resolvedAddress = Zero]

\* Mutant: a transfer of the token leaves the registration with its first holder.
HandleRegistrarTransfer_DomainOnly(ix, id, to) == [ix EXCEPT !.domains[id].registrant = to]

HandleRegistrarTransfer(ix, id, to) ==
  LET moved == [ix EXCEPT !.domains[id].registrant = to]
  IN IF ix.registrations[id].expiryDate = 0 THEN moved
     ELSE [moved EXCEPT !.registrations[id].registrant = to]

HandleBaseNameRegistered(ix, id, owner, expires) ==
  [ix EXCEPT !.domains[id].registrant = owner, !.domains[id].expiryDate = expires]

HandleBaseNameRenewed(ix, id, expires) == [ix EXCEPT !.domains[id].expiryDate = expires]

HandleControllerNameRegistered(ix, id, owner, expires) ==
  [ix EXCEPT !.domains[id].registrant = owner, !.domains[id].expiryDate = expires,
             !.registrations[id] = [registrant |-> owner, expiryDate |-> expires]]

HandleControllerNameRenewed(ix, id, expires) ==
  LET renewed == [ix EXCEPT !.domains[id].expiryDate = expires]
  IN IF ix.registrations[id].expiryDate = 0 THEN renewed
     ELSE [renewed EXCEPT !.registrations[id].expiryDate = expires]

=============================================================================
