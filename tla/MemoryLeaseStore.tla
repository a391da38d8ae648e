-------------------------- MODULE MemoryLeaseStore --------------------------
(***************************************************************************)
(* apps/permit-issuer/src/domain.ts: the leases of the permit issuer, kept *)
(* in one process under their label and under their request, and the       *)
(* permits it has signed.  The maps hold references to one lease object,   *)
(* so here they hold permit ids and the lease is found under its id.  No      *)
(* method awaits anything outside the process: each is one operator, which *)
(* the service uses inside an action.  Challenges and rate limits, which   *)
(* only refuse a request, are not in the model, nor is release, which      *)
(* nothing calls.                                                          *)
(***************************************************************************)
EXTENDS Naturals

CONSTANTS
  Requesters, Labels,
  Requests,      \* a request id with the intent it was sent with (its fingerprint)
  RequestKeys,   \* <requester>:<requestId>
  Requester, Label, RequestKey,   \* of a request
  PermitIds,     \* bound: the permit ids that are ever drawn
  Txs,           \* bound: the transactions that are ever sent
  None

ASSUME StoreAssumption ==
  /\ Requester \in [Requests -> Requesters]
  /\ Label \in [Requests -> Labels]
  /\ RequestKey \in [Requests -> RequestKeys]
  /\ \A r, s \in Requests : RequestKey[r] = RequestKey[s] => Requester[r] = Requester[s]
  /\ None \notin PermitIds \cup Txs

VARIABLES
  leases,            \* the lease object of a permit id
  leasesByLabel,
  leasesByRequest,
  signed             \* the permit ids in the map of signed permits

storeVars == <<leases, leasesByLabel, leasesByRequest, signed>>

LeaseState ==
  {"leased", "submitted", "confirmed", "expired", "failed", "manual_review"}

Lease == [request : Requests, state : LeaseState, nonce : Nat, issuedAt : Nat,
          validUntil : Nat, expiresAt : Nat, tx : Txs \cup {None}, life : Nat]

ASSUME NoLeaseAssumption == None \notin Lease

\* The ids that were given to a lease; an id is 32 random bytes and never drawn again.
Drawn == {id \in PermitIds : leases[id] # None}

StoreInit ==
  /\ leases = [id \in PermitIds |-> None]
  /\ leasesByLabel = [l \in Labels |-> None]
  /\ leasesByRequest = [k \in RequestKeys |-> None]
  /\ signed = {}

LabelOf(id) == Label[leases[id].request]
RequesterOf(id) == Requester[leases[id].request]

\* getLease looks a permit id up among the current leases of the labels.
Found(id) == leases[id] # None /\ leasesByLabel[LabelOf(id)] = id

\* A lease that keeps others away from its label and its requester at a time.
Exclusive(id, at) ==
  \/ leases[id].state \in {"submitted", "manual_review"}
  \/ leases[id].state \in {"leased", "failed"} /\ leases[id].expiresAt > at

\* The lease a repeated request gets again.
PriorLease(request) == leasesByRequest[RequestKey[request]]

\* Neither conflict of acquireLease.  Its second idempotent outcome, for the label's
\* own lease, is never reached: that lease is already a conflict of its requester.
MayAcquire(request, at) ==
  /\ PriorLease(request) = None
  /\ \A id \in Drawn : Found(id) /\ Exclusive(id, at) =>
       RequesterOf(id) # Requester[request] /\ LabelOf(id) # Label[request]

\* The candidate enters both maps; the lease it replaces under the label, if still open, expired.
AcquireLease(id, candidate) ==
  LET current == leasesByLabel[Label[candidate.request]]
  IN /\ leases' = [i \in PermitIds |->
            IF i = id THEN candidate
            ELSE IF i = current /\ leases[i].state \in {"leased", "failed"}
                 THEN [leases[i] EXCEPT !.state = "expired"] ELSE leases[i]]
     /\ leasesByLabel' = [leasesByLabel EXCEPT ![Label[candidate.request]] = id]
     /\ leasesByRequest' = [leasesByRequest EXCEPT ![RequestKey[candidate.request]] = id]
     /\ UNCHANGED signed

\* markSubmitted, and then one of the others when there is a receipt already: the
\* lease is looked up again, and left alone when it moved on or was dropped meanwhile.
MarkSubmitted(id, tx, to) ==
  /\ leases' = IF Found(id) /\ leases[id].state = "leased"
               THEN [leases EXCEPT ![id].state = to, ![id].tx = tx] ELSE leases
  /\ UNCHANGED <<leasesByLabel, leasesByRequest, signed>>

\* markConfirmed, markFailed, markManualReview, markExpired.
MarkOutcome(id, to) ==
  /\ leases' = IF Found(id) /\ leases[id].state = "submitted"
               THEN [leases EXCEPT ![id].state = to] ELSE leases
  /\ UNCHANGED <<leasesByLabel, leasesByRequest, signed>>

SaveSignedPermit(id) ==
  /\ signed' = signed \cup {id}
  /\ UNCHANGED <<leases, leasesByLabel, leasesByRequest>>

\* cleanupExpiredState: by age, in whatever state the lease is.
CleanupExpiredState(cutoff) ==
  LET Old(id) == id # None /\ leases[id].expiresAt <= cutoff
  IN /\ leasesByLabel' = [l \in Labels |->
            IF Old(leasesByLabel[l]) THEN None ELSE leasesByLabel[l]]
     /\ leasesByRequest' = [k \in RequestKeys |->
            IF Old(leasesByRequest[k]) THEN None ELSE leasesByRequest[k]]
     /\ signed' = {id \in signed :
            id \in {leasesByRequest[k] : k \in RequestKeys} \cup {leasesByLabel[l] : l \in Labels}
              => ~Old(id)}
     /\ UNCHANGED leases

\* The process stops and starts again with empty maps.
ResetStore ==
  /\ leasesByLabel' = [l \in Labels |-> None]
  /\ leasesByRequest' = [k \in RequestKeys |-> None]
  /\ signed' = {}
  /\ UNCHANGED leases

=============================================================================
