------------------------- MODULE PermitIssuer_proofs -------------------------
(***************************************************************************)
(* Proofs about PermitIssuer, for any number of requesters, names, permits *)
(* and transactions, any windows, and a chain whose clock lags by less     *)
(* than the margin of a lease.                                             *)
(***************************************************************************)
EXTENDS PermitIssuer, TLAPS

\* A permit the controller will not take any more.
Dead(id) == id \in usedPermit \/ blockTime > leases[id].validUntil

\* The lags of the clocks are what the leases reckon with.
ClockFits == now <= blockTime + MaxLag

\* The maps lead to leases that are there; a lease outlives its permit by the margin,
\* and a submitted one is bound to a transaction of its own permit.
StoreFits ==
  /\ \A l \in Labels : leasesByLabel[l] # None =>
        leasesByLabel[l] \in Drawn /\ LabelOf(leasesByLabel[l]) = l
  /\ \A k \in RequestKeys : leasesByRequest[k] # None => leasesByRequest[k] \in Drawn
  /\ \A id \in Drawn : /\ leases[id].expiresAt = leases[id].validUntil + MARGIN
                       /\ leases[id].life <= life
                       /\ leases[id].state = "submitted" =>
                            /\ leases[id].tx \in Txs
                            /\ txs[leases[id].tx].status # "none"
                            /\ txs[leases[id].tx].id = id

\* What the chain knows was issued, and what succeeded was redeemed.
ChainFits ==
  /\ handed \subseteq Drawn /\ usedPermit \subseteq Drawn
  /\ \A t \in Txs : /\ txs[t].status # "none" => txs[t].id \in Drawn
                    /\ txs[t].status = "success" => txs[t].id \in usedPermit
  /\ \A id \in usedPermit : LabelOf(id) \in registered

\* What a task brought from its reads.  A permit that was redeemed for the name of a
\* request after the reads was still valid then.
TaskFits(t) ==
  /\ t.kind \in {"read", "acquire"} => t.at <= blockTime + MaxLag
  /\ t.kind = "acquire" =>
       \A j \in usedPermit : LabelOf(j) = Label[t.request] => t.at <= leases[j].validUntil + MaxLag
  /\ t.kind \in {"sign", "submit", "reconcile"} => t.id \in Drawn
  /\ t.kind = "submit" => txs[t.tx].status # "none" /\ txs[t.tx].id = t.id
  /\ t.kind \in {"submit", "reconcile"} /\ t.seen = "success" => t.id \in usedPermit

TasksFit == \A q \in Requesters : TaskFits(task[q])

\* A lease of this life is only dropped from the map of labels once its permit is dead,
\* and of two leases that compete the permit of one is dead.
OneLease ==
  /\ \A i \in Drawn : leases[i].life = life /\ ~Found(i) => Dead(i)
  /\ \A i, j \in Drawn :
       /\ i # j /\ leases[i].life = leases[j].life
       /\ LabelOf(i) = LabelOf(j) \/ RequesterOf(i) = RequesterOf(j)
       => Dead(i) \/ Dead(j)

IssuerInv ==
  /\ IssuerTypeOK /\ ClockFits /\ StoreFits /\ ChainFits /\ TasksFit
  /\ OutcomeIsTrue /\ OneLease

(***************************************************************************)
(* Leases and tasks.                                                       *)
(***************************************************************************)
LEMMA DrawnLease ==
  ASSUME IssuerTypeOK, NEW id \in Drawn
  PROVE  /\ id \in PermitIds /\ leases[id] \in Lease
         /\ leases[id].request \in Requests /\ leases[id].state \in LeaseState
         /\ leases[id].nonce \in Nat /\ leases[id].issuedAt \in Nat
         /\ leases[id].validUntil \in Nat /\ leases[id].expiresAt \in Nat
         /\ leases[id].life \in Nat /\ leases[id].tx \in Txs \cup {None}
         /\ LabelOf(id) \in Labels /\ RequesterOf(id) \in Requesters
<1>1. id \in PermitIds /\ leases[id] \in Lease
  BY DEF IssuerTypeOK, Drawn
<1>2. /\ leases[id].request \in Requests /\ leases[id].state \in LeaseState
      /\ leases[id].nonce \in Nat /\ leases[id].issuedAt \in Nat
      /\ leases[id].validUntil \in Nat /\ leases[id].expiresAt \in Nat
      /\ leases[id].life \in Nat /\ leases[id].tx \in Txs \cup {None}
  BY <1>1 DEF Lease
<1> QED
  BY <1>1, <1>2, StoreAssumption DEF LabelOf, RequesterOf

LEMMA TaskFields ==
  ASSUME NEW t \in Tasks
  PROVE  /\ t.kind \in {"idle", "read", "acquire", "sign", "submit", "reconcile"}
         /\ t.kind = "read" => t.request \in Requests /\ t.at \in Nat
         /\ t.kind = "acquire" => t.request \in Requests /\ t.at \in Nat /\ t.nonce \in Nat
         /\ t.kind = "sign" => t.id \in PermitIds
         /\ t.kind = "submit" => t.id \in PermitIds /\ t.tx \in Txs /\ t.seen \in Inspections
         /\ t.kind = "reconcile" => t.id \in PermitIds /\ t.seen \in Inspections
  BY DEF Tasks, Idle

LEMMA ClassifiedType ==
  ASSUME NEW seen \in Inspections
  PROVE  /\ Classified(seen) \in LeaseState \ {"leased", "expired"}
         /\ Classified(seen) = "confirmed" => seen = "success"
  BY DEF Classified, Inspections, LeaseState

LEMMA VerdictType ==
  ASSUME NEW id, NEW seen \in Inspections
  PROVE  /\ Verdict(id, seen) \in LeaseState \ {"leased"}
         /\ Verdict(id, seen) = "confirmed" => seen = "success"
         /\ Verdict(id, seen) = "expired" =>
              id \notin usedPermit /\ ~(blockTime <= leases[id].validUntil)
  BY ClassifiedType DEF Verdict, LeaseState

\* What no step takes back.
Grows ==
  /\ \A id \in Drawn : /\ id \in Drawn'
                       /\ leases'[id].request = leases[id].request
                       /\ leases'[id].validUntil = leases[id].validUntil
                       /\ leases'[id].expiresAt = leases[id].expiresAt
                       /\ leases'[id].life = leases[id].life
  /\ blockTime' \in Nat /\ blockTime <= blockTime'
  /\ \A t \in Txs : txs[t].status # "none" =>
                      txs'[t].status # "none" /\ txs'[t].id = txs[t].id
  /\ usedPermit \subseteq usedPermit' /\ registered \subseteq registered'
  /\ \A j \in usedPermit' : j \in usedPermit \/ (j \in Drawn /\ blockTime <= leases[j].validUntil)

LEMMA DeadStays ==
  ASSUME IssuerTypeOK, Grows, NEW id \in Drawn, Dead(id)
  PROVE  Dead(id)'
<1>1. leases[id].validUntil \in Nat /\ blockTime \in Nat
  BY DrawnLease DEF IssuerTypeOK
<1> QED
  BY <1>1 DEF Grows, Dead

LEMMA TaskStays ==
  ASSUME IssuerTypeOK, ChainFits, Grows, NEW t \in Tasks, TaskFits(t)
  PROVE  TaskFits(t)'
<1>0. blockTime \in Nat /\ MaxLag \in Nat
  BY IssuerAssumption DEF IssuerTypeOK
<1>1. (t.kind \in {"read", "acquire"} => t.at <= blockTime + MaxLag)'
  BY <1>0, TaskFields DEF TaskFits, Grows
<1>2. ASSUME t.kind = "acquire", NEW j \in usedPermit', LabelOf(j)' = Label[t.request]
      PROVE  t.at <= leases'[j].validUntil + MaxLag
  <2>1. j \in Drawn
    BY DEF Grows, ChainFits
  <2>2. /\ LabelOf(j) = Label[t.request] /\ leases'[j].validUntil = leases[j].validUntil
        /\ leases[j].validUntil \in Nat
    BY <1>2, <2>1, DrawnLease DEF Grows, LabelOf
  <2>3. t.at \in Nat /\ t.at <= blockTime + MaxLag
    BY <1>2, TaskFields DEF TaskFits
  <2>4. CASE j \in usedPermit
    BY <1>2, <2>2, <2>4 DEF TaskFits
  <2>5. CASE blockTime <= leases[j].validUntil
    BY <1>0, <2>2, <2>3, <2>5
  <2> QED
    BY <2>4, <2>5 DEF Grows
<1>3. (t.kind \in {"sign", "submit", "reconcile"} => t.id \in Drawn)'
  BY DEF TaskFits, Grows
<1>4. (t.kind = "submit" => txs[t.tx].status # "none" /\ txs[t.tx].id = t.id)'
  BY TaskFields DEF TaskFits, Grows
<1>5. (t.kind \in {"submit", "reconcile"} /\ t.seen = "success" => t.id \in usedPermit)'
  BY DEF TaskFits, Grows
<1> QED
  BY <1>1, <1>2, <1>3, <1>4, <1>5 DEF TaskFits

(***************************************************************************)
(* The conjuncts of the invariant, as far as they are alike in all steps.  *)
(***************************************************************************)
\* A step that gives one requester the task t, or none.
LEMMA TasksStay ==
  ASSUME IssuerInv, Grows, NEW q \in Requesters, NEW t, TaskFits(t)',
         task' = task \/ Become(q, t)
  PROVE  TasksFit'
<1> SUFFICES ASSUME NEW p \in Requesters PROVE TaskFits(task[p])'
  BY DEF TasksFit
<1>1. task \in [Requesters -> Tasks]
  BY DEF IssuerInv, IssuerTypeOK
<1>2. CASE task'[p] = t
  BY <1>2 DEF TaskFits
<1>3. CASE task'[p] = task[p]
  <2>1. PICK u \in Tasks : u = task[p]
    BY <1>1
  <2>2. TaskFits(u)
    BY <2>1 DEF IssuerInv, TasksFit
  <2>3. TaskFits(u)'
    BY <2>2, TaskStays DEF IssuerInv
  <2> QED
    BY <1>3, <2>1, <2>3 DEF TaskFits
<1> QED
  BY <1>1, <1>2, <1>3 DEF Become

LEMMA IdleFits == TaskFits(Idle)'
  BY DEF TaskFits, Idle

\* Conclusions that a step does not draw stay true.
LEMMA OutcomeStays ==
  ASSUME IssuerInv, Grows,
         \A id \in Drawn' :
            \/ id \in Drawn /\ leases'[id].state = leases[id].state
            \/ leases'[id].state \notin {"confirmed", "expired"}
            \/ id \in Drawn /\ leases'[id].state = "confirmed" /\ id \in usedPermit
            \/ /\ id \in Drawn /\ leases'[id].state = "expired"
               /\ id \notin usedPermit /\ blockTime > leases[id].validUntil
  PROVE  OutcomeIsTrue'
<1>0. IssuerTypeOK /\ blockTime \in Nat
  BY DEF IssuerInv, IssuerTypeOK
<1>1. ASSUME NEW id \in Drawn, id \in usedPermit
      PROVE  id \in usedPermit' /\ LabelOf(id)' \in registered'
  <2>1. LabelOf(id) \in registered
    BY <1>1 DEF IssuerInv, ChainFits
  <2> QED
    BY <1>1, <2>1 DEF Grows, LabelOf
<1>2. ASSUME NEW id \in Drawn, id \notin usedPermit, blockTime > leases[id].validUntil
      PROVE  id \notin usedPermit' /\ blockTime' > leases'[id].validUntil
  BY <1>0, <1>2, DrawnLease DEF Grows
<1> SUFFICES ASSUME NEW id \in Drawn'
             PROVE  /\ leases'[id].state = "confirmed" =>
                         id \in usedPermit' /\ LabelOf(id)' \in registered'
                    /\ leases'[id].state = "expired" =>
                         id \notin usedPermit' /\ blockTime' > leases'[id].validUntil
  BY DEF OutcomeIsTrue
<1> QED
  BY <1>1, <1>2 DEF IssuerInv, OutcomeIsTrue

\* Competing leases, in a step that grants none and drops none but of dead permits.
LEMMA OneLeaseStays ==
  ASSUME IssuerInv, Grows, Drawn' = Drawn,
         \A i \in Drawn : leases[i].life = life' /\ ~Found(i)' =>
            leases[i].life = life /\ (Found(i) => Dead(i))
  PROVE  OneLease'
<1>1. ASSUME NEW i \in Drawn, leases[i].life = life', ~Found(i)'
      PROVE  Dead(i)'
  BY <1>1, DeadStays DEF IssuerInv, OneLease
<1>2. ASSUME NEW i \in Drawn, NEW j \in Drawn, i # j, leases[i].life = leases[j].life,
             LabelOf(i) = LabelOf(j) \/ RequesterOf(i) = RequesterOf(j)
      PROVE  Dead(i)' \/ Dead(j)'
  <2>1. Dead(i) \/ Dead(j)
    BY <1>2 DEF IssuerInv, OneLease
  <2> QED
    BY <2>1, DeadStays DEF IssuerInv
<1>3. \A i \in Drawn : /\ leases'[i].life = leases[i].life
                       /\ LabelOf(i)' = LabelOf(i) /\ RequesterOf(i)' = RequesterOf(i)
  BY DEF Grows, LabelOf, RequesterOf
<1> QED
  BY <1>1, <1>2, <1>3 DEF OneLease

(***************************************************************************)
(* Steps that only move a task on.                                         *)
(***************************************************************************)
LEMMA TaskStepInv ==
  ASSUME IssuerInv, NEW q \in Requesters, NEW t \in Tasks, TaskFits(t), Become(q, t),
         UNCHANGED <<storeVars, now, chainVars, handed, life>>
  PROVE  IssuerInv'
<1>0. UNCHANGED <<leases, leasesByLabel, leasesByRequest, signed, now, blockTime, nonces,
                  registered, usedPermit, txs, handed, life>>
  BY DEF storeVars, chainVars
<1>1. IssuerTypeOK'
  <2>1. task' \in [Requesters -> Tasks]
    BY DEF Become, IssuerInv, IssuerTypeOK
  <2> QED
    BY <1>0, <2>1 DEF IssuerInv, IssuerTypeOK
<1>2. Grows
  BY <1>0 DEF Grows, Drawn, IssuerInv, IssuerTypeOK
<1>3. ClockFits' /\ StoreFits' /\ ChainFits' /\ OutcomeIsTrue' /\ OneLease'
  BY <1>0 DEF IssuerInv, ClockFits, StoreFits, ChainFits, OutcomeIsTrue, OneLease, Drawn, Dead,
              Found, LabelOf, RequesterOf
<1>4. TasksFit'
  <2>1. TaskFits(t)'
    BY <1>2, TaskStays DEF IssuerInv
  <2> QED
    BY <1>2, <2>1, TasksStay
<1> QED
  BY <1>1, <1>3, <1>4 DEF IssuerInv

LEMMA IdleStepInv ==
  ASSUME IssuerInv, NEW q \in Requesters, Become(q, Idle),
         UNCHANGED <<storeVars, now, chainVars, handed, life>>
  PROVE  IssuerInv'
<1>1. Idle \in Tasks /\ TaskFits(Idle)
  BY DEF Tasks, TaskFits, Idle
<1> QED
  BY <1>1, TaskStepInv

LEMMA IssueStartInv ==
  ASSUME IssuerInv, NEW r \in Requests, IssueStart(r)
  PROVE  IssuerInv'
<1> DEFINE t == [kind |-> "read", request |-> r, at |-> now]
<1>1. t \in Tasks
  BY DEF Tasks, IssuerInv, IssuerTypeOK
<1>2. TaskFits(t)
  BY DEF TaskFits, IssuerInv, ClockFits
<1>3. Requester[r] \in Requesters
  BY StoreAssumption
<1> QED
  BY <1>1, <1>2, <1>3, TaskStepInv DEF IssueStart

LEMMA IssueReadInv ==
  ASSUME IssuerInv, NEW q \in Requesters, IssueRead(q)
  PROVE  IssuerInv'
<1>1. PICK u \in Tasks : u = task[q]
  BY DEF IssuerInv, IssuerTypeOK
<1>2. /\ u.kind = "read" /\ TaskFits(u) /\ u.request \in Requests /\ u.at \in Nat
      /\ Label[u.request] \notin registered
  BY <1>1, TaskFields DEF IssueRead, IssuerInv, TasksFit
<1> DEFINE t == [kind |-> "acquire", request |-> u.request, at |-> u.at, nonce |-> nonces[q]]
<1>3. t \in Tasks
  BY <1>2 DEF Tasks, IssuerInv, IssuerTypeOK
<1>4. TaskFits(t)
  <2>1. \A j \in usedPermit : LabelOf(j) # Label[u.request]
    BY <1>2 DEF IssuerInv, ChainFits
  <2> QED
    BY <1>2, <2>1 DEF TaskFits
<1>5. Become(q, t) /\ UNCHANGED <<storeVars, now, chainVars, handed, life>>
  BY <1>1 DEF IssueRead
<1> QED
  BY <1>3, <1>4, <1>5, TaskStepInv

LEMMA IssueReplayInv ==
  ASSUME IssuerInv, NEW q \in Requesters, IssueReplay(q)
  PROVE  IssuerInv'
<1>1. PICK u \in Tasks : u = task[q]
  BY DEF IssuerInv, IssuerTypeOK
<1> DEFINE id == PriorLease(u.request)
<1>2. /\ u.kind = "acquire" /\ id # None
      /\ Become(q, Idle) \/ Become(q, [kind |-> "sign", id |-> id])
      /\ UNCHANGED <<storeVars, now, chainVars, handed, life>>
  BY <1>1 DEF IssueReplay
<1>3. CASE Become(q, Idle)
  BY <1>2, <1>3, IdleStepInv
<1>4. CASE Become(q, [kind |-> "sign", id |-> id])
  <2>1. RequestKey[u.request] \in RequestKeys
    BY <1>2, TaskFields, StoreAssumption
  <2>2. id \in Drawn
    BY <1>2, <2>1 DEF IssuerInv, StoreFits, PriorLease
  <2> HIDE DEF id
  <2>3. [kind |-> "sign", id |-> id] \in Tasks /\ TaskFits([kind |-> "sign", id |-> id])
    BY <2>2 DEF Tasks, TaskFits, Drawn
  <2> QED
    BY <1>2, <1>4, <2>3, TaskStepInv
<1> QED
  BY <1>2, <1>3, <1>4

LEMMA TaskFailsInv ==
  ASSUME IssuerInv, NEW q \in Requesters, TaskFails(q)
  PROVE  IssuerInv'
  BY IdleStepInv DEF TaskFails

LEMMA InspectionType ==
  ASSUME IssuerInv, NEW t \in Txs, NEW seen \in Inspection(t)
  PROVE  /\ seen \in Inspections
         /\ seen # "unknown" => txs[t].status # "none"
         /\ seen = "success" => txs[t].status = "success"
<1>1. txs[t].status \in {"none", "pending", "reverted", "success"}
  BY DEF IssuerInv, IssuerTypeOK
<1> QED
  BY <1>1 DEF Inspection, Inspections

LEMMA SubmissionStartInv ==
  ASSUME IssuerInv, NEW id \in Drawn, NEW x \in Txs, SubmissionStart(id, x)
  PROVE  IssuerInv'
<1>1. PICK seen \in Inspection(x) \ {"unknown"} :
         Become(RequesterOf(id), [kind |-> "submit", id |-> id, tx |-> x, seen |-> seen])
  BY DEF SubmissionStart
<1> DEFINE t == [kind |-> "submit", id |-> id, tx |-> x, seen |-> seen]
<1>2. /\ seen \in Inspections /\ txs[x].status # "none" /\ txs[x].id = id
      /\ seen = "success" => txs[x].status = "success"
  BY <1>1, InspectionType DEF SubmissionStart
<1>3. t \in Tasks /\ RequesterOf(id) \in Requesters
  BY <1>2, DrawnLease DEF Tasks, IssuerInv
<1>4. TaskFits(t)
  BY <1>2 DEF TaskFits, IssuerInv, ChainFits
<1> QED
  BY <1>1, <1>3, <1>4, TaskStepInv DEF SubmissionStart

LEMMA ReconcileStartInv ==
  ASSUME IssuerInv, NEW id \in Drawn, ReconcileStart(id)
  PROVE  IssuerInv'
<1>1. PICK seen \in Inspection(leases[id].tx) :
         Become(RequesterOf(id), [kind |-> "reconcile", id |-> id, seen |-> seen])
  BY DEF ReconcileStart
<1> DEFINE t == [kind |-> "reconcile", id |-> id, seen |-> seen]
<1>2. leases[id].tx \in Txs /\ txs[leases[id].tx].id = id
  BY DEF ReconcileStart, IssuerInv, StoreFits
<1>3. seen \in Inspections /\ (seen = "success" => txs[leases[id].tx].status = "success")
  BY <1>1, <1>2, InspectionType
<1>4. t \in Tasks /\ RequesterOf(id) \in Requesters
  BY <1>3, DrawnLease DEF Tasks, IssuerInv
<1>5. TaskFits(t)
  BY <1>2, <1>3 DEF TaskFits, IssuerInv, ChainFits
<1> QED
  BY <1>1, <1>4, <1>5, TaskStepInv DEF ReconcileStart

(***************************************************************************)
(* Signatures and outcomes.                                                *)
(***************************************************************************)
LEMMA IssueSignInv ==
  ASSUME IssuerInv, NEW q \in Requesters, IssueSign(q)
  PROVE  IssuerInv'
<1>1. PICK u \in Tasks : u = task[q]
  BY DEF IssuerInv, IssuerTypeOK
<1>2. u.kind = "sign" /\ u.id \in Drawn
  BY <1>1 DEF IssueSign, IssuerInv, TasksFit, TaskFits
<1>3. /\ signed' = signed \cup {u.id} /\ handed' = handed \cup {u.id} /\ Become(q, Idle)
      /\ UNCHANGED <<leases, leasesByLabel, leasesByRequest, now, blockTime, nonces,
                     registered, usedPermit, txs, life>>
  BY <1>1 DEF IssueSign, SaveSignedPermit, chainVars
<1>4. IssuerTypeOK'
  <2>1. task' \in [Requesters -> Tasks] /\ u.id \in PermitIds
    BY <1>2, <1>3 DEF Become, IssuerInv, IssuerTypeOK, Tasks, Drawn
  <2> QED
    BY <1>3, <2>1 DEF IssuerInv, IssuerTypeOK
<1>5. Grows
  BY <1>3 DEF Grows, Drawn, IssuerInv, IssuerTypeOK
<1>6. TasksFit'
  BY <1>3, <1>5, IdleFits, TasksStay
<1>7. ClockFits' /\ StoreFits' /\ OutcomeIsTrue' /\ OneLease'
  BY <1>3 DEF IssuerInv, ClockFits, StoreFits, OutcomeIsTrue, OneLease, Drawn, Dead,
              Found, LabelOf, RequesterOf
<1>8. ChainFits'
  BY <1>2, <1>3 DEF IssuerInv, ChainFits, Drawn, LabelOf
<1> QED
  BY <1>4, <1>6, <1>7, <1>8 DEF IssuerInv

\* A lease moves to the state a receipt or the clocks gave it.
LEMMA MarkInv ==
  ASSUME IssuerInv, NEW q \in Requesters, NEW id \in Drawn,
         NEW to \in LeaseState \ {"leased"}, NEW x \in Txs \cup {None},
         leases' = leases \/ leases' = [leases EXCEPT ![id] = [@ EXCEPT !.state = to, !.tx = x]],
         to = "submitted" => x \in Txs /\ txs[x].status # "none" /\ txs[x].id = id,
         to = "confirmed" => id \in usedPermit,
         to = "expired" => id \notin usedPermit /\ blockTime > leases[id].validUntil,
         Become(q, Idle),
         UNCHANGED <<leasesByLabel, leasesByRequest, signed, now, chainVars, handed, life>>
  PROVE  IssuerInv'
<1>0. /\ UNCHANGED <<blockTime, nonces, registered, usedPermit, txs>>
      /\ leases \in [PermitIds -> Lease \cup {None}] /\ id \in PermitIds
      /\ leases[id] \in Lease
  BY DrawnLease DEF chainVars, IssuerInv, IssuerTypeOK
<1> DEFINE marked == [leases[id] EXCEPT !.state = to, !.tx = x]
<1>1. /\ marked \in Lease /\ marked # None
      /\ marked.state = to /\ marked.tx = x
      /\ marked.request = leases[id].request /\ marked.validUntil = leases[id].validUntil
      /\ marked.expiresAt = leases[id].expiresAt /\ marked.life = leases[id].life
  <2>1. marked \in Lease
    BY <1>0 DEF Lease
  <2> QED
    BY <1>0, <2>1, NoLeaseAssumption DEF Lease
<1> HIDE DEF marked
<1>2. \/ leases' = leases
      \/ leases'[id] = marked /\ \A i \in PermitIds : i # id => leases'[i] = leases[i]
  BY <1>0 DEF marked
<1>3. leases' \in [PermitIds -> Lease \cup {None}]
  BY <1>0, <1>1 DEF marked
<1>4. Drawn' = Drawn
  BY <1>0, <1>1, <1>2 DEF Drawn
<1>5. \A i \in Drawn : /\ leases'[i].request = leases[i].request
                       /\ leases'[i].validUntil = leases[i].validUntil
                       /\ leases'[i].expiresAt = leases[i].expiresAt
                       /\ leases'[i].life = leases[i].life
                       /\ \/ leases'[i] = leases[i]
                          \/ i = id /\ leases'[i].state = to /\ leases'[i].tx = x
  BY <1>1, <1>2 DEF Drawn
<1>6. Grows
  BY <1>0, <1>4, <1>5 DEF Grows, IssuerInv, IssuerTypeOK
<1>7. IssuerTypeOK'
  <2>1. task' \in [Requesters -> Tasks]
    BY DEF Become, IssuerInv, IssuerTypeOK, Tasks
  <2> QED
    BY <1>0, <1>3, <2>1 DEF IssuerInv, IssuerTypeOK
<1>8. TasksFit'
  BY <1>6, IdleFits, TasksStay
<1>9. OutcomeIsTrue'
  BY <1>4, <1>5, <1>6, OutcomeStays
<1>10. OneLease'
  <2>1. \A i \in Drawn : Found(i) => Found(i)'
    BY <1>4, <1>5 DEF Found, Drawn, LabelOf
  <2> QED
    BY <1>4, <1>6, <2>1, OneLeaseStays
<1>11. StoreFits'
  <2>1. \A l \in Labels : leasesByLabel[l] # None =>
           leasesByLabel[l] \in Drawn' /\ LabelOf(leasesByLabel[l])' = l
    BY <1>4, <1>5 DEF IssuerInv, StoreFits, LabelOf
  <2>2. \A i \in Drawn : /\ leases'[i].expiresAt = leases'[i].validUntil + MARGIN
                         /\ leases'[i].life <= life
    BY <1>5 DEF IssuerInv, StoreFits
  <2>3. ASSUME NEW i \in Drawn, leases'[i].state = "submitted"
        PROVE  leases'[i].tx \in Txs /\ txs[leases'[i].tx].status # "none"
               /\ txs[leases'[i].tx].id = i
    BY <1>5, <2>3 DEF IssuerInv, StoreFits
  <2>4. \A l \in Labels : leasesByLabel'[l] # None =>
           leasesByLabel'[l] \in Drawn' /\ LabelOf(leasesByLabel[l])' = l
    BY <2>1
  <2> QED
    BY <1>0, <1>4, <2>2, <2>3, <2>4 DEF StoreFits, IssuerInv
<1>12. ChainFits'
  BY <1>0, <1>4, <1>5 DEF IssuerInv, ChainFits, LabelOf
<1>13. ClockFits'
  BY <1>0 DEF IssuerInv, ClockFits
<1> QED
  BY <1>7, <1>8, <1>9, <1>10, <1>11, <1>12, <1>13 DEF IssuerInv

LEMMA SubmissionEndInv ==
  ASSUME IssuerInv, NEW q \in Requesters, SubmissionEnd(q)
  PROVE  IssuerInv'
<1>1. PICK u \in Tasks : u = task[q]
  BY DEF IssuerInv, IssuerTypeOK
<1>2. u.kind = "submit" /\ TaskFits(u) /\ u.tx \in Txs /\ u.seen \in Inspections
  BY <1>1, TaskFields DEF SubmissionEnd, IssuerInv, TasksFit
<1> DEFINE to == Classified(u.seen)
<1>3. /\ leases' = leases \/ leases' = [leases EXCEPT ![u.id] = [@ EXCEPT !.state = to, !.tx = u.tx]]
      /\ Become(q, Idle)
      /\ UNCHANGED <<leasesByLabel, leasesByRequest, signed, now, chainVars, handed, life>>
  BY <1>1 DEF SubmissionEnd, MarkSubmitted
<1>4. /\ u.id \in Drawn /\ txs[u.tx].status # "none" /\ txs[u.tx].id = u.id
      /\ u.seen = "success" => u.id \in usedPermit
  BY <1>2 DEF TaskFits
<1>5. /\ to \in LeaseState \ {"leased"} /\ to # "expired"
      /\ to = "confirmed" => u.id \in usedPermit
  BY <1>2, <1>4, ClassifiedType
<1> HIDE DEF to
<1> QED
  BY <1>2, <1>3, <1>4, <1>5, MarkInv

LEMMA ReconcileEndInv ==
  ASSUME IssuerInv, NEW q \in Requesters, ReconcileEnd(q)
  PROVE  IssuerInv'
<1>1. PICK u \in Tasks : u = task[q]
  BY DEF IssuerInv, IssuerTypeOK
<1>2. u.kind = "reconcile" /\ TaskFits(u) /\ u.seen \in Inspections
  BY <1>1, TaskFields DEF ReconcileEnd, IssuerInv, TasksFit
<1>3. u.id \in Drawn /\ (u.seen = "success" => u.id \in usedPermit)
  BY <1>2 DEF TaskFits
<1>4. /\ Become(q, Idle)
      /\ UNCHANGED <<leasesByLabel, leasesByRequest, signed, now, chainVars, handed, life>>
      /\ leases' = IF Found(u.id) /\ leases[u.id].state = "submitted"
                   THEN [leases EXCEPT ![u.id].state = Verdict(u.id, u.seen)] ELSE leases
  BY <1>1 DEF ReconcileEnd, MarkOutcome
<1> DEFINE to == Verdict(u.id, u.seen)
           x == leases[u.id].tx
<1>5. /\ to \in LeaseState \ {"leased"}
      /\ to = "confirmed" => u.id \in usedPermit
      /\ to = "expired" => u.id \notin usedPermit /\ blockTime > leases[u.id].validUntil
  <2>1. blockTime \in Nat /\ leases[u.id].validUntil \in Nat
    BY <1>3, DrawnLease DEF IssuerInv, IssuerTypeOK
  <2> QED
    BY <1>2, <1>3, <2>1, VerdictType
<1>6. CASE leases' = leases
  BY <1>4, <1>6, <1>3, IdleStepInv DEF storeVars
<1>7. CASE leases[u.id].state = "submitted" /\ leases' = [leases EXCEPT ![u.id].state = to]
  <2>1. x \in Txs /\ txs[x].status # "none" /\ txs[x].id = u.id
    BY <1>3, <1>7 DEF IssuerInv, StoreFits
  <2>2. [leases[u.id] EXCEPT !.state = to] = [leases[u.id] EXCEPT !.state = to, !.tx = x]
    <3>1. leases[u.id] \in Lease
      BY <1>3, DrawnLease DEF IssuerInv
    <3> QED
      BY <3>1 DEF Lease
  <2>3. leases' = [leases EXCEPT ![u.id] = [@ EXCEPT !.state = to, !.tx = x]]
    BY <1>7, <2>2
  <2> HIDE DEF to, x
  <2> QED
    BY <1>3, <1>4, <1>5, <2>1, <2>3, MarkInv
<1> QED
  BY <1>4, <1>6, <1>7

(***************************************************************************)
(* A new lease.  Every lease of the name or of the requester that stands   *)
(* in no one's way any more belongs to a dead permit.                      *)
(***************************************************************************)

\* The window of a lease that ran out when a task began is over on the chain as well.
LEMMA RanOut ==
  ASSUME IssuerInv, NEW i \in Drawn, NEW at \in Nat, at <= blockTime + MaxLag,
         leases[i].expiresAt <= at
  PROVE  blockTime > leases[i].validUntil
<1>1. /\ leases[i].expiresAt = leases[i].validUntil + MARGIN
      /\ leases[i].validUntil \in Nat /\ blockTime \in Nat
      /\ MARGIN \in Nat /\ MaxLag \in Nat /\ MaxLag < MARGIN
  BY DrawnLease, IssuerAssumption DEF IssuerInv, StoreFits, IssuerTypeOK
<1> QED
  BY <1>1

LEMMA OpenHasGone ==
  ASSUME IssuerInv, NEW i \in Drawn, NEW at \in Nat, at <= blockTime + MaxLag,
         ~Exclusive(i, at)
  PROVE  Dead(i)
<1>1. leases[i].state \in LeaseState /\ leases[i].expiresAt \in Nat
  BY DrawnLease DEF IssuerInv
<1>2. CASE leases[i].state \in {"confirmed", "expired"}
  BY <1>2 DEF IssuerInv, OutcomeIsTrue, Dead
<1>3. CASE leases[i].state \in {"leased", "failed"}
  BY <1>1, <1>3, RanOut DEF Exclusive, Dead
<1> QED
  BY <1>1, <1>2, <1>3 DEF LeaseState, Exclusive

LEMMA IssueAcquireInv ==
  ASSUME IssuerInv, NEW q \in Requesters, NEW id \in PermitIds, IssueAcquire(q, id)
  PROVE  IssuerInv'
<1>1. PICK u \in Tasks : u = task[q]
  BY DEF IssuerInv, IssuerTypeOK
<1> DEFINE r == u.request
           c == [request |-> r, state |-> "leased", nonce |-> u.nonce, issuedAt |-> u.at,
                 validUntil |-> u.at + TTL, expiresAt |-> ExpiresAt(u.at), tx |-> None,
                 life |-> life]
           label == Label[r]
           current == leasesByLabel[label]
           replaced == [leases[current] EXCEPT !.state = "expired"]
<1>2. /\ u.kind = "acquire" /\ TaskFits(u)
      /\ r \in Requests /\ u.at \in Nat /\ u.nonce \in Nat
  BY <1>1, TaskFields DEF IssueAcquire, IssuerInv, TasksFit
<1>3. /\ id \notin Drawn /\ MayAcquire(r, u.at) /\ AcquireLease(id, c)
      /\ Become(q, [kind |-> "sign", id |-> id])
      /\ UNCHANGED <<now, chainVars, handed, life>>
  BY <1>1 DEF IssueAcquire
<1>4. /\ u.at <= blockTime + MaxLag
      /\ \A j \in usedPermit : LabelOf(j) = label => u.at <= leases[j].validUntil + MaxLag
  BY <1>2 DEF TaskFits
<1>5. /\ IssuerTypeOK /\ label \in Labels /\ RequestKey[r] \in RequestKeys
      /\ Requester[r] \in Requesters
      /\ leases \in [PermitIds -> Lease \cup {None}] /\ life \in Nat
      /\ TTL \in Nat /\ MARGIN \in Nat /\ MaxLag \in Nat /\ MaxLag < MARGIN
      /\ leasesByLabel \in [Labels -> PermitIds \cup {None}]
      /\ leasesByRequest \in [RequestKeys -> PermitIds \cup {None}]
      /\ None \notin PermitIds
  BY <1>2, StoreAssumption, IssuerAssumption DEF IssuerInv, IssuerTypeOK
<1>6. /\ UNCHANGED <<now, blockTime, nonces, registered, usedPermit, txs, handed, life, signed>>
      /\ leasesByLabel' = [leasesByLabel EXCEPT ![label] = id]
      /\ leasesByRequest' = [leasesByRequest EXCEPT ![RequestKey[r]] = id]
      /\ leases' = [i \in PermitIds |->
           IF i = id THEN c
           ELSE IF i = current /\ leases[i].state \in {"leased", "failed"}
                THEN [leases[i] EXCEPT !.state = "expired"] ELSE leases[i]]
  BY <1>3 DEF AcquireLease, chainVars
<1>7. c \in Lease /\ c # None
  <2>1. c \in Lease
    BY <1>2, <1>5 DEF Lease, LeaseState, ExpiresAt
  <2> QED
    BY <2>1, NoLeaseAssumption
\* The leases after the step, one by one.
<1>8. ASSUME NEW i \in Drawn, i = current, leases[i].state \in {"leased", "failed"}
      PROVE  i \notin usedPermit /\ blockTime > leases[i].validUntil
  <2>1. LabelOf(i) = label /\ Found(i) /\ leases[i].expiresAt \in Nat
        /\ leases[i].expiresAt = leases[i].validUntil + MARGIN /\ leases[i].validUntil \in Nat
    BY <1>5, <1>8, DrawnLease DEF IssuerInv, StoreFits, Found, Drawn
  <2>2. ~Exclusive(i, u.at)
    BY <1>3, <2>1 DEF MayAcquire, LabelOf
  <2>3. leases[i].expiresAt <= u.at
    BY <1>2, <1>8, <2>1, <2>2 DEF Exclusive
  <2>4. blockTime > leases[i].validUntil
    BY <1>2, <1>4, <2>3, RanOut
  <2>5. ~(u.at <= leases[i].validUntil + MaxLag)
    BY <1>2, <1>5, <2>1, <2>3
  <2> QED
    BY <1>4, <2>1, <2>4, <2>5
<1>9. ASSUME NEW i \in Drawn
      PROVE  /\ i \in Drawn' /\ leases'[i] \in Lease
             /\ leases'[i].request = leases[i].request
             /\ leases'[i].validUntil = leases[i].validUntil
             /\ leases'[i].expiresAt = leases[i].expiresAt
             /\ leases'[i].life = leases[i].life
             /\ leases'[i].tx = leases[i].tx
             /\ \/ leases'[i].state = leases[i].state
                \/ /\ leases'[i].state = "expired" /\ i \notin usedPermit
                   /\ blockTime > leases[i].validUntil
  <2>1. i \in PermitIds /\ i # id /\ leases[i] \in Lease /\ leases[i] # None
    BY <1>3, <1>5, DrawnLease DEF Drawn
  <2>2. CASE i = current /\ leases[i].state \in {"leased", "failed"}
    <3>1. leases'[i] = [leases[i] EXCEPT !.state = "expired"]
      BY <1>6, <2>1, <2>2
    <3>2. /\ leases'[i] \in Lease
          /\ leases'[i].request = leases[i].request
          /\ leases'[i].validUntil = leases[i].validUntil
          /\ leases'[i].expiresAt = leases[i].expiresAt
          /\ leases'[i].life = leases[i].life
          /\ leases'[i].tx = leases[i].tx
          /\ leases'[i].state = "expired"
      BY <2>1, <3>1 DEF Lease, LeaseState
    <3>3. i \in Drawn'
      BY <2>1, <3>2, NoLeaseAssumption DEF Drawn
    <3> QED
      BY <1>8, <2>2, <3>2, <3>3
  <2>3. CASE ~(i = current /\ leases[i].state \in {"leased", "failed"})
    <3>1. leases'[i] = leases[i]
      BY <1>6, <2>1, <2>3
    <3> QED
      BY <2>1, <3>1 DEF Drawn
  <2> QED
    BY <2>2, <2>3
<1>10. /\ leases'[id] = c /\ Drawn' = Drawn \cup {id}
       /\ leases' \in [PermitIds -> Lease \cup {None}]
  <2>1. leases'[id] = c
    BY <1>6
  <2>2. ASSUME NEW i \in PermitIds, i \notin Drawn, i # id PROVE leases'[i] = None
    <3>1. leases[i] = None /\ i # current
      BY <1>5, <2>2 DEF Drawn, IssuerInv, StoreFits
    <3> QED
      BY <1>6, <2>2, <3>1
  <2>3. Drawn' = Drawn \cup {id}
    BY <1>7, <1>9, <2>1, <2>2 DEF Drawn
  <2>4. \A i \in PermitIds : leases'[i] \in Lease \cup {None}
    BY <1>7, <1>9, <2>1, <2>2
  <2> QED
    BY <1>6, <2>1, <2>3, <2>4
<1>11. /\ c.request = r /\ c.state = "leased" /\ c.validUntil = u.at + TTL
       /\ c.expiresAt = u.at + TTL + MARGIN /\ c.life = life
  BY DEF ExpiresAt
<1> HIDE DEF c, current, label, r
<1>12. Grows
  <2>1. /\ UNCHANGED <<blockTime, registered, usedPermit, txs>> /\ blockTime \in Nat
    BY <1>5, <1>6 DEF IssuerTypeOK
  <2>2. \A i \in Drawn : /\ i \in Drawn'
                         /\ leases'[i].request = leases[i].request
                         /\ leases'[i].validUntil = leases[i].validUntil
                         /\ leases'[i].expiresAt = leases[i].expiresAt
                         /\ leases'[i].life = leases[i].life
    BY <1>9
  <2> QED
    BY <2>1, <2>2 DEF Grows
<1>13. IssuerTypeOK'
  <2>1. task' \in [Requesters -> Tasks]
    BY <1>3 DEF Become, IssuerInv, IssuerTypeOK, Tasks
  <2>2. /\ leasesByLabel' \in [Labels -> PermitIds \cup {None}]
        /\ leasesByRequest' \in [RequestKeys -> PermitIds \cup {None}]
    BY <1>5, <1>6
  <2> QED
    BY <1>6, <1>10, <2>1, <2>2 DEF IssuerInv, IssuerTypeOK
<1>14. TasksFit'
  <2>1. TaskFits([kind |-> "sign", id |-> id])'
    BY <1>10 DEF TaskFits
  <2> QED
    BY <1>3, <1>12, <2>1, TasksStay
<1>15. OutcomeIsTrue'
  BY <1>9, <1>10, <1>11, <1>12, OutcomeStays
<1>16. StoreFits'
  <2>1. ASSUME NEW l \in Labels, leasesByLabel'[l] # None
        PROVE  leasesByLabel'[l] \in Drawn' /\ Label[leases'[leasesByLabel'[l]].request] = l
    <3>1. CASE l = label
      <4>1. leasesByLabel'[l] = id /\ Label[leases'[id].request] = label
        BY <1>5, <1>6, <1>10, <1>11, <3>1 DEF label
      <4> QED
        BY <1>10, <3>1, <4>1
    <3>2. CASE l # label
      <4>1. leasesByLabel'[l] = leasesByLabel[l] /\ leasesByLabel[l] \in Drawn
        BY <1>5, <1>6, <2>1, <3>2 DEF IssuerInv, StoreFits
      <4>2. Label[leases[leasesByLabel[l]].request] = l
        BY <2>1, <4>1 DEF IssuerInv, StoreFits, LabelOf
      <4> QED
        BY <1>9, <4>1, <4>2
    <3> QED
      BY <3>1, <3>2
  <2>2. \A k \in RequestKeys : leasesByRequest'[k] # None => leasesByRequest'[k] \in Drawn'
    BY <1>5, <1>6, <1>10 DEF IssuerInv, StoreFits
  <2>3. ASSUME NEW i \in Drawn'
        PROVE  /\ leases'[i].expiresAt = leases'[i].validUntil + MARGIN
               /\ leases'[i].life <= life
               /\ leases'[i].state = "submitted" =>
                    /\ leases'[i].tx \in Txs /\ txs[leases'[i].tx].status # "none"
                    /\ txs[leases'[i].tx].id = i
    <3>1. CASE i = id
      BY <1>5, <1>10, <1>11, <3>1
    <3>2. CASE i \in Drawn
      BY <1>9, <3>2 DEF IssuerInv, StoreFits
    <3> QED
      BY <1>10, <3>1, <3>2
  <2> QED
    BY <1>6, <2>1, <2>2, <2>3 DEF StoreFits, LabelOf
<1>17. ChainFits'
  <2>1. UNCHANGED <<registered, usedPermit, txs, handed>>
    BY <1>6
  <2>2. \A i \in usedPermit : LabelOf(i)' = LabelOf(i) /\ LabelOf(i) \in registered
    BY <1>9 DEF IssuerInv, ChainFits, LabelOf
  <2> QED
    BY <1>10, <2>1, <2>2 DEF IssuerInv, ChainFits
<1>18. ClockFits'
  BY <1>6 DEF IssuerInv, ClockFits
<1>19. OneLease'
  <2>1. ASSUME NEW i \in Drawn, Found(i), LabelOf(i) = label \/ RequesterOf(i) = Requester[r]
        PROVE  Dead(i)
    <3>1. ~Exclusive(i, u.at)
      BY <1>3, <2>1 DEF MayAcquire, label
    <3> QED
      BY <1>2, <1>4, <3>1, OpenHasGone
  <2>2. \A i \in Drawn : /\ leases'[i].life = leases[i].life
                         /\ LabelOf(i)' = LabelOf(i) /\ RequesterOf(i)' = RequesterOf(i)
    BY <1>9 DEF LabelOf, RequesterOf
  <2>3. /\ LabelOf(id)' = label /\ RequesterOf(id)' = Requester[r] /\ leases'[id].life = life
        /\ id \in Drawn' /\ leases'[id] # None
    BY <1>7, <1>10, <1>11 DEF LabelOf, RequesterOf, label
  <2>4. Found(id)'
    BY <1>5, <1>6, <2>3 DEF Found
  <2>5. ASSUME NEW i \in Drawn, leases[i].life = life, ~Found(i)'
        PROVE  Dead(i)'
    <3>1. CASE Found(i)
      <4>1. LabelOf(i) = label
        BY <1>5, <1>6, <1>9, <2>2, <2>5, <3>1, DrawnLease DEF Found, Drawn
      <4> QED
        BY <1>5, <1>12, <2>1, <3>1, <4>1, DeadStays
    <3>2. CASE ~Found(i)
      BY <1>5, <1>12, <2>5, <3>2, DeadStays DEF IssuerInv, OneLease
    <3> QED
      BY <3>1, <3>2
  <2>6. ASSUME NEW i \in Drawn, leases[i].life = life,
               LabelOf(i) = label \/ RequesterOf(i) = Requester[r]
        PROVE  Dead(i)'
    <3>1. Dead(i)
      BY <2>1, <2>6 DEF IssuerInv, OneLease
    <3> QED
      BY <1>5, <1>12, <3>1, DeadStays
  <2>7. ASSUME NEW i \in Drawn, NEW j \in Drawn, i # j, leases[i].life = leases[j].life,
               LabelOf(i) = LabelOf(j) \/ RequesterOf(i) = RequesterOf(j)
        PROVE  Dead(i)' \/ Dead(j)'
    BY <1>5, <1>12, <2>7, DeadStays DEF IssuerInv, OneLease
  <2>8. ASSUME NEW i \in Drawn', NEW j \in Drawn', i # j, leases'[i].life = leases'[j].life,
               LabelOf(i)' = LabelOf(j)' \/ RequesterOf(i)' = RequesterOf(j)'
        PROVE  Dead(i)' \/ Dead(j)'
    BY <1>10, <2>2, <2>3, <2>6, <2>7, <2>8
  <2>9. ASSUME NEW i \in Drawn', leases'[i].life = life', ~Found(i)'
        PROVE  Dead(i)'
    BY <1>6, <1>10, <2>2, <2>4, <2>5, <2>9
  <2> QED
    BY <2>8, <2>9 DEF OneLease
<1> QED
  BY <1>13, <1>14, <1>15, <1>16, <1>17, <1>18, <1>19 DEF IssuerInv

(***************************************************************************)
(* The process and its clocks.                                             *)
(***************************************************************************)
LEMMA CleanupInv ==
  ASSUME IssuerInv, Cleanup
  PROVE  IssuerInv'
<1> DEFINE Old(id) == id # None /\ leases[id].expiresAt <= now - RETENTION
<1>1. /\ now >= RETENTION /\ RETENTION \in Nat /\ now \in Nat
      /\ UNCHANGED <<leases, task, now, blockTime, nonces, registered, usedPermit, txs, handed,
                     life>>
      /\ leasesByLabel' = [l \in Labels |->
            IF Old(leasesByLabel[l]) THEN None ELSE leasesByLabel[l]]
      /\ leasesByRequest' = [k \in RequestKeys |->
            IF Old(leasesByRequest[k]) THEN None ELSE leasesByRequest[k]]
      /\ signed' \subseteq signed
  BY IssuerAssumption DEF Cleanup, CleanupExpiredState, chainVars, IssuerInv, IssuerTypeOK
<1> HIDE DEF Old
<1>2. \A l \in Labels : leasesByLabel'[l] \in {None, leasesByLabel[l]}
  BY <1>1
<1>3. \A k \in RequestKeys : leasesByRequest'[k] \in {None, leasesByRequest[k]}
  BY <1>1
<1>4. Drawn' = Drawn
  BY <1>1 DEF Drawn
<1>5. IssuerTypeOK'
  <2>1. leasesByLabel' \in [Labels -> PermitIds \cup {None}]
    BY <1>1 DEF IssuerInv, IssuerTypeOK
  <2>2. leasesByRequest' \in [RequestKeys -> PermitIds \cup {None}]
    BY <1>1 DEF IssuerInv, IssuerTypeOK
  <2> QED
    BY <1>1, <2>1, <2>2 DEF IssuerInv, IssuerTypeOK
<1>6. Grows
  BY <1>1, <1>4 DEF Grows, IssuerInv, IssuerTypeOK
<1>7. TasksFit'
  BY <1>1 DEF IssuerInv, TasksFit, TaskFits, Drawn, LabelOf
<1>8. OutcomeIsTrue' /\ ClockFits' /\ ChainFits'
  BY <1>1 DEF IssuerInv, OutcomeIsTrue, ClockFits, ChainFits, Drawn, LabelOf
<1>9. StoreFits'
  BY <1>1, <1>2, <1>3, <1>4 DEF IssuerInv, StoreFits, LabelOf
<1>10. OneLease'
  <2>1. ASSUME NEW i \in Drawn, ~Found(i)', Found(i)
        PROVE  Dead(i)
    <3>1. Old(i)
      <4>1. LabelOf(i) \in Labels /\ leasesByLabel[LabelOf(i)] = i /\ LabelOf(i)' = LabelOf(i)
        BY <1>1, <2>1, DrawnLease DEF Found, IssuerInv, LabelOf
      <4>2. leasesByLabel'[LabelOf(i)] # i
        BY <1>1, <2>1, <4>1 DEF Found
      <4> QED
        BY <1>1, <4>1, <4>2
    <3>2. leases[i].expiresAt <= now /\ now <= blockTime + MaxLag
      BY <1>1, <3>1, DrawnLease DEF Old, IssuerInv, ClockFits
    <3> QED
      BY <1>1, <3>2, RanOut DEF Dead
  <2> QED
    BY <1>1, <1>4, <1>6, <2>1, OneLeaseStays
<1> QED
  BY <1>5, <1>7, <1>8, <1>9, <1>10 DEF IssuerInv

LEMMA RestartInv ==
  ASSUME IssuerInv, Restart
  PROVE  IssuerInv'
<1>1. /\ life' = life + 1 /\ life \in Nat
      /\ leasesByLabel' = [l \in Labels |-> None]
      /\ leasesByRequest' = [k \in RequestKeys |-> None]
      /\ signed' = {} /\ task' = [q \in Requesters |-> Idle]
      /\ UNCHANGED <<leases, now, blockTime, nonces, registered, usedPermit, txs, handed>>
  BY DEF Restart, ResetStore, chainVars, IssuerInv, IssuerTypeOK
<1>2. Drawn' = Drawn
  BY <1>1 DEF Drawn
<1>3. IssuerTypeOK'
  <2>1. task' \in [Requesters -> Tasks]
    BY <1>1 DEF Tasks
  <2> QED
    BY <1>1, <2>1 DEF IssuerInv, IssuerTypeOK
<1>4. Grows
  BY <1>1, <1>2 DEF Grows, IssuerInv, IssuerTypeOK
<1>5. TasksFit'
  BY <1>1 DEF TasksFit, TaskFits, Idle
<1>6. OutcomeIsTrue' /\ ClockFits' /\ ChainFits'
  BY <1>1 DEF IssuerInv, OutcomeIsTrue, ClockFits, ChainFits, Drawn, LabelOf
<1>7. \A i \in Drawn : leases[i].life <= life /\ leases[i].life \in Nat
  BY DrawnLease DEF IssuerInv, StoreFits
<1>8. StoreFits'
  BY <1>1, <1>2, <1>7 DEF IssuerInv, StoreFits
<1>9. OneLease'
  BY <1>1, <1>2, <1>4, <1>7, OneLeaseStays
<1> QED
  BY <1>3, <1>5, <1>6, <1>8, <1>9 DEF IssuerInv

\* Steps of the world: the store and the tasks stay, and what the chain does is in order.
LEMMA WorldInv ==
  ASSUME IssuerInv, IssuerTypeOK', ClockFits', Grows,
         UNCHANGED <<storeVars, task, handed, life>>,
         \A t \in Txs : /\ txs'[t].status # "none" => txs'[t].id \in Drawn
                        /\ txs'[t].status = "success" => txs'[t].id \in usedPermit',
         \A id \in usedPermit' \ usedPermit : id \in Drawn /\ LabelOf(id) \in registered'
  PROVE  IssuerInv'
<1>1. /\ UNCHANGED <<leases, leasesByLabel, leasesByRequest, signed, task, handed, life>>
      /\ Drawn' = Drawn
      /\ \A id \in Drawn : LabelOf(id)' = LabelOf(id)
      /\ registered \subseteq registered'
  BY DEF storeVars, Drawn, LabelOf, Grows
<1>2. TasksFit'
  <2> SUFFICES ASSUME NEW q \in Requesters PROVE TaskFits(task[q])'
    BY DEF TasksFit
  <2>1. PICK u \in Tasks : u = task[q]
    BY DEF IssuerInv, IssuerTypeOK
  <2>2. TaskFits(u)
    BY <2>1 DEF IssuerInv, TasksFit
  <2>3. TaskFits(u)'
    BY <2>2, TaskStays DEF IssuerInv
  <2> QED
    BY <1>1, <2>1, <2>3 DEF TaskFits
<1>3. OutcomeIsTrue'
  BY <1>1, OutcomeStays
<1>4. OneLease'
  BY <1>1, OneLeaseStays DEF Found, LabelOf
<1>5. StoreFits'
  BY <1>1 DEF IssuerInv, StoreFits, LabelOf, Grows
<1>6. ChainFits'
  <2>1. ASSUME NEW id \in usedPermit' PROVE id \in Drawn /\ LabelOf(id)' \in registered'
    BY <1>1 DEF IssuerInv, ChainFits
  <2>2. handed' \subseteq Drawn' /\ usedPermit' \subseteq Drawn'
    BY <1>1, <2>1 DEF IssuerInv, ChainFits
  <2>3. \A t \in Txs : /\ txs'[t].status # "none" => txs'[t].id \in Drawn'
                       /\ txs'[t].status = "success" => txs'[t].id \in usedPermit'
    BY <1>1
  <2> QED
    BY <2>1, <2>2, <2>3 DEF ChainFits
<1> QED
  BY <1>2, <1>3, <1>4, <1>5, <1>6 DEF IssuerInv

LEMMA ClocksInv ==
  ASSUME IssuerInv, Tick \/ NewBlock
  PROVE  IssuerInv'
<1>1. /\ UNCHANGED <<storeVars, task, handed, life, nonces, registered, usedPermit, txs>>
      /\ UNCHANGED <<leases, leasesByLabel, leasesByRequest, signed>>
      /\ now' \in Nat /\ blockTime' \in 0 .. now' /\ blockTime <= blockTime'
      /\ now' <= blockTime' + MaxLag
  BY IssuerAssumption DEF Tick, NewBlock, chainVars, storeVars, IssuerInv, IssuerTypeOK, ClockFits
<1>2. IssuerTypeOK' /\ ClockFits'
  BY <1>1 DEF IssuerInv, IssuerTypeOK, ClockFits
<1>3. Grows
  BY <1>1 DEF Grows, Drawn, IssuerInv
<1> QED
  BY <1>1, <1>2, <1>3, WorldInv DEF IssuerInv, ChainFits

LEMMA SendInv ==
  ASSUME IssuerInv, NEW t \in Txs, NEW id \in handed, Send(t, id)
  PROVE  IssuerInv'
<1>1. /\ UNCHANGED <<storeVars, task, handed, life, now, blockTime, nonces, registered, usedPermit>>
      /\ UNCHANGED <<leases, leasesByLabel, leasesByRequest, signed>>
      /\ txs[t].status = "none"
      /\ txs' = [txs EXCEPT ![t] = [id |-> id, status |-> "pending"]]
      /\ id \in Drawn /\ id \in PermitIds
  BY DEF Send, storeVars, IssuerInv, ChainFits, IssuerTypeOK
<1>2. /\ txs'[t] = [id |-> id, status |-> "pending"]
      /\ \A x \in Txs : x # t => txs'[x] = txs[x]
      /\ txs' \in [Txs -> [id : PermitIds \cup {None},
                          status : {"none", "pending", "reverted", "success"}]]
  BY <1>1 DEF IssuerInv, IssuerTypeOK
<1>3. IssuerTypeOK' /\ ClockFits'
  BY <1>1, <1>2 DEF IssuerInv, IssuerTypeOK, ClockFits
<1>4. Grows
  <2>1. \A x \in Txs : txs[x].status # "none" => txs'[x] = txs[x]
    BY <1>1, <1>2
  <2>2. UNCHANGED <<leases, blockTime, registered, usedPermit>> /\ blockTime \in Nat
    BY <1>1 DEF IssuerInv, IssuerTypeOK
  <2> QED
    BY <2>1, <2>2 DEF Grows, Drawn
<1>5. \A x \in Txs : /\ txs'[x].status # "none" => txs'[x].id \in Drawn
                     /\ txs'[x].status = "success" => txs'[x].id \in usedPermit'
  BY <1>1, <1>2 DEF IssuerInv, ChainFits
<1> QED
  BY <1>1, <1>3, <1>4, <1>5, WorldInv

LEMMA MineInv ==
  ASSUME IssuerInv, NEW t \in Txs, Mine(t)
  PROVE  IssuerInv'
<1> DEFINE id == txs[t].id
<1>1. /\ txs[t].status = "pending"
      /\ UNCHANGED <<storeVars, task, handed, life, now, blockTime>>
      /\ UNCHANGED <<leases, leasesByLabel, leasesByRequest, signed>>
      /\ id \in Drawn /\ id \in PermitIds
      /\ RequesterOf(id) \in Requesters /\ LabelOf(id) \in Labels
      /\ txs \in [Txs -> [id : PermitIds \cup {None},
                         status : {"none", "pending", "reverted", "success"}]]
      /\ blockTime \in Nat
  BY DrawnLease DEF Mine, storeVars, IssuerInv, ChainFits, IssuerTypeOK
<1>2. PICK status \in {"reverted", "success"} :
         /\ txs' = [txs EXCEPT ![t].status = status]
         /\ \/ /\ status = "success" /\ usedPermit' = usedPermit \cup {id}
               /\ nonces' = [nonces EXCEPT ![RequesterOf(id)] = @ + 1]
               /\ registered' = registered \cup {LabelOf(id)}
               /\ blockTime <= leases[id].validUntil
            \/ status = "reverted" /\ UNCHANGED <<usedPermit, nonces, registered>>
  BY DEF Mine, Redeemable
<1>3. /\ txs'[t].status = status /\ txs'[t].id = id
      /\ \A x \in Txs : x # t => txs'[x] = txs[x]
      /\ txs' \in [Txs -> [id : PermitIds \cup {None},
                          status : {"none", "pending", "reverted", "success"}]]
  BY <1>1, <1>2
<1> HIDE DEF id
<1>4. IssuerTypeOK' /\ ClockFits'
  <2>1. nonces' \in [Requesters -> Nat]
    BY <1>1, <1>2 DEF IssuerInv, IssuerTypeOK
  <2>2. usedPermit' \subseteq PermitIds /\ registered' \subseteq Labels
    BY <1>1, <1>2 DEF IssuerInv, IssuerTypeOK
  <2> QED
    BY <1>1, <1>3, <2>1, <2>2 DEF IssuerInv, IssuerTypeOK, ClockFits
<1>5. Grows
  <2>1. \A x \in Txs : txs[x].status # "none" =>
           txs'[x].status # "none" /\ txs'[x].id = txs[x].id
    BY <1>2, <1>3 DEF id
  <2>2. \A j \in usedPermit' : j \in usedPermit
                               \/ (j \in Drawn /\ blockTime <= leases[j].validUntil)
    BY <1>1, <1>2
  <2>3. usedPermit \subseteq usedPermit' /\ registered \subseteq registered'
    BY <1>2
  <2> QED
    BY <1>1, <2>1, <2>2, <2>3 DEF Grows, Drawn
<1>6. \A x \in Txs : /\ txs'[x].status # "none" => txs'[x].id \in Drawn
                     /\ txs'[x].status = "success" => txs'[x].id \in usedPermit'
  BY <1>1, <1>2, <1>3 DEF IssuerInv, ChainFits
<1>7. \A j \in usedPermit' \ usedPermit : j \in Drawn /\ LabelOf(j) \in registered'
  BY <1>1, <1>2
<1> QED
  BY <1>1, <1>4, <1>5, <1>6, <1>7, WorldInv

(***************************************************************************)
(* Every step, and the theorems.                                           *)
(***************************************************************************)
LEMMA IssuerInitInv == IssuerInit => IssuerInv
<1> SUFFICES ASSUME IssuerInit PROVE IssuerInv
  OBVIOUS
<1>1. Drawn = {} /\ task = [q \in Requesters |-> Idle]
  BY DEF IssuerInit, StoreInit, Drawn
<1>2. IssuerTypeOK
  BY DEF IssuerInit, StoreInit, IssuerTypeOK, Tasks
<1>3. ClockFits /\ StoreFits /\ ChainFits
  BY <1>1, IssuerAssumption DEF IssuerInit, StoreInit, ClockFits, StoreFits, ChainFits
<1>4. TasksFit /\ OutcomeIsTrue /\ OneLease
  BY <1>1 DEF TasksFit, TaskFits, Idle, OutcomeIsTrue, OneLease
<1> QED
  BY <1>2, <1>3, <1>4 DEF IssuerInv

LEMMA IssuerNextInv == IssuerInv /\ [IssuerNext]_vars => IssuerInv'
<1> SUFFICES ASSUME IssuerInv, [IssuerNext]_vars
             PROVE  IssuerInv'
  OBVIOUS
<1>1. ASSUME NEW r \in Requests, IssueStart(r) PROVE IssuerInv'
  BY <1>1, IssueStartInv
<1>2. ASSUME NEW q \in Requesters, TaskStep(q) PROVE IssuerInv'
  BY <1>2, IssueReadInv, IssueAcquireInv, IssueReplayInv, IssueSignInv, SubmissionEndInv,
     ReconcileEndInv, TaskFailsInv DEF TaskStep, IssueStep
<1>3. ASSUME NEW id \in Drawn, ReconcileStart(id) PROVE IssuerInv'
  BY <1>3, ReconcileStartInv
<1>4. ASSUME NEW id \in Drawn, NEW t \in Txs, SubmissionStart(id, t) PROVE IssuerInv'
  BY <1>4, SubmissionStartInv
<1>5. ASSUME NEW t \in Txs, Mine(t) \/ \E id \in handed : Send(t, id) PROVE IssuerInv'
  BY <1>5, MineInv, SendInv
<1>6. CASE NewBlock \/ Tick
  BY <1>6, ClocksInv
<1>7. CASE Cleanup \/ Restart
  BY <1>7, CleanupInv, RestartInv
<1>8. CASE UNCHANGED vars
  BY <1>8 DEF vars, storeVars, chainVars, IssuerInv, IssuerTypeOK, ClockFits, StoreFits, ChainFits,
              TasksFit, TaskFits, OutcomeIsTrue, OneLease, Drawn, Dead, Found, LabelOf, RequesterOf
<1> QED
  BY <1>1, <1>2, <1>3, <1>4, <1>5, <1>6, <1>7, <1>8 DEF IssuerNext

LEMMA IssuerInvariance == IssuerSpec => []IssuerInv
  BY IssuerInitInv, IssuerNextInv, PTL DEF IssuerSpec

\* Every variable keeps its type, and a lease stays in one of the states the code tests for.
THEOREM IssuerTypeCorrect == IssuerSpec => []IssuerTypeOK
<1>1. IssuerInv => IssuerTypeOK
  BY DEF IssuerInv
<1> QED
  BY <1>1, IssuerInvariance, PTL

\* What the issuer concluded of a permit is what the chain did and will do with it,
\* for any number of requesters, permits, transactions and restarts.
THEOREM OutcomesAreTrue == IssuerSpec => []OutcomeIsTrue
<1>1. IssuerInv => OutcomeIsTrue
  BY DEF IssuerInv
<1> QED
  BY <1>1, IssuerInvariance, PTL

\* One process never has two permits out that can be redeemed and that compete for a
\* name or a nonce, as long as the chain lags by less than the margin of a lease.
THEOREM OneOpenPermitCorrect == IssuerSpec => []OneOpenPermit
<1>1. IssuerInv => OneOpenPermit
  <2> SUFFICES ASSUME IssuerInv, NEW i \in handed, NEW j \in handed, i # j,
                      leases[i].life = leases[j].life, OpenPermit(i), OpenPermit(j)
               PROVE  LabelOf(i) # LabelOf(j) /\ RequesterOf(i) # RequesterOf(j)
    BY DEF OneOpenPermit
  <2>1. i \in Drawn /\ j \in Drawn
    BY DEF IssuerInv, ChainFits
  <2>2. ~Dead(i) /\ ~Dead(j)
    <3>1. blockTime \in Nat /\ leases[i].validUntil \in Nat /\ leases[j].validUntil \in Nat
      BY <2>1, DrawnLease DEF IssuerInv, IssuerTypeOK
    <3> QED
      BY <3>1 DEF OpenPermit, Dead
  <2> QED
    BY <2>1, <2>2 DEF IssuerInv, OneLease
<1> QED
  BY <1>1, IssuerInvariance, PTL

\* The maps of the store never lead astray, whatever cleanup, restarts and concurrent
\* requests did between two reads: a label leads to a lease of that label, and a lease that
\* waits for its receipt is bound to a transaction that carries its own permit.
THEOREM LeasesAreBound ==
  IssuerSpec =>
    [](/\ \A l \in Labels : leasesByLabel[l] # None =>
            leasesByLabel[l] \in Drawn /\ LabelOf(leasesByLabel[l]) = l
       /\ \A id \in Drawn : leases[id].state = "submitted" =>
            leases[id].tx \in Txs /\ txs[leases[id].tx].id = id)
<1>1. IssuerInv =>
        /\ \A l \in Labels : leasesByLabel[l] # None =>
             leasesByLabel[l] \in Drawn /\ LabelOf(leasesByLabel[l]) = l
        /\ \A id \in Drawn : leases[id].state = "submitted" =>
             leases[id].tx \in Txs /\ txs[leases[id].tx].id = id
  BY DEF IssuerInv, StoreFits
<1> QED
  BY <1>1, IssuerInvariance, PTL

(***************************************************************************)
(* A repeated request.                                                     *)
(***************************************************************************)
\* Cleanup may have dropped the lease, and with it the key of its request.
Forgotten(id) == leases[id].expiresAt + RETENTION <= now

KeyOf(id) == RequestKey[leases[id].request]

\* The key of a request leads to its lease until the lease is forgotten, so of two
\* leases under one key one is forgotten.
KeysFit ==
  /\ \A i \in Drawn : leases[i].life = life => leasesByRequest[KeyOf(i)] = i \/ Forgotten(i)
  /\ \A i, j \in Drawn : i # j /\ KeyOf(i) = KeyOf(j) /\ leases[i].life = leases[j].life =>
       Forgotten(i) \/ Forgotten(j)

\* What a step leaves of the leases that are there.
Keeps(id) ==
  /\ leases'[id].request = leases[id].request
  /\ leases'[id].expiresAt = leases[id].expiresAt
  /\ leases'[id].life = leases[id].life

LEMMA ForgottenStays ==
  ASSUME IssuerInv, now <= now', now' \in Nat, NEW id \in Drawn, Keeps(id), Forgotten(id)
  PROVE  Forgotten(id)'
<1>1. now \in Nat /\ RETENTION \in Nat /\ leases[id].expiresAt \in Nat
  BY DrawnLease, IssuerAssumption DEF IssuerInv, IssuerTypeOK
<1> QED
  BY <1>1 DEF Forgotten, Keeps

LEMMA KeysStay ==
  ASSUME IssuerInv, KeysFit, Drawn' = Drawn, \A id \in Drawn : Keeps(id),
         now <= now', now' \in Nat, UNCHANGED <<leasesByRequest, life>>
  PROVE  KeysFit'
<1>1. \A id \in Drawn : Forgotten(id) => Forgotten(id)'
  BY ForgottenStays
<1> QED
  BY <1>1 DEF KeysFit, Keeps, KeyOf

\* A method of the store that only moves the state of one lease.
LEMMA KeysMark ==
  ASSUME IssuerInv, KeysFit, NEW id \in Drawn, NEW state \in LeaseState, NEW tx \in Txs \cup {None},
         \/ leases' = leases
         \/ leases' = [leases EXCEPT ![id].state = state]
         \/ leases' = [leases EXCEPT ![id].state = state, ![id].tx = tx],
         UNCHANGED <<leasesByRequest, life, now>>
  PROVE  KeysFit'
<1>1. /\ leases \in [PermitIds -> Lease \cup {None}] /\ now \in Nat
      /\ id \in PermitIds /\ leases[id] \in Lease
  BY DrawnLease DEF IssuerInv, IssuerTypeOK
<1>2. CASE leases' = leases
  <2>1. Drawn' = Drawn /\ \A i \in Drawn : Keeps(i)
    BY <1>2 DEF Drawn, Keeps
  <2> QED
    BY <1>1, <2>1, KeysStay
<1>3. CASE \/ leases' = [leases EXCEPT ![id].state = state]
           \/ leases' = [leases EXCEPT ![id].state = state, ![id].tx = tx]
  <2>1. leases'[id] \in Lease /\ Keeps(id)
    BY <1>1, <1>3 DEF Lease, Keeps
  <2>2. \A i \in PermitIds \ {id} : leases'[i] = leases[i]
    BY <1>1, <1>3
  <2>3. Drawn' = Drawn
    BY <1>1, <2>1, <2>2, NoLeaseAssumption DEF Drawn
  <2>4. \A i \in Drawn : Keeps(i)
    BY <2>1, <2>2 DEF Keeps, Drawn
  <2> QED
    BY <1>1, <2>3, <2>4, KeysStay
<1> QED
  BY <1>2, <1>3

\* A new lease comes under a key that led nowhere.
LEMMA KeysAcquire ==
  ASSUME IssuerInv, KeysFit, NEW q \in Requesters, NEW id \in PermitIds, IssueAcquire(q, id)
  PROVE  KeysFit'
<1>1. PICK u \in Tasks : u = task[q]
  BY DEF IssuerInv, IssuerTypeOK
<1> DEFINE r == u.request
           c == [request |-> r, state |-> "leased", nonce |-> u.nonce, issuedAt |-> u.at,
                 validUntil |-> u.at + TTL, expiresAt |-> ExpiresAt(u.at), tx |-> None,
                 life |-> life]
           current == leasesByLabel[Label[r]]
<1>2. /\ u.kind = "acquire" /\ id \notin Drawn /\ PriorLease(r) = None
      /\ leases' = [i \in PermitIds |->
            IF i = id THEN c
            ELSE IF i = current /\ leases[i].state \in {"leased", "failed"}
                 THEN [leases[i] EXCEPT !.state = "expired"] ELSE leases[i]]
      /\ leasesByRequest' = [leasesByRequest EXCEPT ![RequestKey[r]] = id]
      /\ UNCHANGED <<now, life>>
  BY <1>1 DEF IssueAcquire, MayAcquire, AcquireLease
<1>3. r \in Requests /\ RequestKey[r] \in RequestKeys
  BY <1>2, TaskFields, StoreAssumption
<1>4. /\ leases \in [PermitIds -> Lease \cup {None}] /\ now \in Nat
      /\ leasesByLabel \in [Labels -> PermitIds \cup {None}] /\ Label[r] \in Labels
      /\ leasesByRequest \in [RequestKeys -> PermitIds \cup {None}] /\ None \notin PermitIds
  BY <1>3, StoreAssumption DEF IssuerInv, IssuerTypeOK
<1>5. ASSUME NEW i \in Drawn PROVE i # id /\ Keeps(i)
  <2>1. i \in PermitIds /\ i # id /\ leases[i] \in Lease
    BY <1>2, DrawnLease DEF IssuerInv
  <2> HIDE DEF c, current
  <2>2. leases'[i] = leases[i] \/ leases'[i] = [leases[i] EXCEPT !.state = "expired"]
    BY <1>2, <2>1
  <2> QED
    BY <2>1, <2>2 DEF Keeps, Lease
<1>6. leases'[id].request = r /\ leases'[id].life = life
  BY <1>2
<1> HIDE DEF c, r
<1>7. Drawn' \subseteq Drawn \cup {id}
  <2> SUFFICES ASSUME NEW i \in PermitIds, i \notin Drawn, i # id PROVE leases'[i] = None
    BY DEF Drawn
  <2>1. leases[i] = None /\ i # current
    BY <1>4 DEF Drawn, IssuerInv, StoreFits
  <2> QED
    BY <1>2, <2>1
<1>8. ASSUME NEW i \in Drawn, leases[i].life = life, KeyOf(i) = RequestKey[r]
      PROVE  Forgotten(i)
  <2>1. leasesByRequest[KeyOf(i)] = None /\ i # None
    BY <1>2, <1>4, <1>8 DEF PriorLease, Drawn
  <2> QED
    BY <1>8, <2>1 DEF KeysFit
<1>9. \A i \in Drawn : Forgotten(i) => Forgotten(i)'
  BY <1>2, <1>4, <1>5, ForgottenStays
<1>10. \A i \in Drawn : KeyOf(i)' = KeyOf(i) /\ leases'[i].life = leases[i].life
  BY <1>5 DEF Keeps, KeyOf
<1>11. KeyOf(id)' = RequestKey[r]
  BY <1>6 DEF KeyOf
<1>12. ASSUME NEW i \in Drawn', leases'[i].life = life'
       PROVE  leasesByRequest'[KeyOf(i)'] = i \/ Forgotten(i)'
  <2>1. CASE i = id
    BY <1>2, <1>3, <1>4, <1>11, <2>1
  <2>2. CASE i \in Drawn /\ KeyOf(i) = RequestKey[r]
    BY <1>2, <1>8, <1>9, <1>10, <1>12, <2>2
  <2>3. CASE i \in Drawn /\ KeyOf(i) # RequestKey[r]
    <3>1. leases[i].request \in Requests
      BY <2>3, DrawnLease DEF IssuerInv
    <3>2. KeyOf(i) \in RequestKeys
      BY <3>1, StoreAssumption DEF KeyOf
    <3>3. leasesByRequest'[KeyOf(i)] = leasesByRequest[KeyOf(i)]
      BY <1>2, <1>4, <2>3, <3>2
    <3> QED
      BY <1>2, <1>9, <1>10, <1>12, <2>3, <3>3 DEF KeysFit
  <2> QED
    BY <1>7, <2>1, <2>2, <2>3
<1>13. ASSUME NEW i \in Drawn, leases'[i].life = life, KeyOf(i)' = RequestKey[r]
       PROVE  Forgotten(i)'
  BY <1>8, <1>9, <1>10, <1>13
<1>14. ASSUME NEW i \in Drawn', NEW j \in Drawn', i # j, KeyOf(i)' = KeyOf(j)',
              leases'[i].life = leases'[j].life
       PROVE  Forgotten(i)' \/ Forgotten(j)'
  <2>1. CASE i = id
    BY <1>6, <1>7, <1>11, <1>13, <1>14, <2>1
  <2>2. CASE j = id
    BY <1>6, <1>7, <1>11, <1>13, <1>14, <2>2
  <2>3. CASE i # id /\ j # id
    BY <1>7, <1>9, <1>10, <1>14, <2>3 DEF KeysFit
  <2> QED
    BY <2>1, <2>2, <2>3
<1> QED
  BY <1>12, <1>14 DEF KeysFit

LEMMA KeysCleanup ==
  ASSUME IssuerInv, KeysFit, Cleanup
  PROVE  KeysFit'
<1> DEFINE Old(id) == id # None /\ leases[id].expiresAt <= now - RETENTION
<1>1. /\ now >= RETENTION /\ RETENTION \in Nat /\ now \in Nat
      /\ UNCHANGED <<leases, now, life>>
      /\ leasesByRequest' = [k \in RequestKeys |->
            IF Old(leasesByRequest[k]) THEN None ELSE leasesByRequest[k]]
  BY IssuerAssumption DEF Cleanup, CleanupExpiredState, IssuerInv, IssuerTypeOK
<1> HIDE DEF Old
<1>2. Drawn' = Drawn
  BY <1>1 DEF Drawn
<1>3. ASSUME NEW i \in Drawn, leases[i].life = life, leasesByRequest[KeyOf(i)] = i
      PROVE  leasesByRequest'[KeyOf(i)] = i \/ Forgotten(i)
  <2>1. leases[i].request \in Requests /\ leases[i].expiresAt \in Nat
    BY DrawnLease DEF IssuerInv
  <2>2. KeyOf(i) \in RequestKeys
    BY <2>1, StoreAssumption DEF KeyOf
  <2>3. CASE Old(i)
    BY <1>1, <2>1, <2>3 DEF Old, Forgotten
  <2>4. CASE ~Old(i)
    BY <1>1, <1>3, <2>2, <2>4
  <2> QED
    BY <2>3, <2>4
<1>4. \A i \in Drawn : KeyOf(i)' = KeyOf(i) /\ Forgotten(i)' = Forgotten(i)
  BY <1>1 DEF KeyOf, Forgotten
<1> QED
  BY <1>1, <1>2, <1>3, <1>4 DEF KeysFit

LEMMA KeysRestart ==
  ASSUME IssuerInv, KeysFit, Restart
  PROVE  KeysFit'
<1>1. UNCHANGED <<leases, now>> /\ life' = life + 1 /\ life \in Nat
  BY DEF Restart, ResetStore, chainVars, IssuerInv, IssuerTypeOK
<1>2. \A i \in Drawn : leases[i].life <= life /\ leases[i].life \in Nat
  BY DrawnLease DEF IssuerInv, StoreFits
<1> QED
  BY <1>1, <1>2 DEF KeysFit, Drawn, KeyOf, Forgotten

\* Steps that leave the store alone.
LEMMA KeysAlone ==
  ASSUME IssuerInv, KeysFit, UNCHANGED <<leases, leasesByRequest, life>>, now <= now', now' \in Nat
  PROVE  KeysFit'
<1>1. Drawn' = Drawn /\ \A id \in Drawn : Keeps(id)
  BY DEF Drawn, Keeps
<1> QED
  BY <1>1, KeysStay

LEMMA KeysTask ==
  ASSUME IssuerInv, KeysFit, NEW q \in Requesters, TaskStep(q)
  PROVE  KeysFit'
<1>0. now \in Nat /\ now <= now
  BY DEF IssuerInv, IssuerTypeOK
<1>1. CASE IssueRead(q) \/ IssueReplay(q) \/ IssueSign(q) \/ TaskFails(q)
  <2>1. UNCHANGED <<leases, leasesByRequest, life, now>>
    BY <1>1 DEF IssueRead, IssueReplay, IssueSign, TaskFails, SaveSignedPermit, storeVars
  <2> QED
    BY <1>0, <2>1, KeysAlone
<1>2. ASSUME NEW id \in PermitIds, IssueAcquire(q, id) PROVE KeysFit'
  BY <1>2, KeysAcquire
<1>3. PICK u \in Tasks : u = task[q] /\ TaskFits(u)
  BY DEF IssuerInv, IssuerTypeOK, TasksFit
<1>4. CASE SubmissionEnd(q)
  <2>1. u.kind = "submit" /\ u.id \in Drawn /\ u.tx \in Txs /\ u.seen \in Inspections
    BY <1>3, <1>4, TaskFields DEF SubmissionEnd, TaskFits
  <2>2. Classified(u.seen) \in LeaseState
    BY <2>1, ClassifiedType
  <2>3. /\ UNCHANGED <<leasesByRequest, life, now>>
        /\ \/ leases' = leases
           \/ leases' = [leases EXCEPT ![u.id].state = Classified(u.seen), ![u.id].tx = u.tx]
    BY <1>3, <1>4 DEF SubmissionEnd, MarkSubmitted
  <2> QED
    BY <2>1, <2>2, <2>3, KeysMark
<1>5. CASE ReconcileEnd(q)
  <2>1. u.kind = "reconcile" /\ u.id \in Drawn /\ u.seen \in Inspections
    BY <1>3, <1>5, TaskFields DEF ReconcileEnd, TaskFits
  <2>2. Verdict(u.id, u.seen) \in LeaseState
    BY <2>1, VerdictType
  <2>3. /\ UNCHANGED <<leasesByRequest, life, now>>
        /\ \/ leases' = leases
           \/ leases' = [leases EXCEPT ![u.id].state = Verdict(u.id, u.seen)]
    BY <1>3, <1>5 DEF ReconcileEnd, MarkOutcome
  <2> QED
    BY <2>1, <2>2, <2>3, KeysMark
<1> QED
  BY <1>1, <1>2, <1>4, <1>5 DEF TaskStep, IssueStep

LEMMA KeysNext == IssuerInv /\ KeysFit /\ [IssuerNext]_vars => KeysFit'
<1> SUFFICES ASSUME IssuerInv, KeysFit, [IssuerNext]_vars PROVE KeysFit'
  OBVIOUS
<1>0. now \in Nat /\ now <= now /\ now <= now + 1
  BY DEF IssuerInv, IssuerTypeOK
<1>1. ASSUME NEW q \in Requesters, TaskStep(q) PROVE KeysFit'
  BY <1>1, KeysTask
<1>2. CASE \/ \E r \in Requests : IssueStart(r)
           \/ \E id \in Drawn : ReconcileStart(id) \/ \E t \in Txs : SubmissionStart(id, t)
           \/ \E t \in Txs : Mine(t) \/ \E id \in handed : Send(t, id)
           \/ NewBlock \/ UNCHANGED vars
  <2>1. UNCHANGED <<leases, leasesByRequest, life, now>>
    BY <1>2 DEF IssueStart, ReconcileStart, SubmissionStart, Mine, Send, NewBlock, vars, storeVars
  <2> QED
    BY <1>0, <2>1, KeysAlone
<1>3. CASE Tick
  <2>1. UNCHANGED <<leases, leasesByRequest, life>> /\ now' = now + 1
    BY <1>3 DEF Tick, storeVars
  <2> QED
    BY <1>0, <2>1, KeysAlone
<1>4. CASE Cleanup \/ Restart
  BY <1>4, KeysCleanup, KeysRestart
<1> QED
  BY <1>1, <1>2, <1>3, <1>4 DEF IssuerNext

\* A request that is repeated under its key never gets a second permit as long as the
\* process lives and keeps the first lease, which is until RETENTION after its end:
\* not while it runs, and not once it was redeemed, has failed or was given up.
\* (acquireLease, cleanupExpiredState)
THEOREM RequestsKeepTheirPermit ==
  IssuerSpec =>
    [](\A i, j \in Drawn :
         /\ i # j /\ leases[i].life = leases[j].life
         /\ RequestKey[leases[i].request] = RequestKey[leases[j].request]
         => leases[i].expiresAt + RETENTION <= now \/ leases[j].expiresAt + RETENTION <= now)
<1>1. IssuerInit => KeysFit
  BY DEF IssuerInit, StoreInit, KeysFit, Drawn
<1>2. KeysFit =>
        \A i, j \in Drawn :
          /\ i # j /\ leases[i].life = leases[j].life
          /\ RequestKey[leases[i].request] = RequestKey[leases[j].request]
          => leases[i].expiresAt + RETENTION <= now \/ leases[j].expiresAt + RETENTION <= now
  BY DEF KeysFit, KeyOf, Forgotten
<1> QED
  BY <1>1, <1>2, KeysNext, IssuerInvariance, PTL DEF IssuerSpec

=============================================================================
