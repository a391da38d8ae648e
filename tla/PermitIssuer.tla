---------------------------- MODULE PermitIssuer ----------------------------
(***************************************************************************)
(* apps/permit-issuer/src/service.ts over its store and the chain.  Work   *)
(* for one requester runs under withRequesterLock, so each requester has   *)
(* at most one task; a task gives way at the awaits that leave the process *)
(* (chain reads, signer) and runs on from there while everything else may  *)
(* have moved.  A call that still waits for the lock has no state.         *)
(*                                                                         *)
(* The chain is ArcRegistrarController as far as the issuer can see it.    *)
(* Its clock, the timestamp of the newest block, runs behind the issuer's. *)
(***************************************************************************)
EXTENDS MemoryLeaseStore

CONSTANTS
  TTL,           \* policy.ttlSeconds
  MARGIN,        \* the 30 seconds a lease outlives its permit
  SKEW,          \* the 5 seconds validAfter lies before issuedAt
  RETENTION,     \* the 15 minutes after which cleanup drops a lease
  MaxLag,        \* bound: how far the newest block lies behind the issuer's clock
  MaxNow,        \* bound on the issuer's clock
  MaxRestarts    \* bound on the restarts

ASSUME IssuerAssumption ==
  /\ {TTL, MARGIN, SKEW, RETENTION, MaxLag, MaxNow, MaxRestarts} \subseteq Nat
  /\ MaxLag < MARGIN

VARIABLES
  task,          \* what runs under the lock of a requester
  now,           \* the issuer's clock
  blockTime,     \* block.timestamp
  nonces,        \* of the controller
  registered,    \* the labels whose name is not available
  usedPermit,    \* of the controller
  txs,           \* the register transactions: permit id and status
  handed,        \* the permits whose signature left the process: what requesters can send
  life           \* how often the process was started again

chainVars == <<blockTime, nonces, registered, usedPermit, txs>>
vars == <<storeVars, task, now, chainVars, handed, life>>

Idle == [kind |-> "idle"]
Inspections == {"unknown", "pending", "reverted", "success", "invalid"}
Tasks ==
  {Idle} \cup [kind : {"read"}, request : Requests, at : Nat]
         \cup [kind : {"acquire"}, request : Requests, at : Nat, nonce : Nat]
         \cup [kind : {"sign"}, id : PermitIds]
         \cup [kind : {"submit"}, id : PermitIds, tx : Txs, seen : Inspections]
         \cup [kind : {"reconcile"}, id : PermitIds, seen : Inspections]

IssuerInit ==
  /\ StoreInit
  /\ task = [q \in Requesters |-> Idle]
  /\ now = 0 /\ blockTime = 0
  /\ nonces = [q \in Requesters |-> 0]
  /\ registered = {} /\ usedPermit = {}
  /\ txs = [t \in Txs |-> [id |-> None, status |-> "none"]]
  /\ handed = {}
  /\ life = 0

Locked(q) == task[q] # Idle
Become(q, t) == task' = [task EXCEPT ![q] = t]

(***************************************************************************)
(* issue, once its requester's lock is taken and the live policy was read. *)
(* A refusal, a stale quote, and a failing RPC or signer end it at any of  *)
(* its awaits and leave the store as it is.                                *)
(***************************************************************************)
IssueStart(r) ==
  /\ ~Locked(Requester[r])
  /\ Become(Requester[r], [kind |-> "read", request |-> r, at |-> now])
  /\ UNCHANGED <<storeVars, now, chainVars, handed, life>>

\* Quote, nonce and availability come from one multicall.
IssueRead(q) ==
  /\ task[q].kind = "read"
  /\ Label[task[q].request] \notin registered
  /\ Become(q, [kind |-> "acquire", request |-> task[q].request, at |-> task[q].at,
                nonce |-> nonces[q]])
  /\ UNCHANGED <<storeVars, now, chainVars, handed, life>>

\* Mutant: the lease ends with its permit.
ExpiresAt_NoMargin(at) == at + TTL

ExpiresAt(at) == at + TTL + MARGIN

IssueAcquire(q, id) ==
  LET r == task[q].request
      at == task[q].at
  IN /\ task[q].kind = "acquire"
     /\ ExpiresAt(at) <= MaxNow         \* bound: the clock still shows how it ends
     /\ id \notin Drawn
     /\ MayAcquire(r, at)
     /\ AcquireLease(id, [request |-> r, state |-> "leased", nonce |-> task[q].nonce,
          issuedAt |-> at, validUntil |-> at + TTL, expiresAt |-> ExpiresAt(at),
          tx |-> None, life |-> life])
     /\ Become(q, [kind |-> "sign", id |-> id])
     /\ UNCHANGED <<now, chainVars, handed, life>>

\* A retry meets the lease of its first attempt: it gets the signature that was stored,
\* or has the stored permit signed when the first attempt did not get that far.
IssueReplay(q) ==
  LET r == task[q].request
      id == PriorLease(r)
  IN /\ task[q].kind = "acquire"
     /\ id # None /\ leases[id].request = r
     /\ leases[id].validUntil >= task[q].at /\ leases[id].expiresAt > task[q].at
     /\ IF id \in signed
        THEN Become(q, Idle)
        ELSE leases[id].state = "leased" /\ Become(q, [kind |-> "sign", id |-> id])
     /\ UNCHANGED <<storeVars, now, chainVars, handed, life>>

IssueSign(q) ==
  /\ task[q].kind = "sign"
  /\ SaveSignedPermit(task[q].id)
  /\ handed' = handed \cup {task[q].id}
  /\ Become(q, Idle)
  /\ UNCHANGED <<now, chainVars, life>>

TaskFails(q) ==
  /\ Locked(q)
  /\ Become(q, Idle)
  /\ UNCHANGED <<storeVars, now, chainVars, handed, life>>

(***************************************************************************)
(* Submissions.  inspectSubmission may not see a transaction yet, or not   *)
(* its receipt.  When a read that verifies a mined registration fails, it  *)
(* catches the error and answers "invalid"; an error before ends the task. *)
(***************************************************************************)
Inspection(t) ==
  CASE txs[t].status = "none" -> {"unknown"}
    [] txs[t].status = "pending" -> {"unknown", "pending"}
    [] txs[t].status = "reverted" -> {"unknown", "pending", "reverted"}
    [] OTHER -> {"unknown", "pending", "success", "invalid"}

\* recordSubmission up to its answer from the chain; an unknown or foreign
\* transaction is refused.
SubmissionStart(id, t) ==
  /\ Found(id) /\ leases[id].state = "leased"
  /\ ~Locked(RequesterOf(id))
  /\ txs[t].id = id
  /\ \E seen \in Inspection(t) \ {"unknown"} :
       Become(RequesterOf(id), [kind |-> "submit", id |-> id, tx |-> t, seen |-> seen])
  /\ UNCHANGED <<storeVars, now, chainVars, handed, life>>

\* What a receipt says of the lease.
Classified(seen) ==
  CASE seen = "success" -> "confirmed"
    [] seen = "reverted" -> "failed"
    [] seen = "invalid" -> "manual_review"
    [] OTHER -> "submitted"

SubmissionEnd(q) ==
  /\ task[q].kind = "submit"
  /\ MarkSubmitted(task[q].id, task[q].tx, Classified(task[q].seen))
  /\ Become(q, Idle)
  /\ UNCHANGED <<now, chainVars, handed, life>>

\* reconcileSubmitted takes the submitted leases one after the other, each under the
\* lock of its requester, and asks for the transaction the lease is bound to.
ReconcileStart(id) ==
  /\ Found(id) /\ leases[id].state = "submitted"
  /\ ~Locked(RequesterOf(id))
  /\ \A q \in Requesters : task[q].kind # "reconcile"
  /\ \E seen \in Inspection(leases[id].tx) :
       Become(RequesterOf(id), [kind |-> "reconcile", id |-> id, seen |-> seen])
  /\ UNCHANGED <<storeVars, now, chainVars, handed, life>>

\* Mutant: the state of the receipt is stored as it is.
Verdict_Receipt(id, seen) == seen

\* Mutant: the proof of expiry does not ask whether the permit was used.
Verdict_NotUsed(id, seen) ==
  IF seen \notin {"unknown", "pending"} THEN Classified(seen)
  ELSE IF now < leases[id].expiresAt \/ blockTime <= leases[id].validUntil THEN "submitted"
  ELSE "expired"

\* Mutant: without a receipt the lease stays as it is.
Verdict_WaitForReceipt(id, seen) ==
  IF seen \notin {"unknown", "pending"} THEN Classified(seen) ELSE "submitted"

\* Without a receipt, a lease ends when the chain's own clock passed the permit.
Verdict(id, seen) ==
  IF seen \notin {"unknown", "pending"} THEN Classified(seen)
  ELSE IF now < leases[id].expiresAt \/ blockTime <= leases[id].validUntil THEN "submitted"
  ELSE IF id \in usedPermit THEN "manual_review" ELSE "expired"

ReconcileEnd(q) ==
  /\ task[q].kind = "reconcile"
  /\ MarkOutcome(task[q].id, Verdict(task[q].id, task[q].seen))
  /\ Become(q, Idle)
  /\ UNCHANGED <<now, chainVars, handed, life>>

(***************************************************************************)
(* The process.                                                            *)
(***************************************************************************)
Cleanup ==
  /\ now >= RETENTION
  /\ CleanupExpiredState(now - RETENTION)
  /\ UNCHANGED <<task, now, chainVars, handed, life>>

Restart ==
  /\ life < MaxRestarts
  /\ life' = life + 1
  /\ ResetStore
  /\ task' = [q \in Requesters |-> Idle]
  /\ UNCHANGED <<now, chainVars, handed>>

Tick ==
  /\ now < MaxNow /\ now - blockTime < MaxLag
  /\ now' = now + 1
  /\ UNCHANGED <<storeVars, task, chainVars, handed, life>>

(***************************************************************************)
(* The chain: register with the checks that depend on time and state.      *)
(***************************************************************************)
NewBlock ==
  /\ blockTime < now
  /\ blockTime' = blockTime + 1
  /\ UNCHANGED <<storeVars, task, now, nonces, registered, usedPermit, txs, handed, life>>

Send(t, id) ==
  /\ txs[t].status = "none"
  /\ txs' = [txs EXCEPT ![t] = [id |-> id, status |-> "pending"]]
  /\ UNCHANGED <<storeVars, task, now, blockTime, nonces, registered, usedPermit, handed, life>>

\* A permit the controller takes now.
Redeemable(id) ==
  /\ leases[id].issuedAt <= blockTime + SKEW
  /\ blockTime <= leases[id].validUntil
  /\ id \notin usedPermit
  /\ leases[id].nonce = nonces[RequesterOf(id)]
  /\ LabelOf(id) \notin registered

Mine(t) ==
  LET id == txs[t].id
  IN /\ txs[t].status = "pending"
     /\ IF Redeemable(id)
        THEN /\ txs' = [txs EXCEPT ![t].status = "success"]
             /\ usedPermit' = usedPermit \cup {id}
             /\ nonces' = [nonces EXCEPT ![RequesterOf(id)] = @ + 1]
             /\ registered' = registered \cup {LabelOf(id)}
        ELSE /\ txs' = [txs EXCEPT ![t].status = "reverted"]
             /\ UNCHANGED <<usedPermit, nonces, registered>>
     /\ UNCHANGED <<storeVars, task, now, blockTime, handed, life>>

(***************************************************************************)
(* Next.                                                                   *)
(***************************************************************************)
IssueStep(q) ==
  \/ IssueRead(q)
  \/ \E id \in PermitIds : IssueAcquire(q, id)
  \/ IssueReplay(q)
  \/ IssueSign(q)

TaskStep(q) ==
  Locked(q) /\ (IssueStep(q) \/ SubmissionEnd(q) \/ ReconcileEnd(q) \/ TaskFails(q))

IssuerNext ==
  \/ \E r \in Requests : IssueStart(r)
  \/ \E q \in Requesters : TaskStep(q)
  \/ \E id \in Drawn : ReconcileStart(id) \/ \E t \in Txs : SubmissionStart(id, t)
  \/ \E t \in Txs : Mine(t) \/ \E id \in handed : Send(t, id)
  \/ NewBlock \/ Tick
  \/ Cleanup \/ Restart

IssuerSpec == IssuerInit /\ [][IssuerNext]_vars

\* Clocks run; a call to chain or signer answers or fails; the timer of reconciliation
\* and the queue of the lock come round to every submitted lease; and an RPC that is
\* asked about it again and again answers in the end.
IssuerFairSpec ==
  /\ IssuerSpec
  /\ WF_vars(Tick) /\ WF_vars(NewBlock)
  /\ \A q \in Requesters : WF_vars(TaskStep(q)) /\ SF_vars(ReconcileEnd(q))
  /\ \A id \in PermitIds : SF_vars(ReconcileStart(id))

(***************************************************************************)
(* Properties.                                                             *)
(***************************************************************************)
\* A permit that left the process and that the controller takes, or will once its
\* window opens.
OpenPermit(id) ==
  /\ id \in handed
  /\ blockTime <= leases[id].validUntil
  /\ id \notin usedPermit
  /\ leases[id].nonce = nonces[RequesterOf(id)]
  /\ LabelOf(id) \notin registered

\* Every variable keeps its type: in particular a lease is in one of the states that
\* the code tests for, whatever the chain answered.
IssuerTypeOK ==
  /\ leases \in [PermitIds -> Lease \cup {None}]
  /\ leasesByLabel \in [Labels -> PermitIds \cup {None}]
  /\ leasesByRequest \in [RequestKeys -> PermitIds \cup {None}]
  /\ signed \subseteq PermitIds /\ handed \subseteq PermitIds /\ usedPermit \subseteq PermitIds
  /\ registered \subseteq Labels
  /\ task \in [Requesters -> Tasks]
  /\ now \in Nat /\ blockTime \in 0 .. now /\ life \in Nat
  /\ nonces \in [Requesters -> Nat]
  /\ txs \in [Txs -> [id : PermitIds \cup {None},
                    status : {"none", "pending", "reverted", "success"}]]

\* As long as the process lives, it never has two permits out that can still be redeemed
\* and that compete for one name or one nonce: the lock is per requester, the reads lie
\* before the lease, and the newest block lies behind the clock of the lease.
OneOpenPermit ==
  \A i, j \in handed :
    /\ i # j /\ leases[i].life = leases[j].life
    /\ OpenPermit(i) /\ OpenPermit(j)
    => LabelOf(i) # LabelOf(j) /\ RequesterOf(i) # RequesterOf(j)

\* What the issuer concluded of a permit is final: a confirmed one was redeemed, and an
\* expired one was not and never will be, though its transaction may still be pending.
OutcomeIsTrue ==
  \A id \in Drawn :
    /\ leases[id].state = "confirmed" => id \in usedPermit /\ LabelOf(id) \in registered
    /\ leases[id].state = "expired" => id \notin usedPermit /\ blockTime > leases[id].validUntil

WaitsForReceipt(id) == Found(id) /\ leases[id].state = "submitted"

\* A submitted lease does not keep its name and its requester closed for ever, even when
\* its transaction is never mined or never seen again: reconciliation settles it, unless
\* cleanup drops it first.
SubmittedIsSettled == \A id \in PermitIds : WaitsForReceipt(id) ~> ~WaitsForReceipt(id)

\* service.ts:468: "A transient RPC failure leaves the submitted lease closed for retry."
\* Before its window ends, a lease whose transaction registered the name stays submitted
\* or becomes confirmed, whatever fails in between.
TransientFailureIsRetried ==
  [][\A id \in Drawn :
       /\ WaitsForReceipt(id) /\ now < leases[id].expiresAt
       /\ txs[leases[id].tx].status = "success"
       => leases'[id].state \in {"submitted", "confirmed"}]_vars

=============================================================================
