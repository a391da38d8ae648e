-------------------------- MODULE ReleaseOperations --------------------------
(***************************************************************************)
(* The release tools on one chain with one governance account: runs of the *)
(* operator's tool, one operations drill and the registration smoke.       *)
(* Nothing keeps them apart: each reads the chain, submits and waits.      *)
(***************************************************************************)
EXTENDS AdminActivation, OperationsDrill

CONSTANT Verifications   \* the blocks in which a candidate or a target was verified

ASSUME OperationsAssumption ==
  /\ Verifications \subseteq Nat \ {0}
  /\ DrillRun \notin AdminRuns

operationsVars == <<chainVars, smoke, run, drill>>

OperationsInit == ChainInit /\ SmokeInit /\ AdminInit /\ DrillInit

OperationsNext ==
  \/ MineBlock /\ UNCHANGED <<smoke, run, drill>>
  \/ /\ \/ \E v \in Verifications : InspectReadiness(v)
        \/ SmokeStep
     /\ UNCHANGED <<run, drill>>
  \/ /\ \E r \in AdminRuns : (\E action \in AdminActions : AdminStart(r, action)) \/ AdminStep(r)
     /\ UNCHANGED <<smoke, drill>>
  \/ /\ \/ \E t \in Verifications : DrillStart(t)
        \/ DrillStep
     /\ UNCHANGED <<smoke, run>>

OperationsSpec == OperationsInit /\ [][OperationsNext]_operationsVars

-----------------------------------------------------------------------------
(* Properties *)

\* Every variable keeps its type.
OperationsTypeOK ==
  /\ ChainTypeOK
  /\ smoke \in Smokes
  /\ run \in [AdminRuns -> Runs]
  /\ drill \in Drills

\* Transaction i opens a surface, and whatever else is mined, it is over.
Opens(i, surface, who) == txs[i] = [surface |-> surface, paused |-> FALSE, by |-> who]
Over(i, block) == i <= Len(mined) /\ mined[i] <= block

\* A rollback that reports success is final: every open that its run ever submitted is
\* mined, and followed by a pause of the run, when the report is written, so none can
\* reopen the surface afterwards.  (attemptOpenRollback, failSafeRepause)
RollbackIsFinal ==
  /\ \A r \in AdminRuns : run[r].report = "rolledBack" =>
       \A i \in 1 .. Len(txs), s \in Surfaces : Opens(i, s, r) =>
         /\ Over(i, run[r].at)
         /\ \E j \in (i + 1) .. Len(txs) :
              txs[j] = [surface |-> s, paused |-> TRUE, by |-> r] /\ Over(j, run[r].at)
  /\ \A s \in Surfaces : drill.outcome[s] = "repaused" =>
       \A i \in 1 .. Len(txs) : Opens(i, s, DrillRun) => Over(i, Top)

\* What a PASS of the drill says happened: its four transactions were mined in this order,
\* in different blocks after the verification of the target, and at the end of each of these
\* blocks the switches were as the plan has them, whatever other runs did meanwhile.
DrillReportIsTrue ==
  drill.step = "passed" =>
    \E tx \in [1 .. 4 -> 1 .. Len(mined)] :
      \A k \in 1 .. 4 :
        /\ txs[tx[k]].by = DrillRun
        /\ [surface |-> txs[tx[k]].surface, paused |-> txs[tx[k]].paused] = TRANSACTION_PLAN[k]
        /\ drill.receipts[k] = mined[tx[k]]
        /\ mined[tx[k]] > drill.target
        /\ blocks[mined[tx[k]]] = After(k)
        /\ k > 1 => tx[k - 1] < tx[k] /\ mined[tx[k - 1]] < mined[tx[k]]

\* The operator's tool opens the marketplace only after a registration was mined, and final,
\* while the marketplace was closed: at the registration and at the evidence block.
MarketAfterSmoke ==
  \A i \in 1 .. Len(txs), r \in AdminRuns : Opens(i, "marketplace", r) =>
    /\ smoke.step = "passed"
    /\ \A b \in {smoke.registeredAt, smoke.evidence} : blocks[b]["marketplace"]
    /\ smoke.evidence + 1 >= smoke.registeredAt + Confirmations
    /\ i <= Len(mined) => mined[i] > smoke.evidence

\* What the documents say of a failed drill: the surfaces it reports as paused stay so;
\* no transaction of the drill is left that opens them again.
RepauseHolds ==
  \A s \in Surfaces : drill.outcome[s] \in {"alreadyPaused", "repaused"} =>
    \A i \in (Len(mined) + 1) .. Len(txs) : ~Opens(i, s, DrillRun)

=============================================================================
