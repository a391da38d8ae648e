--------------------------- MODULE AdminActivation ---------------------------
(***************************************************************************)
(* scripts/admin-activation.mjs: runs of the operator's tool that opens    *)
(* or pauses the surfaces, several of them at a time.  Every read of the   *)
(* state is pinned to one block (readCanonicalAdminState), so it is one    *)
(* action; between two awaits the chain and the other tools go on.  A       *)
(* process that dies is a run that takes no further step.                  *)
(***************************************************************************)
EXTENDS RegistrationSmoke

CONSTANTS
  AdminRuns,      \* runs of the tool
  AdminActions    \* what they are asked for

VARIABLE run

OpenActions == {"controller-open", "market-open"}

ASSUME AdminAssumption ==
  /\ AdminRuns \subseteq Senders
  /\ AdminActions \subseteq
       OpenActions \cup {"pause-all", "controller-pause", "market-pause"}

Item(surface, paused) == [surface |-> surface, paused |-> paused]
Items == [surface : Surfaces, paused : BOOLEAN]

OperationPlan(action) ==
  CASE action = "controller-open" -> <<Item("controller", FALSE)>>
    [] action = "market-open" -> <<Item("marketplace", FALSE)>>
    [] action = "pause-all" -> <<Item("marketplace", TRUE), Item("controller", TRUE)>>
    [] action = "controller-pause" -> <<Item("controller", TRUE)>>
    [] action = "market-pause" -> <<Item("marketplace", TRUE)>>

\* todo is the rest of the plan; target the surface an open action opens; started says
\* that a transaction hash is known; at is the block of the state the report ends with.
AdminSteps == {"idle", "perform", "wait", "rollback", "rollbackWait", "done"}
Reports == {"none", "ok", "failed", "rolledBack"}
Runs == [step : AdminSteps, todo : Seq(Items), current : Pauses, expected : Pauses,
         tx : Nat, target : Surfaces \cup {"none"}, started : BOOLEAN, report : Reports, at : Nat]

IdleRun == [step |-> "idle", todo |-> <<>>, current |-> BothOpen, expected |-> BothOpen,
            tx |-> 0, target |-> "none", started |-> FALSE, report |-> "none", at |-> 0]

AdminInit == run = [r \in AdminRuns |-> IdleRun]

OpenPreconditions(action, pauses) ==
  /\ action = "controller-open" => pauses["marketplace"]
  /\ action = "market-open" => ~pauses["controller"] /\ pauses["marketplace"]

\* market-open for which the report is optional.
SmokeBinds_Optional == TRUE

\* validateRegistrationSmokeLifecycle, the finality policy, and
\* revalidateRegistrationSmokeEvidence against the chain.
SmokeBinds ==
  /\ smoke.step = "passed"
  /\ Top + 1 >= smoke.evidence + Confirmations
  /\ smoke.registeredAt > smoke.verifiedAt
  /\ blocks[smoke.evidence]["marketplace"]

ExpectedPauses(action, pauses) ==
  [s \in Surfaces |->
     LET own == {i \in DOMAIN OperationPlan(action) : OperationPlan(action)[i].surface = s}
     IN IF own = {} THEN pauses[s] ELSE \E i \in own : OperationPlan(action)[i].paused]

Finished(report) ==
  [IdleRun EXCEPT !.step = "done", !.report = report, !.at = Top]

\* The catch of executeAdminActivation: an open that has a transaction is rolled back.
AfterError(r) ==
  IF run[r].target # "none" /\ run[r].started
  THEN [run[r] EXCEPT !.step = "rollback"]
  ELSE Finished("failed")

\* The end of attemptOpenRollback: the surface must be paused now.
RolledBack(r) ==
  Finished(IF blocks[Top][run[r].target] THEN "rolledBack" ELSE "failed")

AdminStart(r, action) ==
  /\ run[r].step = "idle"
  /\ OpenPreconditions(action, blocks[Top])
  /\ action = "market-open" => SmokeBinds
  /\ run' = [run EXCEPT ![r] =
       [IdleRun EXCEPT !.step = "perform", !.todo = OperationPlan(action),
          !.current = blocks[Top], !.expected = ExpectedPauses(action, blocks[Top]),
          !.target = IF action \in OpenActions THEN OperationPlan(action)[1].surface
                     ELSE "none"]]
  /\ UNCHANGED chainVars

\* A rollback that trusts the switch it reads.
Skip_IgnoresForce(current, surface, paused, force) == current[surface] = paused

\* A switch that shows the desired value already is not set again, unless forced.
Skip(current, surface, paused, force) == ~force /\ current[surface] = paused

\* performOperation up to writeContract; the answer of the node may be lost.
PerformOperation(r) ==
  /\ run[r].step = "perform"
  /\ run[r].todo # <<>>
  /\ LET item == Head(run[r].todo)
     IN IF Skip(run[r].current, item.surface, item.paused, FALSE)
        THEN /\ run' = [run EXCEPT ![r].todo = Tail(@)]
             /\ UNCHANGED chainVars
        ELSE /\ Submit(item.surface, item.paused, r)
             /\ \/ run' = [run EXCEPT ![r].step = "wait", ![r].tx = Len(txs'),
                                       ![r].started = TRUE]
                \/ "answerLost" \in Faults /\ run' = [run EXCEPT ![r] = AfterError(r)]

\* The receipt is confirmed and the state after it is read.
ConfirmOperation(r) ==
  /\ run[r].step = "wait"
  /\ Confirmed(run[r].tx)
  /\ run' = [run EXCEPT ![r] =
       IF blocks[Top][Head(run[r].todo).surface] = Head(run[r].todo).paused
       THEN [run[r] EXCEPT !.step = "perform", !.todo = Tail(@), !.current = blocks[Top]]
       ELSE AfterError(r)]
  /\ UNCHANGED chainVars

FinishActivation(r) ==
  /\ run[r].step = "perform"
  /\ run[r].todo = <<>>
  /\ run' = [run EXCEPT ![r] =
       IF blocks[Top] = run[r].expected THEN Finished("ok") ELSE AfterError(r)]
  /\ UNCHANGED chainVars

AdminError(r) ==
  /\ run[r].step \in {"perform", "wait"}
  /\ "error" \in Faults
  /\ run' = [run EXCEPT ![r] = AfterError(r)]
  /\ UNCHANGED chainVars

\* attemptOpenRollback: the pause is forced, whatever the switch shows.
RollbackSubmit(r) ==
  /\ run[r].step = "rollback"
  /\ IF Skip(blocks[Top], run[r].target, TRUE, TRUE)
     THEN /\ run' = [run EXCEPT ![r] = RolledBack(r)]
          /\ UNCHANGED chainVars
     ELSE /\ Submit(run[r].target, TRUE, r)
          /\ \/ run' = [run EXCEPT ![r].step = "rollbackWait", ![r].tx = Len(txs')]
             \/ "answerLost" \in Faults /\ run' = [run EXCEPT ![r] = Finished("failed")]

RollbackConfirm(r) ==
  /\ run[r].step = "rollbackWait"
  /\ Confirmed(run[r].tx)
  /\ run' = [run EXCEPT ![r] = RolledBack(r)]
  /\ UNCHANGED chainVars

RollbackError(r) ==
  /\ run[r].step \in {"rollback", "rollbackWait"}
  /\ "error" \in Faults
  /\ run' = [run EXCEPT ![r] = Finished("failed")]
  /\ UNCHANGED chainVars

AdminStep(r) ==
  \/ PerformOperation(r) \/ ConfirmOperation(r) \/ FinishActivation(r) \/ AdminError(r)
  \/ RollbackSubmit(r) \/ RollbackConfirm(r) \/ RollbackError(r)

=============================================================================
