--------------------------- MODULE OperationsDrill ---------------------------
(***************************************************************************)
(* scripts/run-operations-drill.mjs: with both surfaces open, pause and    *)
(* reopen the controller and then the marketplace, check the switches      *)
(* before each submission and in the block of each receipt, and report the *)
(* receipts.  After an error the surfaces are paused one after the other.  *)
(* The readiness endpoints show what the switches show; observing them can *)
(* only fail a drill, so they are part of DrillError.                      *)
(***************************************************************************)
EXTENDS GovernedSurfaces

CONSTANT DrillRun    \* the drill as a sender of transactions

ASSUME DrillAssumption == DrillRun \in Senders

VARIABLE drill

\* Transaction k of the plan sets this switch.
TRANSACTION_PLAN ==
  <<[surface |-> "controller", paused |-> TRUE], [surface |-> "controller", paused |-> FALSE],
    [surface |-> "marketplace", paused |-> TRUE], [surface |-> "marketplace", paused |-> FALSE]>>

\* STEP_STATES: the one switch that is set before and after transaction k.
PausedOnly(surface) == [s \in Surfaces |-> s = surface]
After(k) ==
  IF TRANSACTION_PLAN[k].paused THEN PausedOnly(TRANSACTION_PLAN[k].surface) ELSE BothOpen
Before(k) ==
  IF TRANSACTION_PLAN[k].paused THEN BothOpen ELSE PausedOnly(TRANSACTION_PLAN[k].surface)

\* target is the verification block of the promotion target; receipts the blocks of the
\* confirmed transactions; guard the state, and its block, before a submission; outcome
\* what the fail-safe says of each surface.
DrillSteps == {"idle", "check", "send", "wait", "repause", "repauseWait", "passed", "failed"}
Outcomes == {"none", "alreadyPaused", "repaused", "failed"}
Drills == [step : DrillSteps, k : 1 .. 4, target : Nat, guard : Nat, tx : Nat,
           receipts : Seq(Nat), surface : Surfaces, outcome : [Surfaces -> Outcomes]]

DrillInit ==
  drill = [step |-> "idle", k |-> 1, target |-> 0, guard |-> 0, tx |-> 0, receipts |-> <<>>,
           surface |-> "controller", outcome |-> [s \in Surfaces |-> "none"]]

\* The catch of runOperationsDrill, once the live guards have passed.
FailSafe(d) == [d EXCEPT !.step = "repause", !.surface = "controller", !.guard = 0, !.tx = 0]

\* verifyLiveGuards and promotionTargetAtHead.
DrillStart(target) ==
  /\ drill.step = "idle"
  /\ target <= Top
  /\ blocks[Top] = BothOpen
  /\ drill' = [drill EXCEPT !.step = "check", !.target = target]
  /\ UNCHANGED chainVars

\* executePauseTransaction up to the submission: the preflight block is checked.
DrillCheck ==
  /\ drill.step = "check"
  /\ Len(drill.receipts) < 4
  /\ drill' = IF blocks[Top] = Before(drill.k)
              THEN [drill EXCEPT !.step = "send", !.guard = Top]
              ELSE FailSafe(drill)
  /\ UNCHANGED chainVars

DrillSubmit ==
  /\ drill.step = "send"
  /\ Submit(TRANSACTION_PLAN[drill.k].surface, TRANSACTION_PLAN[drill.k].paused, DrillRun)
  /\ \/ drill' = [drill EXCEPT !.step = "wait", !.tx = Len(txs')]
     \/ "answerLost" \in Faults /\ drill' = FailSafe(drill)

\* The receipt: the switches in its block are those the plan names.
ReceiptAccepted(b) == b >= drill.guard /\ blocks[b] = After(drill.k)

\* A plan without an end.
NextTransaction_PastEnd(k) == k + 1

\* The transaction after k, if there is one.
NextTransaction(k) == IF k < 4 THEN k + 1 ELSE k

\* A report bound to the moving head instead of the receipt.
ReceiptBlock_Head(tx) == Top

ReceiptBlock(tx) == mined[tx]

DrillReceipt ==
  /\ drill.step = "wait"
  /\ Confirmed(drill.tx)
  /\ drill' = IF ReceiptAccepted(ReceiptBlock(drill.tx))
              THEN [drill EXCEPT !.step = "check", !.guard = 0, !.tx = 0,
                      !.receipts = Append(@, ReceiptBlock(drill.tx)),
                      !.k = NextTransaction(@)]
              ELSE FailSafe(drill)
  /\ UNCHANGED chainVars

\* The end of runOperationsDrill: both surfaces open at the head, all receipts after the
\* target's verification.
DrillPass ==
  /\ drill.step = "check"
  /\ Len(drill.receipts) = 4
  /\ drill' = IF blocks[Top] = BothOpen /\ \A i \in 1 .. 4 : drill.receipts[i] > drill.target
              THEN [drill EXCEPT !.step = "passed"]
              ELSE FailSafe(drill)
  /\ UNCHANGED chainVars

DrillError ==
  /\ drill.step \in {"check", "send", "wait"}
  /\ "error" \in Faults
  /\ drill' = FailSafe(drill)
  /\ UNCHANGED chainVars

\* failSafeRepause: the outcome for a surface, and on to the next one.
Concluded(outcome) ==
  [drill EXCEPT !.outcome[drill.surface] = outcome, !.guard = 0, !.tx = 0,
     !.step = IF drill.surface = "controller" THEN "repause" ELSE "failed",
     !.surface = "marketplace"]

\* A surface that is paused in the pinned block is left alone.
Repause ==
  /\ drill.step = "repause"
  /\ IF blocks[Top][drill.surface]
     THEN drill' = Concluded("alreadyPaused") /\ UNCHANGED chainVars
     ELSE /\ Submit(drill.surface, TRUE, DrillRun)
          /\ \/ drill' = [drill EXCEPT !.step = "repauseWait", !.guard = Top, !.tx = Len(txs')]
             \/ "answerLost" \in Faults /\ drill' = Concluded("failed")

\* The block of the receipt shows the surface paused and the other one as before.
RepauseConfirm ==
  /\ drill.step = "repauseWait"
  /\ Confirmed(drill.tx)
  /\ drill' = Concluded(
       IF blocks[mined[drill.tx]] = [blocks[drill.guard] EXCEPT ![drill.surface] = TRUE]
       THEN "repaused" ELSE "failed")
  /\ UNCHANGED chainVars

RepauseError ==
  /\ drill.step \in {"repause", "repauseWait"}
  /\ "error" \in Faults
  /\ drill' = Concluded("failed")
  /\ UNCHANGED chainVars

DrillStep ==
  \/ DrillCheck \/ DrillSubmit \/ DrillReceipt \/ DrillPass \/ DrillError
  \/ Repause \/ RepauseConfirm \/ RepauseError

=============================================================================
