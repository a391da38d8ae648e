-------------------------- MODULE RegistrationSmoke --------------------------
(***************************************************************************)
(* scripts/lib/registration-smoke.mjs: one funded registration through the *)
(* candidate while the marketplace is still paused, and the report that    *)
(* binds it to a block.  The registration is sent by a registrant's        *)
(* account and is mined in a block in which registrations are open.  What  *)
(* the run verifies of name, permit and money is the business of           *)
(* ArcRegistrarController; here it can only fail the run.                  *)
(***************************************************************************)
EXTENDS GovernedSurfaces

VARIABLE smoke

\* step; the block in which the candidate was verified, of the readiness head, of the
\* registration, and of the evidence.
SmokeSteps == {"idle", "ready", "registered", "passed", "failed"}
Smokes == [step : SmokeSteps, verifiedAt : Nat, head : Nat, registeredAt : Nat, evidence : Nat]

SmokeInit ==
  smoke = [step |-> "idle", verifiedAt |-> 0, head |-> 0, registeredAt |-> 0, evidence |-> 0]

\* The head is read first and the two switches after it, apart and each at the newest
\* block of its moment; the reads fall into two blocks at most.  A failed run may be
\* repeated.
InspectReadiness(verifiedAt) ==
  /\ smoke.step \in {"idle", "failed"}
  /\ \E head \in (1 .. Top) \cap {Top - 1, Top} :
       /\ verifiedAt <= head
       /\ \E c \in head .. Top : ~blocks[c]["controller"]
       /\ \E m \in head .. Top : blocks[m]["marketplace"]
       /\ smoke' = [step |-> "ready", verifiedAt |-> verifiedAt, head |-> head,
                    registeredAt |-> 0, evidence |-> 0]
  /\ UNCHANGED chainVars

\* The registration is in the newest block, at a place where registrations were open,
\* and the marketplace is paused at the end of that block.
RegistrationMined ==
  /\ smoke.step = "ready"
  /\ Top > smoke.head
  /\ ~blocks[Top]["controller"] \/ ~blocks[Top - 1]["controller"]
  /\ smoke' = IF blocks[Top]["marketplace"]
              THEN [smoke EXCEPT !.step = "registered", !.registeredAt = Top]
              ELSE [smoke EXCEPT !.step = "failed"]
  /\ UNCHANGED chainVars

\* The evidence head: final for the registration, the marketplace still paused.
CaptureEvidence ==
  /\ smoke.step = "registered"
  /\ Top + 1 >= smoke.registeredAt + Confirmations
  /\ smoke' = IF blocks[Top]["marketplace"]
              THEN [smoke EXCEPT !.step = "passed", !.evidence = Top]
              ELSE [smoke EXCEPT !.step = "failed"]
  /\ UNCHANGED chainVars

SmokeFails ==
  /\ smoke.step \in {"ready", "registered"}
  /\ "error" \in Faults
  /\ smoke' = [smoke EXCEPT !.step = "failed"]
  /\ UNCHANGED chainVars

SmokeStep == RegistrationMined \/ CaptureEvidence \/ SmokeFails

=============================================================================
