--------------------------- MODULE RegisterPanel ---------------------------
(***************************************************************************)
(* The registration panel of an available name                             *)
(* (apps/web/src/components/register-panel.tsx).  The tab records one      *)
(* registration: the next call of register() takes it up again when its    *)
(* intent (name and term, for one wallet) is the same, and refuses         *)
(* otherwise.                                                              *)
(***************************************************************************)
EXTENDS BrowserTab

SameIntent(h, g) == tx[h].label = tx[g].label /\ tx[h].term = tx[g].term

\* The record is cleared by its intent, whatever its transaction is.
ClearRegistration(h) ==
  pendingRegistration' =
    IF pendingRegistration # NONE /\ SameIntent(pendingRegistration, h)
    THEN NONE ELSE pendingRegistration

\* The form is sent: readiness is asked and the wallet is connected first.
StartRegistration(f, term) ==
  /\ page.view = "register" /\ ~page.busy
  /\ flows[f].step = "idle"
  /\ page' = [page EXCEPT !.busy = TRUE]
  /\ flows' = [flows EXCEPT ![f] = [step |-> "connecting", here |-> TRUE, label |-> page.label,
                                    kind |-> "register", term |-> term, hash |-> NONE]]
  /\ UNCHANGED <<chainVars, storageVars>>

CheckPending(f) ==
  LET h == pendingRegistration IN
  /\ flows[f].step = "connecting"
  /\ \/ /\ h = NONE
        /\ flows' = [flows EXCEPT ![f].step = "preparing"]
        /\ UNCHANGED page
     \/ /\ h # NONE
        /\ tx[h].label = flows[f].label /\ tx[h].term = flows[f].term
        /\ flows' = [flows EXCEPT ![f].step = "waiting", ![f].hash = h]
        /\ UNCHANGED page
     \/ /\ h # NONE
        /\ tx[h].label # flows[f].label \/ tx[h].term # flows[f].term
        /\ End(f, FALSE)
  /\ UNCHANGED <<chainVars, storageVars>>

RecordRegistration(f) ==
  /\ flows[f].step = "sent" /\ flows[f].kind = "register"
  /\ pendingRegistration' = flows[f].hash
  /\ flows' = [flows EXCEPT ![f].step = "waiting"]
  /\ UNCHANGED <<chainVars, page, pendingAction>>

ConcludeRegistration(h) ==
  /\ ClearRegistration(h)
  /\ UNCHANGED <<chainVars, pendingAction>>

RegistrationMined(f) ==
  LET h == flows[f].hash IN
  /\ flows[f].step = "waiting" /\ flows[f].kind = "register"
  /\ \/ /\ Reverted(h)
        /\ ConcludeRegistration(h)
        /\ End(f, FALSE)
     \/ /\ Succeeded(h)
        /\ flows' = [flows EXCEPT ![f].step = "verifying"]
        /\ UNCHANGED <<chainVars, page, storageVars>>

\* The route finds the events and, at the end of their block, the new owner.
\* The form of a success stays disabled until the refreshed page arrives.
RegistrationVerified(f) ==
  /\ flows[f].step = "verifying" /\ flows[f].kind = "register"
  /\ tx[flows[f].hash].status = "held"
  /\ ConcludeRegistration(flows[f].hash)
  /\ End(f, TRUE)

\* The receipt is late, the wallet changes, or the route refuses: the record
\* stays for the next call of register().
RegistrationLeft(f) ==
  /\ flows[f].step \in {"waiting", "verifying"} /\ flows[f].kind = "register"
  /\ End(f, FALSE)
  /\ UNCHANGED <<chainVars, storageVars>>

RegistrationNext ==
  \E f \in Flows :
     \/ \E term \in Terms : StartRegistration(f, term)
     \/ CheckPending(f) \/ RecordRegistration(f) \/ RegistrationMined(f)
     \/ RegistrationVerified(f) \/ RegistrationLeft(f)

=============================================================================
