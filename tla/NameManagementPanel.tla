------------------------ MODULE NameManagementPanel ------------------------
(***************************************************************************)
(* The management panel of a registered name                               *)
(* (apps/web/src/components/name-management-panel.tsx): its actions end in *)
(* a transaction that is recorded in the session storage until its end is  *)
(* known, and a panel that finds a record when it is mounted takes the     *)
(* transaction up again.                                                   *)
(***************************************************************************)
EXTENDS ProtocolVerification

\* A bug: the record is cleared without a look at the transaction it names.
ClearAction_AnyHash(l, h) == pendingAction' = [pendingAction EXCEPT ![l] = NONE]

\* The record is cleared only while it is the transaction's own.
ClearAction(l, h) ==
  pendingAction' = IF pendingAction[l] = h THEN [pendingAction EXCEPT ![l] = NONE]
                   ELSE pendingAction

\* A button of the panel: refused while an action of the name is recorded.
Begin(f, kind) ==
  /\ page.view = "manage" /\ ~page.busy
  /\ flows[f].step = "idle"
  /\ page' = [page EXCEPT !.busy = TRUE]
  /\ flows' = IF pendingAction[page.label] = NONE
              THEN [flows EXCEPT ![f] = [IdleFlow EXCEPT !.step = "preparing", !.here = TRUE,
                                                         !.label = page.label, !.kind = kind]]
              ELSE flows
  /\ UNCHANGED <<chainVars, storageVars>>

\* renew, makePrimary, transfer.
ManageName(f) == Begin(f, "plain")

\* listName, cancelListing, revokeMarketplaceApproval, invalidateStaleListing, buyName.
UseMarket(f) == Begin(f, "market")

\* The hash has arrived: it is recorded before anything is awaited.
RecordAction(f) ==
  LET l == flows[f].label  h == flows[f].hash IN
  /\ flows[f].step = "sent" /\ flows[f].kind \in ActionKinds
  /\ pendingAction' = [pendingAction EXCEPT ![l] = h]
  /\ flows' = [flows EXCEPT ![f].step = "waiting"]
  /\ UNCHANGED <<chainVars, page, pendingRegistration>>

Conclude(l, h) ==
  /\ ClearAction(l, h)
  /\ UNCHANGED <<chainVars, pendingRegistration>>

\* The receipt is there: a revert, and the success of an action that needs no
\* verification, end the flow.
ActionMined(f) ==
  LET l == flows[f].label  h == flows[f].hash IN
  /\ flows[f].step = "waiting" /\ flows[f].kind \in ActionKinds
  /\ \/ /\ Reverted(h) \/ (Succeeded(h) /\ flows[f].kind = "plain")
        /\ Conclude(l, h)
        /\ End(f, FALSE)
     \/ /\ Succeeded(h) /\ flows[f].kind = "market"
        /\ flows' = [flows EXCEPT ![f].step = "verifying"]
        /\ UNCHANGED <<chainVars, page, storageVars>>

ActionVerified(f) ==
  /\ flows[f].step = "verifying" /\ flows[f].kind \in ActionKinds
  /\ verdict[flows[f].hash] = "verified"
  /\ Conclude(flows[f].label, flows[f].hash)
  /\ End(f, FALSE)

\* The receipt is late, or the verification refuses or cannot answer: the
\* record stays, and the panel waits for a reload.
ActionLeft(f) ==
  /\ flows[f].step \in {"waiting", "verifying"} /\ flows[f].kind \in ActionKinds
  /\ End(f, TRUE)
  /\ UNCHANGED <<chainVars, storageVars>>

-----------------------------------------------------------------------------
(* Recovery: the effect of a mounted panel, once for each recorded hash. *)

StartRecovery ==
  LET h == pendingAction[page.label] IN
  /\ page.view = "manage"
  /\ h # NONE /\ page.seen # h
  /\ page' = [page EXCEPT !.busy = TRUE, !.seen = h, !.recovery = "waiting"]
  /\ UNCHANGED <<chainVars, flows, storageVars>>

RecoveryMined ==
  LET h == page.seen IN
  /\ page.recovery = "waiting"
  /\ \/ /\ Reverted(h) \/ (Succeeded(h) /\ tx[h].kind = "plain")
        /\ Conclude(page.label, h)
        /\ page' = [page EXCEPT !.recovery = "idle", !.busy = FALSE]
     \/ /\ Succeeded(h) /\ tx[h].kind = "market"
        /\ page' = [page EXCEPT !.recovery = "verifying"]
        /\ UNCHANGED <<chainVars, storageVars>>
  /\ UNCHANGED flows

RecoveryVerified ==
  /\ page.recovery = "verifying"
  /\ verdict[page.seen] = "verified"
  /\ Conclude(page.label, page.seen)
  /\ page' = [page EXCEPT !.recovery = "idle", !.busy = FALSE]
  /\ UNCHANGED flows

RecoveryLeft ==
  /\ page.recovery # "idle"
  /\ page' = [page EXCEPT !.recovery = "idle", !.busy = TRUE]
  /\ UNCHANGED <<chainVars, flows, storageVars>>

\* The wallet's account or network changes: the effect is cleaned up, the panel
\* stays as it is, and nothing starts again for the hash it has seen.
CancelRecovery ==
  /\ page.recovery # "idle"
  /\ page' = [page EXCEPT !.recovery = "idle"]
  /\ UNCHANGED <<chainVars, flows, storageVars>>

ManagementNext ==
  \/ \E f \in Flows :
        \/ ManageName(f) \/ UseMarket(f)
        \/ RecordAction(f) \/ ActionMined(f) \/ ActionVerified(f) \/ ActionLeft(f)
  \/ StartRecovery \/ RecoveryMined \/ RecoveryVerified \/ RecoveryLeft \/ CancelRecovery

=============================================================================
