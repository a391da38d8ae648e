----------------------------- MODULE WebSession -----------------------------
(***************************************************************************)
(* The panels of a tab over one wallet account, one session storage and    *)
(* the verification service.                                               *)
(***************************************************************************)
EXTENDS NameManagementPanel, RegisterPanel

sessionVars == <<tabVars, serverVars>>

SessionInit == TabInit /\ ServerInit

SessionNext ==
  \/ (TabNext \/ ManagementNext \/ RegistrationNext) /\ UNCHANGED serverVars
  \/ ServerNext /\ UNCHANGED tabVars

SessionSpec == SessionInit /\ [][SessionNext]_sessionVars

\* The user loads the page of each name again and again, with the wallet at
\* hand; a recovery that can go on does so in the end, however often reloads
\* disturb it; verifications end, and one that can succeed does so while the
\* tab still waits for it, if it is asked again and again.
SessionFairness ==
  /\ \A l \in Labels : WF_sessionVars(Load(l) /\ UNCHANGED serverVars)
  /\ SF_sessionVars(StartRecovery /\ UNCHANGED serverVars)
  /\ SF_sessionVars(RecoveryMined /\ UNCHANGED serverVars)
  /\ SF_sessionVars(RecoveryVerified /\ UNCHANGED serverVars)
  /\ SF_sessionVars(\E h \in Hashes : StartVerification(h) /\ UNCHANGED tabVars)
  /\ SF_sessionVars(\E h \in Hashes : Asked(h) /\ VerificationSucceeds(h) /\ UNCHANGED tabVars)
  /\ WF_sessionVars(\E h \in Hashes : VerificationFails(h) /\ UNCHANGED tabVars)

SessionFairSpec == SessionSpec /\ SessionFairness

-----------------------------------------------------------------------------
(* Properties. *)

\* Every variable keeps its type; no more verifications run than are allowed
\* (MAX_CONCURRENT_VERIFICATIONS), whatever callers come and go.
SessionTypeOK ==
  /\ tx \in [Hashes -> TxType]
  /\ registered \subseteq Labels
  /\ page \in PageType
  /\ flows \in [Flows -> FlowType]
  /\ pendingAction \in [Labels -> Hashes \cup {NONE}]
  /\ pendingRegistration \in Hashes \cup {NONE}
  /\ verdict \in [Hashes -> {"none", "running", "verified"}]
  /\ active \in 0 .. MAX_CONCURRENT

\* Nothing more is to be learnt of a transaction: it reverted, it succeeded and
\* needs no verification, or the state at the end of its block confirms it.
Settled(h) ==
  \/ Reverted(h)
  \/ Succeeded(h) /\ (tx[h].kind = "plain" \/ tx[h].status = "held")

\* clearPendingNameAction, clearPendingRegistration: whichever flows of the tab
\* overlap, the record of an action that a reload would take up again is
\* cleared only when its own transaction is settled, and that of a
\* registration only when a registration of the same intent is.  (A later
\* action of the name replaces the record; then the later one is protected.)
RecordsOutliveTransactions ==
  [][/\ \A l \in Labels :
           pendingAction[l] # NONE /\ pendingAction'[l] = NONE => Settled(pendingAction[l])
     /\ pendingRegistration # NONE /\ pendingRegistration' = NONE =>
           \E h \in Hashes : SameIntent(h, pendingRegistration) /\ Settled(h)]_sessionVars

SettledRecord(l) == pendingAction[l] # NONE /\ Settled(pendingAction[l])

\* confirmFinalPlan, the recovery effect and cachedVerification: a recorded
\* action whose transaction is settled does not block its name for ever, through
\* reloads, late receipts, cancelled recoveries, refusals of a busy service and
\* failing reads.
PendingActionSettles == \A l \in Labels : SettledRecord(l) ~> ~SettledRecord(l)

=============================================================================
