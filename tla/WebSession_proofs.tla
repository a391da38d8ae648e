------------------------- MODULE WebSession_proofs -------------------------
(***************************************************************************)
(* Theorems about the panels of a tab, for any number of names, terms,     *)
(* flows, transactions and concurrent verifications.                       *)
(***************************************************************************)
EXTENDS WebSession, FiniteSetTheorems, TLAPS

\* A flow knows its name; one that has sent or taken up a transaction has its hash, and one
\* of an action is of the transaction's kind.
FlowFits(f) ==
  /\ flows[f].step # "idle" => flows[f].label \in Labels
  /\ flows[f].step = "connecting" => flows[f].kind = "register"
  /\ flows[f].step \in {"sent", "waiting", "verifying"} =>
       /\ flows[f].hash \in Hashes
       /\ flows[f].kind \in ActionKinds =>
            tx[flows[f].hash].status # "unsent" /\ tx[flows[f].hash].kind = flows[f].kind
FlowsFit == \A f \in Flows : FlowFits(f)

\* A transaction that was sent is about a name.
SentFits == \A h \in Hashes : tx[h].status # "unsent" => tx[h].label \in Labels

RecoveryFits == page.recovery # "idle" => page.seen \in Hashes

\* What was verified is on the chain for good.
VerdictsFit == \A h \in Hashes : verdict[h] = "verified" => tx[h].status = "held"

Running == {h \in Hashes : verdict[h] = "running"}
ActiveIsRunning == active = Cardinality(Running)

SessionInv ==
  SessionTypeOK /\ FlowsFit /\ SentFits /\ RecoveryFits /\ VerdictsFit /\ ActiveIsRunning

USE TabAssumption, ConcurrencyAssumption DEF Hashes

LEMMA RunningIsFinite == IsFiniteSet(Running)
<1>1. IsFiniteSet(1 .. MaxTransactions)
  BY FS_Interval
<1> QED
  BY <1>1, FS_Subset DEF Running

LEMMA PageOfType == ASSUME NEW l \in Labels
                    PROVE  PageOf(l) \in PageType /\ PageOf(l).recovery = "idle"
  BY DEF PageOf, PageType

LEMMA IdleFlowType == IdleFlow \in FlowType /\ IdleFlow.step = "idle"
  BY DEF IdleFlow, FlowType

LEMMA SessionInitInv == SessionInit => SessionInv
<1> SUFFICES ASSUME SessionInit PROVE SessionInv
  OBVIOUS
<1>1. SessionTypeOK
  <2>1. tx \in [Hashes -> TxType] /\ registered \subseteq Labels
    BY DEF SessionInit, TabInit, TxType
  <2>2. page \in PageType
    BY PageOfType DEF SessionInit, TabInit
  <2>3. flows \in [Flows -> FlowType]
    BY IdleFlowType DEF SessionInit, TabInit
  <2> QED
    BY <2>1, <2>2, <2>3 DEF SessionInit, TabInit, ServerInit, SessionTypeOK
<1>2. FlowsFit
  BY IdleFlowType DEF SessionInit, TabInit, FlowsFit, FlowFits
<1>3. RecoveryFits /\ SentFits
  BY PageOfType DEF SessionInit, TabInit, RecoveryFits, SentFits
<1>4. VerdictsFit
  BY DEF SessionInit, ServerInit, VerdictsFit
<1>5. ActiveIsRunning
  <2>1. Running = {}
    BY DEF SessionInit, ServerInit, Running
  <2> QED
    BY <2>1, FS_EmptySet DEF SessionInit, ServerInit, ActiveIsRunning
<1> QED
  BY <1>1, <1>2, <1>3, <1>4, <1>5 DEF SessionInv

-----------------------------------------------------------------------------
(* The steps of the tab leave the server alone. *)

LEMMA ServerStays ==
  ASSUME SessionInv, UNCHANGED serverVars
  PROVE  /\ verdict' \in [Hashes -> {"none", "running", "verified"}]
         /\ active' \in 0 .. MAX_CONCURRENT
         /\ ActiveIsRunning'
  BY DEF SessionInv, SessionTypeOK, serverVars, ActiveIsRunning, Running

\* A flow, the page and the records go on; the chain stays.
LEMMA FlowGoesOn ==
  ASSUME SessionInv, UNCHANGED serverVars, UNCHANGED chainVars,
         NEW f \in Flows, NEW new \in FlowType, flows' = [flows EXCEPT ![f] = new],
         FlowFits(f)',
         page' \in PageType, RecoveryFits',
         pendingAction' \in [Labels -> Hashes \cup {NONE}],
         pendingRegistration' \in Hashes \cup {NONE}
  PROVE  SessionInv'
<1>1. SessionTypeOK'
  BY ServerStays DEF SessionInv, SessionTypeOK, chainVars
<1>2. FlowsFit'
  <2> SUFFICES ASSUME NEW g \in Flows PROVE FlowFits(g)'
    BY DEF FlowsFit
  <2>1. CASE g = f
    BY <2>1
  <2>2. CASE g # f
    BY <2>2 DEF SessionInv, SessionTypeOK, FlowsFit, FlowFits, chainVars
  <2> QED
    BY <2>1, <2>2
<1>3. VerdictsFit' /\ SentFits'
  BY DEF SessionInv, VerdictsFit, SentFits, serverVars, chainVars
<1> QED
  BY <1>1, <1>2, <1>3, ServerStays DEF SessionInv

LEMMA FlowsStay ==
  ASSUME SessionInv, UNCHANGED serverVars, UNCHANGED chainVars, UNCHANGED flows,
         page' \in PageType, RecoveryFits',
         pendingAction' \in [Labels -> Hashes \cup {NONE}],
         UNCHANGED pendingRegistration
  PROVE  SessionInv'
<1>1. SessionTypeOK'
  BY ServerStays DEF SessionInv, SessionTypeOK, chainVars
<1>2. FlowsFit' /\ VerdictsFit' /\ SentFits'
  BY DEF SessionInv, FlowsFit, FlowFits, VerdictsFit, SentFits, chainVars, serverVars
<1> QED
  BY <1>1, <1>2, ServerStays DEF SessionInv

LEMMA EndType ==
  ASSUME SessionInv, NEW f \in Flows, NEW b \in BOOLEAN, End(f, b)
  PROVE  /\ flows' = [flows EXCEPT ![f] = IdleFlow] /\ IdleFlow \in FlowType
         /\ FlowFits(f)' /\ page' \in PageType /\ RecoveryFits'
  BY IdleFlowType DEF SessionInv, SessionTypeOK, End, FlowFits, RecoveryFits, PageType

LEMMA ClearType ==
  ASSUME SessionInv, NEW l, NEW h, ClearAction(l, h)
  PROVE  pendingAction' \in [Labels -> Hashes \cup {NONE}]
  BY DEF SessionInv, SessionTypeOK, ClearAction

LEMMA TabStep ==
  ASSUME SessionInv, TabNext, UNCHANGED serverVars
  PROVE  SessionInv'
<1>1. ASSUME NEW h \in Hashes, NEW outcome \in Outcomes, Mine(h, outcome) PROVE SessionInv'
  <2>1. SessionTypeOK'
    <3>0. tx \in [Hashes -> TxType] /\ tx[h] \in TxType
      BY DEF SessionInv, SessionTypeOK
    <3>1. tx' \in [Hashes -> TxType]
      <4> DEFINE new == [tx[h] EXCEPT !.status = outcome]
      <4>1. new \in TxType
        BY <3>0 DEF TxType
      <4>2. tx' = [tx EXCEPT ![h] = new]
        BY <1>1 DEF Mine
      <4> HIDE DEF new
      <4> QED
        BY <3>0, <4>1, <4>2
    <3>2. registered' \subseteq Labels
      <4>1. tx[h].label \in Labels
        BY <1>1 DEF SessionInv, SentFits, Mine
      <4> QED
        BY <1>1, <4>1 DEF SessionInv, SessionTypeOK, Mine
    <3> QED
      BY <1>1, <3>1, <3>2, ServerStays DEF SessionInv, SessionTypeOK, Mine, storageVars
  <2>2. \A g \in Hashes :
           /\ tx'[g].kind = tx[g].kind /\ tx'[g].label = tx[g].label
           /\ tx[g].status # "unsent" <=> tx'[g].status # "unsent"
    BY <1>1 DEF SessionInv, SessionTypeOK, TxType, Mine, Outcomes
  <2>3. FlowsFit'
    BY <1>1, <2>2 DEF SessionInv, FlowsFit, FlowFits, Mine
  <2>4. VerdictsFit'
    BY <1>1 DEF SessionInv, SessionTypeOK, TxType, VerdictsFit, Mine, serverVars
  <2>5. SentFits'
    BY <2>2 DEF SessionInv, SentFits
  <2> QED
    BY <1>1, <2>1, <2>3, <2>4, <2>5, ServerStays DEF SessionInv, RecoveryFits, Mine
<1>2. ASSUME NEW l \in Labels, StrangerRegisters(l) PROVE SessionInv'
  <2>1. SessionTypeOK'
    BY <1>2, ServerStays DEF SessionInv, SessionTypeOK, StrangerRegisters, storageVars
  <2>2. FlowsFit' /\ SentFits' /\ RecoveryFits' /\ VerdictsFit'
    BY <1>2 DEF SessionInv, FlowsFit, FlowFits, SentFits, RecoveryFits, VerdictsFit,
                StrangerRegisters, serverVars
  <2> QED
    BY <2>1, <2>2, ServerStays DEF SessionInv
<1>3. ASSUME NEW l \in Labels, Visit(l) PROVE SessionInv'
  <2>1. SessionTypeOK'
    <3>1. flows' \in [Flows -> FlowType]
      <4>1. ASSUME NEW new \in FlowType PROVE [new EXCEPT !.here = FALSE] \in FlowType
        BY DEF FlowType
      <4>2. flows \in [Flows -> FlowType]
        BY DEF SessionInv, SessionTypeOK
      <4> QED
        BY <1>3, <4>1, <4>2 DEF Visit
    <3> QED
      BY <1>3, <3>1, PageOfType, ServerStays
      DEF SessionInv, SessionTypeOK, Visit, chainVars, storageVars
  <2>2. FlowsFit'
    <3> SUFFICES ASSUME NEW f \in Flows PROVE FlowFits(f)'
      BY DEF FlowsFit
    <3>1. flows'[f] = [flows[f] EXCEPT !.here = FALSE]
      BY <1>3 DEF Visit
    <3>2. flows[f] \in FlowType /\ FlowFits(f)
      BY DEF SessionInv, SessionTypeOK, FlowsFit
    <3>3. /\ flows'[f].step = flows[f].step /\ flows'[f].kind = flows[f].kind
          /\ flows'[f].hash = flows[f].hash /\ flows'[f].label = flows[f].label
      BY <3>1, <3>2 DEF FlowType
    <3> QED
      BY <1>3, <3>2, <3>3 DEF FlowFits, Visit, chainVars
  <2>3. SentFits' /\ RecoveryFits' /\ VerdictsFit'
    BY <1>3, PageOfType
    DEF SessionInv, SentFits, RecoveryFits, VerdictsFit, Visit, chainVars, serverVars
  <2> QED
    BY <2>1, <2>2, <2>3, ServerStays DEF SessionInv
<1>4. ASSUME NEW l \in Labels, Load(l) PROVE SessionInv'
  <2>1. SessionTypeOK'
    BY <1>4, PageOfType, IdleFlowType, ServerStays
    DEF SessionInv, SessionTypeOK, Load, chainVars, storageVars
  <2>2. FlowsFit' /\ SentFits' /\ RecoveryFits' /\ VerdictsFit'
    BY <1>4, PageOfType, IdleFlowType
    DEF SessionInv, FlowsFit, FlowFits, SentFits, RecoveryFits, VerdictsFit, Load, chainVars,
        serverVars
  <2> QED
    BY <2>1, <2>2, ServerStays DEF SessionInv
<1>5. ASSUME NEW f \in Flows, Stop(f) PROVE SessionInv'
  <2>1. End(f, FALSE)
    BY <1>5 DEF Stop, End
  <2> QED
    BY <1>5, <2>1, EndType, FlowGoesOn
    DEF SessionInv, SessionTypeOK, Stop, storageVars
<1>6. ASSUME NEW f \in Flows, NEW h \in Hashes, Send(f, h) PROVE SessionInv'
  <2>0. flows[f] \in FlowType /\ flows[f].step = "preparing" /\ flows[f].label \in Labels
    BY <1>6 DEF SessionInv, SessionTypeOK, FlowsFit, FlowFits, Send
  <2>1. SessionTypeOK'
    <3>1. tx' \in [Hashes -> TxType]
      BY <1>6, <2>0 DEF SessionInv, SessionTypeOK, Send, TxType, FlowType
    <3>2. flows' \in [Flows -> FlowType]
      BY <1>6, <2>0 DEF SessionInv, SessionTypeOK, Send, FlowType
    <3> QED
      BY <1>6, <3>1, <3>2, ServerStays DEF SessionInv, SessionTypeOK, Send, storageVars
  <2>2. FlowsFit'
    <3> SUFFICES ASSUME NEW g \in Flows PROVE FlowFits(g)'
      BY DEF FlowsFit
    <3>1. CASE g = f
      <4>1. /\ flows'[f].step = "sent" /\ flows'[f].hash = h
            /\ flows'[f].kind = flows[f].kind /\ flows'[f].label = flows[f].label
        BY <1>6, <2>0 DEF SessionInv, SessionTypeOK, Send, FlowType
      <4>2. tx'[h].status = "pending" /\ tx'[h].kind = flows[f].kind
        BY <1>6 DEF SessionInv, SessionTypeOK, Send
      <4> QED
        BY <2>0, <3>1, <4>1, <4>2 DEF FlowFits
    <3>2. CASE g # f
      <4>1. flows'[g] = flows[g] /\ FlowFits(g)
        BY <1>6, <3>2 DEF SessionInv, SessionTypeOK, FlowsFit, Send
      <4>2. \A i \in Hashes : tx[i].status # "unsent" => tx'[i] = tx[i]
        BY <1>6 DEF SessionInv, SessionTypeOK, Send
      <4> QED
        BY <4>1, <4>2 DEF FlowFits
    <3> QED
      BY <3>1, <3>2
  <2>3. RecoveryFits' /\ VerdictsFit' /\ SentFits'
    BY <1>6, <2>0
    DEF SessionInv, SessionTypeOK, RecoveryFits, VerdictsFit, SentFits, Send, serverVars
  <2> QED
    BY <2>1, <2>2, <2>3, ServerStays DEF SessionInv
<1> QED
  BY <1>1, <1>2, <1>3, <1>4, <1>5, <1>6 DEF TabNext

LEMMA ManagementStep ==
  ASSUME SessionInv, ManagementNext, UNCHANGED serverVars
  PROVE  SessionInv'
<1>0. /\ page \in PageType /\ RecoveryFits
      /\ pendingAction \in [Labels -> Hashes \cup {NONE}]
      /\ pendingRegistration \in Hashes \cup {NONE}
  BY DEF SessionInv, SessionTypeOK
<1>1. ASSUME NEW f \in Flows, NEW kind \in ActionKinds, Begin(f, kind) PROVE SessionInv'
  <2>1. page' \in PageType /\ RecoveryFits'
    BY <1>0, <1>1 DEF Begin, PageType, RecoveryFits
  <2>2. CASE pendingAction[page.label] = NONE
    <3> DEFINE new == [IdleFlow EXCEPT !.step = "preparing", !.here = TRUE,
                                       !.label = page.label, !.kind = kind]
    <3>1. flows' = [flows EXCEPT ![f] = new]
      BY <1>1, <2>2 DEF Begin
    <3>2. new \in FlowType /\ new.step = "preparing" /\ new.label \in Labels
      BY <1>0 DEF IdleFlow, FlowType, PageType, Kinds
    <3>3. FlowFits(f)'
      BY <3>1, <3>2 DEF SessionInv, SessionTypeOK, FlowFits
    <3> HIDE DEF new
    <3> QED
      BY <1>0, <1>1, <2>1, <3>1, <3>2, <3>3, FlowGoesOn DEF Begin, storageVars
  <2>3. CASE pendingAction[page.label] # NONE
    BY <1>0, <1>1, <2>1, <2>3, FlowsStay DEF Begin, storageVars
  <2> QED
    BY <2>2, <2>3
<1>2. ASSUME NEW f \in Flows, RecordAction(f) PROVE SessionInv'
  <2> DEFINE new == [flows[f] EXCEPT !.step = "waiting"]
  <2>0. flows[f] \in FlowType /\ FlowFits(f)
    BY DEF SessionInv, SessionTypeOK, FlowsFit
  <2>1. flows[f].step = "sent" /\ flows[f].hash \in Hashes
    BY <1>2, <2>0 DEF RecordAction, FlowFits
  <2>2. /\ new \in FlowType /\ new.step = "waiting" /\ new.hash = flows[f].hash
        /\ new.kind = flows[f].kind /\ new.label = flows[f].label
    BY <2>0 DEF FlowType
  <2>3. flows' = [flows EXCEPT ![f] = new]
    BY <1>2 DEF RecordAction
  <2>4. pendingAction' \in [Labels -> Hashes \cup {NONE}]
    BY <1>0, <1>2, <2>1 DEF RecordAction
  <2> HIDE DEF new
  <2>5. FlowFits(f)'
    BY <1>2, <2>0, <2>1, <2>2, <2>3 DEF SessionInv, SessionTypeOK, FlowFits, RecordAction, chainVars
  <2> QED
    BY <1>0, <1>2, <2>2, <2>3, <2>4, <2>5, FlowGoesOn DEF RecordAction, RecoveryFits
<1>3. ASSUME NEW f \in Flows, ActionMined(f) PROVE SessionInv'
  <2>1. CASE Conclude(flows[f].label, flows[f].hash) /\ End(f, FALSE)
    BY <1>0, <2>1, EndType, ClearType, FlowGoesOn DEF Conclude
  <2>2. CASE /\ flows' = [flows EXCEPT ![f].step = "verifying"]
             /\ UNCHANGED <<chainVars, page, storageVars>>
    <3> DEFINE new == [flows[f] EXCEPT !.step = "verifying"]
    <3>0. flows[f] \in FlowType /\ FlowFits(f) /\ flows[f].step = "waiting"
      BY <1>3 DEF SessionInv, SessionTypeOK, FlowsFit, ActionMined
    <3>1. /\ new \in FlowType /\ new.step = "verifying" /\ new.hash = flows[f].hash
          /\ new.kind = flows[f].kind /\ new.label = flows[f].label
      BY <3>0 DEF FlowType
    <3>2. flows' = [flows EXCEPT ![f] = new]
      BY <2>2
    <3> HIDE DEF new
    <3>3. FlowFits(f)'
      BY <2>2, <3>0, <3>1, <3>2 DEF SessionInv, SessionTypeOK, FlowFits, chainVars
    <3> QED
      BY <1>0, <2>2, <3>1, <3>2, <3>3, FlowGoesOn DEF storageVars, RecoveryFits
  <2> QED
    BY <1>3, <2>1, <2>2 DEF ActionMined
<1>4. ASSUME NEW f \in Flows, ActionVerified(f) PROVE SessionInv'
  BY <1>0, <1>4, EndType, ClearType, FlowGoesOn DEF ActionVerified, Conclude
<1>5. ASSUME NEW f \in Flows, ActionLeft(f) PROVE SessionInv'
  BY <1>0, <1>5, EndType, FlowGoesOn DEF ActionLeft, storageVars
<1>6. ASSUME StartRecovery PROVE SessionInv'
  <2>1. page' \in PageType /\ RecoveryFits'
    BY <1>0, <1>6 DEF StartRecovery, PageType, RecoveryFits
  <2> QED
    BY <1>0, <1>6, <2>1, FlowsStay DEF StartRecovery, storageVars
<1>7. ASSUME RecoveryMined PROVE SessionInv'
  <2>1. page' \in PageType /\ RecoveryFits'
    BY <1>0, <1>7 DEF RecoveryMined, PageType, RecoveryFits
  <2> QED
    BY <1>0, <1>7, <2>1, ClearType, FlowsStay DEF RecoveryMined, Conclude, storageVars
<1>8. ASSUME RecoveryVerified PROVE SessionInv'
  <2>1. page' \in PageType /\ RecoveryFits'
    BY <1>0, <1>8 DEF RecoveryVerified, PageType, RecoveryFits
  <2> QED
    BY <1>0, <1>8, <2>1, ClearType, FlowsStay DEF RecoveryVerified, Conclude
<1>9. ASSUME RecoveryLeft \/ CancelRecovery PROVE SessionInv'
  <2>1. page' \in PageType /\ RecoveryFits'
    BY <1>0, <1>9 DEF RecoveryLeft, CancelRecovery, PageType, RecoveryFits
  <2> QED
    BY <1>0, <1>9, <2>1, FlowsStay DEF RecoveryLeft, CancelRecovery, storageVars
<1> QED
  BY <1>1, <1>2, <1>3, <1>4, <1>5, <1>6, <1>7, <1>8, <1>9
  DEF ManagementNext, ManageName, UseMarket, ActionKinds

LEMMA RegistrationStep ==
  ASSUME SessionInv, RegistrationNext, UNCHANGED serverVars
  PROVE  SessionInv'
<1>0. /\ page \in PageType /\ RecoveryFits
      /\ pendingAction \in [Labels -> Hashes \cup {NONE}]
      /\ pendingRegistration \in Hashes \cup {NONE}
  BY DEF SessionInv, SessionTypeOK
<1> PICK f \in Flows :
      \/ \E term \in Terms : StartRegistration(f, term)
      \/ CheckPending(f) \/ RecordRegistration(f) \/ RegistrationMined(f)
      \/ RegistrationVerified(f) \/ RegistrationLeft(f)
  BY DEF RegistrationNext
<1>f. flows[f] \in FlowType /\ FlowFits(f)
  BY DEF SessionInv, SessionTypeOK, FlowsFit
\* A flow of a registration that goes on to another step with a hash, or before it has one.
<1>a. ASSUME NEW new \in FlowType, flows' = [flows EXCEPT ![f] = new],
             new.kind = "register" \/ new.step = "preparing",
             new.step \in {"sent", "waiting", "verifying"} => new.hash \in Hashes,
             new.label \in Labels,
             page' \in PageType, RecoveryFits', UNCHANGED <<chainVars, pendingAction>>,
             pendingRegistration' \in Hashes \cup {NONE}
      PROVE  SessionInv'
  <2>1. flows'[f] = new
    BY <1>a DEF SessionInv, SessionTypeOK
  <2>2. FlowFits(f)'
    BY <1>a, <2>1 DEF FlowFits, ActionKinds
  <2> QED
    BY <1>0, <1>a, <2>2, FlowGoesOn
<1>1. ASSUME NEW term \in Terms, StartRegistration(f, term) PROVE SessionInv'
  <2> DEFINE new == [step |-> "connecting", here |-> TRUE, label |-> page.label,
                     kind |-> "register", term |-> term, hash |-> NONE]
  <2>1. /\ new \in FlowType /\ new.kind = "register" /\ new.step = "connecting"
        /\ new.label \in Labels
    BY <1>0 DEF FlowType, PageType, Kinds
  <2>2. page' \in PageType /\ RecoveryFits'
    BY <1>0, <1>1 DEF StartRegistration, PageType, RecoveryFits
  <2>3. flows' = [flows EXCEPT ![f] = new]
    BY <1>1 DEF StartRegistration
  <2> HIDE DEF new
  <2> QED
    BY <1>0, <1>1, <1>a, <2>1, <2>2, <2>3 DEF StartRegistration, storageVars
<1>2. ASSUME CheckPending(f) PROVE SessionInv'
  <2>1. flows[f].kind = "register" /\ flows[f].label \in Labels
    BY <1>2, <1>f DEF CheckPending, FlowFits
  <2>2. CASE flows' = [flows EXCEPT ![f].step = "preparing"] /\ UNCHANGED page
    <3> DEFINE new == [flows[f] EXCEPT !.step = "preparing"]
    <3>1. new \in FlowType /\ new.step = "preparing" /\ new.label \in Labels
      BY <1>f, <2>1 DEF FlowType
    <3>2. flows' = [flows EXCEPT ![f] = new]
      BY <2>2
    <3> HIDE DEF new
    <3> QED
      BY <1>0, <1>2, <1>a, <2>2, <3>1, <3>2 DEF CheckPending, storageVars, RecoveryFits
  <2>3. CASE /\ pendingRegistration # NONE /\ UNCHANGED page
             /\ flows' = [flows EXCEPT ![f].step = "waiting", ![f].hash = pendingRegistration]
    <3> DEFINE new == [flows[f] EXCEPT !.step = "waiting", !.hash = pendingRegistration]
    <3>1. new \in FlowType /\ new.kind = "register" /\ new.hash \in Hashes /\ new.label \in Labels
      BY <1>0, <1>f, <2>1, <2>3 DEF FlowType
    <3>2. flows' = [flows EXCEPT ![f] = new]
      BY <1>f, <2>3 DEF SessionInv, SessionTypeOK, FlowType
    <3> HIDE DEF new
    <3> QED
      BY <1>0, <1>2, <1>a, <2>3, <3>1, <3>2 DEF CheckPending, storageVars, RecoveryFits
  <2>4. CASE End(f, FALSE)
    BY <1>0, <1>2, <2>4, EndType, FlowGoesOn DEF CheckPending, storageVars
  <2> QED
    BY <1>2, <2>2, <2>3, <2>4 DEF CheckPending
<1>3. ASSUME RecordRegistration(f) PROVE SessionInv'
  <2> DEFINE new == [flows[f] EXCEPT !.step = "waiting"]
  <2>1. flows[f].hash \in Hashes /\ flows[f].kind = "register" /\ flows[f].label \in Labels
    BY <1>3, <1>f DEF RecordRegistration, FlowFits
  <2>2. new \in FlowType /\ new.kind = "register" /\ new.hash \in Hashes /\ new.label \in Labels
    BY <1>f, <2>1 DEF FlowType
  <2>3. flows' = [flows EXCEPT ![f] = new]
    BY <1>3 DEF RecordRegistration
  <2> HIDE DEF new
  <2> QED
    BY <1>0, <1>3, <1>a, <2>1, <2>2, <2>3 DEF RecordRegistration, RecoveryFits
<1>4. ASSUME RegistrationMined(f) PROVE SessionInv'
  <2>1. CASE ConcludeRegistration(flows[f].hash) /\ End(f, FALSE)
    BY <1>0, <2>1, EndType, FlowGoesOn DEF ConcludeRegistration, ClearRegistration
  <2>2. CASE /\ flows' = [flows EXCEPT ![f].step = "verifying"]
             /\ UNCHANGED <<chainVars, page, storageVars>>
    <3> DEFINE new == [flows[f] EXCEPT !.step = "verifying"]
    <3>0. flows[f].hash \in Hashes /\ flows[f].kind = "register" /\ flows[f].label \in Labels
      BY <1>4, <1>f DEF RegistrationMined, FlowFits
    <3>1. new \in FlowType /\ new.kind = "register" /\ new.hash \in Hashes /\ new.label \in Labels
      BY <1>f, <3>0 DEF FlowType
    <3>2. flows' = [flows EXCEPT ![f] = new]
      BY <2>2
    <3> HIDE DEF new
    <3> QED
      BY <1>0, <1>a, <2>2, <3>1, <3>2 DEF storageVars, RecoveryFits
  <2> QED
    BY <1>4, <2>1, <2>2 DEF RegistrationMined
<1>5. ASSUME RegistrationVerified(f) PROVE SessionInv'
  BY <1>0, <1>5, EndType, FlowGoesOn
  DEF RegistrationVerified, ConcludeRegistration, ClearRegistration
<1>6. ASSUME RegistrationLeft(f) PROVE SessionInv'
  BY <1>0, <1>6, EndType, FlowGoesOn DEF RegistrationLeft, storageVars
<1> QED
  BY <1>1, <1>2, <1>3, <1>4, <1>5, <1>6

-----------------------------------------------------------------------------
(* The server counts its verifications. *)

LEMMA VerdictChanges ==
  ASSUME SessionInv, UNCHANGED tabVars, NEW h \in Hashes,
         NEW new \in {"none", "running", "verified"}, verdict' = [verdict EXCEPT ![h] = new],
         new = "verified" => tx[h].status = "held",
         active' \in 0 .. MAX_CONCURRENT, ActiveIsRunning'
  PROVE  SessionInv'
<1>1. SessionTypeOK'
  BY DEF SessionInv, SessionTypeOK, tabVars, chainVars, storageVars
<1>2. FlowsFit' /\ SentFits' /\ RecoveryFits'
  BY DEF SessionInv, FlowsFit, FlowFits, SentFits, RecoveryFits, tabVars, chainVars
<1>3. VerdictsFit'
  BY DEF SessionInv, SessionTypeOK, VerdictsFit, tabVars, chainVars
<1> QED
  BY <1>1, <1>2, <1>3 DEF SessionInv

LEMMA ServerStep ==
  ASSUME SessionInv, ServerNext, UNCHANGED tabVars
  PROVE  SessionInv'
<1>0. /\ verdict \in [Hashes -> {"none", "running", "verified"}]
      /\ active \in 0 .. MAX_CONCURRENT /\ active = Cardinality(Running)
  BY DEF SessionInv, SessionTypeOK, ActiveIsRunning
<1>1. ASSUME NEW h \in Hashes, StartVerification(h) PROVE SessionInv'
  <2>1. Running' = Running \cup {h} /\ h \notin Running
    BY <1>0, <1>1 DEF StartVerification, Running
  <2>2. Cardinality(Running') = active + 1
    BY <1>0, <2>1, RunningIsFinite, FS_AddElement
  <2>3. active' \in 0 .. MAX_CONCURRENT /\ ActiveIsRunning'
    BY <1>0, <1>1, <2>2 DEF StartVerification, ActiveIsRunning
  <2> QED
    BY <1>1, <2>3, VerdictChanges DEF StartVerification
<1>2. ASSUME NEW h \in Hashes, NEW new \in {"none", "verified"}, verdict[h] = "running",
             verdict' = [verdict EXCEPT ![h] = new], active' = active - 1,
             new = "verified" => tx[h].status = "held"
      PROVE  SessionInv'
  <2>1. Running' = Running \ {h} /\ h \in Running
    BY <1>0, <1>2 DEF Running
  <2>2. Cardinality(Running') = active - 1 /\ Cardinality(Running') \in Nat
    BY <1>0, <2>1, RunningIsFinite, FS_RemoveElement, FS_CardinalityType
  <2>3. active' \in 0 .. MAX_CONCURRENT /\ ActiveIsRunning'
    BY <1>0, <1>2, <2>2 DEF ActiveIsRunning
  <2> QED
    BY <1>2, <2>3, VerdictChanges
<1>3. ASSUME NEW h \in Hashes, VerificationSucceeds(h) PROVE SessionInv'
  <2>1. tx[h].status = "held"
    BY <1>3 DEF VerificationSucceeds, Confirms, ReceiptConfirms, Succeeded
  <2> QED
    BY <1>2, <1>3, <2>1 DEF VerificationSucceeds
<1>4. ASSUME NEW h \in Hashes, VerificationFails(h) PROVE SessionInv'
  BY <1>2, <1>4 DEF VerificationFails
<1>5. ASSUME NEW h \in Hashes, Evict(h) PROVE SessionInv'
  <2>1. Running' = Running
    BY <1>0, <1>5 DEF Evict, Running
  <2>2. active' \in 0 .. MAX_CONCURRENT /\ ActiveIsRunning'
    BY <1>0, <1>5, <2>1 DEF Evict, ActiveIsRunning
  <2> QED
    BY <1>5, <2>2, VerdictChanges DEF Evict
<1> QED
  BY <1>1, <1>3, <1>4, <1>5 DEF ServerNext

-----------------------------------------------------------------------------
(* The theorems. *)

LEMMA SessionStep == SessionInv /\ [SessionNext]_sessionVars => SessionInv'
<1> SUFFICES ASSUME SessionInv, [SessionNext]_sessionVars PROVE SessionInv'
  OBVIOUS
<1>1. CASE SessionNext
  BY <1>1, TabStep, ManagementStep, RegistrationStep, ServerStep DEF SessionNext
<1>2. CASE UNCHANGED sessionVars
  BY <1>2
  DEF SessionInv, SessionTypeOK, FlowsFit, FlowFits, SentFits, RecoveryFits, VerdictsFit,
      ActiveIsRunning, Running, sessionVars, tabVars, chainVars, storageVars, serverVars
<1> QED
  BY <1>1, <1>2

\* The variables keep their types, and at most MAX_CONCURRENT verifications run at a time,
\* for any number of callers that come, join and go.
THEOREM SessionTypeCorrect == SessionSpec => []SessionTypeOK
<1>1. SessionSpec => []SessionInv
  BY SessionInitInv, SessionStep, PTL DEF SessionSpec
<1>2. SessionInv => SessionTypeOK
  BY DEF SessionInv
<1> QED
  BY <1>1, <1>2, PTL

\* What a step may give up of the records.
RecordsGivenUp ==
  /\ \A l \in Labels :
       pendingAction[l] # NONE /\ pendingAction'[l] = NONE => Settled(pendingAction[l])
  /\ pendingRegistration # NONE /\ pendingRegistration' = NONE =>
       \E h \in Hashes : SameIntent(h, pendingRegistration) /\ Settled(h)

LEMMA ClearOwn ==
  ASSUME SessionInv, NEW k \in Labels, NEW h \in Hashes, Conclude(k, h), Settled(h)
  PROVE  RecordsGivenUp
  BY DEF SessionInv, SessionTypeOK, Conclude, ClearAction, RecordsGivenUp

LEMMA ClearSameIntent ==
  ASSUME SessionInv, NEW h \in Hashes, ConcludeRegistration(h), Settled(h)
  PROVE  RecordsGivenUp
<1>1. SameIntent(pendingRegistration, h) => SameIntent(h, pendingRegistration)
  BY DEF SameIntent
<1> QED
  BY <1>1 DEF ConcludeRegistration, ClearRegistration, RecordsGivenUp

LEMMA StorageStays == ASSUME UNCHANGED storageVars PROVE RecordsGivenUp
  BY DEF storageVars, RecordsGivenUp

LEMMA GivenUpStep ==
  ASSUME SessionInv, SessionNext PROVE RecordsGivenUp
<1>1. CASE TabNext
  BY <1>1, StorageStays
  DEF TabNext, Mine, StrangerRegisters, Visit, Load, Stop, Send
<1>2. CASE ManagementNext
  <2>1. ASSUME NEW f \in Flows, ManageName(f) \/ UseMarket(f) \/ ActionLeft(f)
        PROVE  RecordsGivenUp
    BY <2>1, StorageStays DEF ManageName, UseMarket, Begin, ActionLeft
  <2>2. ASSUME NEW f \in Flows, RecordAction(f) PROVE RecordsGivenUp
    <3>1. flows[f].hash \in Hashes
      BY <2>2 DEF SessionInv, FlowsFit, FlowFits, RecordAction
    <3> QED
      BY <2>2, <3>1 DEF SessionInv, SessionTypeOK, RecordAction, RecordsGivenUp
  <2>3. ASSUME NEW f \in Flows, ActionMined(f) \/ ActionVerified(f) PROVE RecordsGivenUp
    <3> DEFINE l == flows[f].label  h == flows[f].hash
    <3>1. /\ h \in Hashes /\ l \in Labels
          /\ tx[h].status # "unsent" /\ tx[h].kind = flows[f].kind
      BY <2>3 DEF SessionInv, SessionTypeOK, FlowType, FlowsFit, FlowFits, ActionMined,
                  ActionVerified
    <3>2. CASE ActionVerified(f)
      <4>1. tx[h].status = "held"
        BY <3>1, <3>2 DEF SessionInv, VerdictsFit, ActionVerified
      <4> QED
        BY <3>1, <3>2, <4>1, ClearOwn DEF ActionVerified, Settled, Succeeded
    <3>3. CASE ActionMined(f)
      <4>1. CASE /\ Reverted(h) \/ (Succeeded(h) /\ flows[f].kind = "plain")
                 /\ Conclude(l, h)
        BY <3>1, <4>1, ClearOwn DEF Settled
      <4>2. CASE UNCHANGED storageVars
        BY <4>2, StorageStays
      <4> QED
        BY <3>3, <4>1, <4>2 DEF ActionMined
    <3> QED
      BY <2>3, <3>2, <3>3
  <2>4. CASE StartRecovery \/ RecoveryLeft \/ CancelRecovery
    BY <2>4, StorageStays DEF StartRecovery, RecoveryLeft, CancelRecovery
  <2>5. CASE RecoveryMined \/ RecoveryVerified
    <3>1. page.seen \in Hashes /\ page.label \in Labels
      BY <2>5 DEF SessionInv, SessionTypeOK, PageType, RecoveryFits, RecoveryMined,
                  RecoveryVerified
    <3>2. CASE RecoveryVerified
      <4>1. tx[page.seen].status = "held"
        BY <3>1, <3>2 DEF SessionInv, VerdictsFit, RecoveryVerified
      <4> QED
        BY <3>1, <3>2, <4>1, ClearOwn DEF RecoveryVerified, Settled, Succeeded
    <3>3. CASE RecoveryMined
      BY <3>1, <3>3, ClearOwn, StorageStays DEF RecoveryMined, Settled
    <3> QED
      BY <2>5, <3>2, <3>3
  <2> QED
    BY <1>2, <2>1, <2>2, <2>3, <2>4, <2>5 DEF ManagementNext
<1>3. CASE RegistrationNext
  <2> PICK f \in Flows :
        \/ \E term \in Terms : StartRegistration(f, term)
        \/ CheckPending(f) \/ RecordRegistration(f) \/ RegistrationMined(f)
        \/ RegistrationVerified(f) \/ RegistrationLeft(f)
    BY <1>3 DEF RegistrationNext
  <2>0. flows[f].step \in {"sent", "waiting", "verifying"} => flows[f].hash \in Hashes
    BY DEF SessionInv, FlowsFit, FlowFits
  <2>1. CASE (\E term \in Terms : StartRegistration(f, term)) \/ CheckPending(f)
             \/ RegistrationLeft(f)
    BY <2>1, StorageStays DEF StartRegistration, CheckPending, RegistrationLeft
  <2>2. CASE RecordRegistration(f)
    BY <2>0, <2>2 DEF RecordRegistration, RecordsGivenUp
  <2>3. CASE RegistrationMined(f)
    BY <2>0, <2>3, ClearSameIntent, StorageStays DEF RegistrationMined, Settled
  <2>4. CASE RegistrationVerified(f)
    BY <2>0, <2>4, ClearSameIntent DEF RegistrationVerified, Settled, Succeeded
  <2> QED
    BY <2>1, <2>2, <2>3, <2>4
<1>4. CASE UNCHANGED tabVars
  BY <1>4, StorageStays DEF tabVars
<1> QED
  BY <1>1, <1>2, <1>3, <1>4 DEF SessionNext

\* However the flows of a tab overlap, and whatever reloads, late receipts and refusals come
\* between: a record is given up only when nothing more is to be learnt of its transaction.
THEOREM RecordsOutliveTransactionsCorrect == SessionSpec => RecordsOutliveTransactions
<1>1. SessionSpec => []SessionInv
  BY SessionInitInv, SessionStep, PTL DEF SessionSpec
<1>2. SessionInv /\ [SessionNext]_sessionVars => [RecordsGivenUp]_sessionVars
  BY GivenUpStep
<1>3. SessionSpec => [][RecordsGivenUp]_sessionVars
  BY <1>1, <1>2, PTL DEF SessionSpec
<1> QED
  BY <1>3, PTL DEF RecordsOutliveTransactions, RecordsGivenUp

\* The verification service gives every slot back: the count it keeps by hand is the number
\* of verifications that run, whichever of them end, fail or are asked for again, and what
\* it remembers as verified is on the chain for good.
THEOREM SlotsComeBack ==
  SessionSpec => [](/\ active = Cardinality({h \in Hashes : verdict[h] = "running"})
                    /\ \A h \in Hashes : verdict[h] = "verified" => tx[h].status = "held")
<1>1. SessionSpec => []SessionInv
  BY SessionInitInv, SessionStep, PTL DEF SessionSpec
<1>2. SessionInv => /\ active = Cardinality({h \in Hashes : verdict[h] = "running"})
                    /\ \A h \in Hashes : verdict[h] = "verified" => tx[h].status = "held"
  BY DEF SessionInv, ActiveIsRunning, Running, VerdictsFit
<1> QED
  BY <1>1, <1>2, PTL

-----------------------------------------------------------------------------
(* Records and flows are of their own names. *)

\* A transaction that was sent, about the name.
SentFor(h, l) == h \in Hashes /\ tx[h].status # "unsent" /\ tx[h].label = l

\* A flow waits for the transaction it sent, or for one of its own intent.
FlowOwn(f) ==
  flows[f].step \in {"sent", "waiting", "verifying"} =>
    /\ SentFor(flows[f].hash, flows[f].label)
    /\ tx[flows[f].hash].kind = flows[f].kind
    /\ tx[flows[f].hash].term = flows[f].term
FlowsOwn == \A f \in Flows : FlowOwn(f)

\* getPendingNameAction, getPendingRegistration: a record names a transaction the wallet
\* sent, about the name it is stored under; an action's is not a registration, and the
\* registration's is one.
RecordsOwn ==
  /\ \A l \in Labels : pendingAction[l] # NONE =>
       SentFor(pendingAction[l], l) /\ tx[pendingAction[l]].kind \in ActionKinds
  /\ pendingRegistration # NONE =>
       /\ tx[pendingRegistration].status # "unsent"
       /\ tx[pendingRegistration].kind = "register"

\* The recovery of a page is about the name on the page.
RecoveryOwn ==
  page.recovery # "idle" =>
    SentFor(page.seen, page.label) /\ tx[page.seen].kind \in ActionKinds

OwnInv == FlowsOwn /\ RecordsOwn /\ RecoveryOwn

\* What the wallet sent is not sent again as something else.
LEMMA SentStays ==
  ASSUME SessionInv, SessionNext, NEW h \in Hashes, tx[h].status # "unsent"
  PROVE  /\ tx'[h].status # "unsent" /\ tx'[h].label = tx[h].label
         /\ tx'[h].kind = tx[h].kind /\ tx'[h].term = tx[h].term
<1>1. CASE UNCHANGED tx
  BY <1>1
<1>2. ASSUME NEW g \in Hashes, NEW outcome \in Outcomes, Mine(g, outcome)
      PROVE  /\ tx'[h].status # "unsent" /\ tx'[h].label = tx[h].label
             /\ tx'[h].kind = tx[h].kind /\ tx'[h].term = tx[h].term
  <2>1. tx[h] \in TxType /\ tx'[h] = IF h = g THEN [tx[h] EXCEPT !.status = outcome] ELSE tx[h]
    BY <1>2 DEF Mine, SessionInv, SessionTypeOK
  <2> QED
    BY <2>1 DEF TxType, Outcomes
<1>3. ASSUME NEW f \in Flows, NEW g \in Hashes, Send(f, g) PROVE tx'[h] = tx[h]
  BY <1>3 DEF Send, SessionInv, SessionTypeOK
<1>4. \/ UNCHANGED tx
      \/ \E g \in Hashes, outcome \in Outcomes : Mine(g, outcome)
      \/ \E f \in Flows, g \in Hashes : Send(f, g)
  <2>1. CASE TabNext
    BY <2>1 DEF TabNext, StrangerRegisters, Visit, Load, Stop, chainVars
  <2>2. CASE ManagementNext
    BY <2>2 DEF ManagementNext, ManageName, UseMarket, Begin, RecordAction, ActionMined,
                ActionVerified, ActionLeft, StartRecovery, RecoveryMined, RecoveryVerified,
                RecoveryLeft, CancelRecovery, Conclude, chainVars
  <2>3. CASE RegistrationNext
    BY <2>3 DEF RegistrationNext, StartRegistration, CheckPending, RecordRegistration,
                RegistrationMined, RegistrationVerified, RegistrationLeft,
                ConcludeRegistration, chainVars
  <2>4. CASE UNCHANGED tabVars
    BY <2>4 DEF tabVars, chainVars
  <2> QED
    BY <2>1, <2>2, <2>3, <2>4 DEF SessionNext
<1> QED
  BY <1>1, <1>2, <1>3, <1>4

LEMMA SentForStays ==
  ASSUME SessionInv, SessionNext, NEW h, NEW l, SentFor(h, l)
  PROVE  /\ SentFor(h, l)' /\ tx'[h].kind = tx[h].kind /\ tx'[h].term = tx[h].term
  BY SentStays DEF SentFor

\* A flow that goes on with the same transaction.
LEMMA FlowKept ==
  ASSUME SessionInv, SessionNext, OwnInv, NEW f \in Flows,
         flows'[f].step \in {"sent", "waiting", "verifying"} =>
           /\ flows[f].step \in {"sent", "waiting", "verifying"}
           /\ flows'[f].hash = flows[f].hash /\ flows'[f].label = flows[f].label
           /\ flows'[f].kind = flows[f].kind /\ flows'[f].term = flows[f].term
  PROVE  FlowOwn(f)'
<1> SUFFICES ASSUME flows'[f].step \in {"sent", "waiting", "verifying"} PROVE FlowOwn(f)'
  BY DEF FlowOwn
<1>1. PICK h, l : h = flows[f].hash /\ l = flows[f].label
  OBVIOUS
<1>2. SentFor(h, l) /\ tx[h].kind = flows[f].kind /\ tx[h].term = flows[f].term
  BY <1>1 DEF OwnInv, FlowsOwn, FlowOwn
<1>3. SentFor(h, l)' /\ tx'[h].kind = tx[h].kind /\ tx'[h].term = tx[h].term
  BY <1>2, SentForStays
<1> QED
  BY <1>1, <1>2, <1>3 DEF FlowOwn

\* Records that stay or are cleared.
LEMMA RecordsKept ==
  ASSUME SessionInv, SessionNext, OwnInv,
         \A l \in Labels : pendingAction'[l] \in {NONE, pendingAction[l]},
         pendingRegistration' \in {NONE, pendingRegistration}
  PROVE  RecordsOwn'
<1>1. ASSUME NEW l \in Labels, pendingAction'[l] # NONE
      PROVE  SentFor(pendingAction[l], l)' /\ tx'[pendingAction'[l]].kind \in ActionKinds
  <2>1. PICK h : h = pendingAction[l]
    OBVIOUS
  <2>2. SentFor(h, l) /\ tx[h].kind \in ActionKinds /\ pendingAction'[l] = h
    BY <1>1, <2>1 DEF OwnInv, RecordsOwn
  <2>3. SentFor(h, l)' /\ tx'[h].kind = tx[h].kind
    BY <2>2, SentForStays
  <2> QED
    BY <2>2, <2>3
<1>2. ASSUME pendingRegistration' # NONE
      PROVE  /\ tx'[pendingRegistration'].status # "unsent"
             /\ tx'[pendingRegistration'].kind = "register"
  <2>1. PICK h \in Hashes : h = pendingRegistration /\ h = pendingRegistration'
    BY <1>2 DEF SessionInv, SessionTypeOK
  <2>2. tx[h].status # "unsent" /\ tx[h].kind = "register"
    BY <1>2, <2>1 DEF OwnInv, RecordsOwn
  <2> QED
    BY <2>1, <2>2, SentStays
<1> QED
  BY <1>1, <1>2 DEF RecordsOwn

\* A recovery that goes on, or none.
LEMMA RecoveryKept ==
  ASSUME SessionInv, SessionNext, OwnInv,
         page'.recovery # "idle" =>
           page.recovery # "idle" /\ page'.seen = page.seen /\ page'.label = page.label
  PROVE  RecoveryOwn'
<1> SUFFICES ASSUME page'.recovery # "idle" PROVE RecoveryOwn'
  BY DEF RecoveryOwn
<1>1. PICK h, l : h = page.seen /\ l = page.label
  OBVIOUS
<1>2. SentFor(h, l) /\ tx[h].kind \in ActionKinds
  BY <1>1 DEF OwnInv, RecoveryOwn
<1>3. SentFor(h, l)' /\ tx'[h].kind = tx[h].kind
  BY <1>2, SentForStays
<1> QED
  BY <1>1, <1>2, <1>3 DEF RecoveryOwn

LEMMA TabKeepsOwn == ASSUME SessionInv, OwnInv, SessionNext, TabNext PROVE OwnInv'
<1>1. \A l \in Labels : pendingAction'[l] \in {NONE, pendingAction[l]}
  BY DEF TabNext, Mine, StrangerRegisters, Visit, Load, Stop, Send, storageVars
<1>2. pendingRegistration' \in {NONE, pendingRegistration}
  BY DEF TabNext, Mine, StrangerRegisters, Visit, Load, Stop, Send, storageVars
<1>3. page'.recovery # "idle" =>
        page.recovery # "idle" /\ page'.seen = page.seen /\ page'.label = page.label
  <2>1. CASE \E l \in Labels : page' = PageOf(l)
    BY <2>1, PageOfType
  <2>2. CASE page' = [page EXCEPT !.busy = FALSE] \/ page' = page
    BY <2>2 DEF SessionInv, SessionTypeOK, PageType
  <2>3. (\E l \in Labels : page' = PageOf(l)) \/ page' = [page EXCEPT !.busy = FALSE]
        \/ page' = page
    BY DEF TabNext, Mine, StrangerRegisters, Visit, Load, Stop, Send
  <2> QED
    BY <2>1, <2>2, <2>3
<1>4. ASSUME NEW f \in Flows PROVE FlowOwn(f)'
  <2> DEFINE Kept ==
        flows'[f].step \in {"sent", "waiting", "verifying"} =>
          /\ flows[f].step \in {"sent", "waiting", "verifying"}
          /\ flows'[f].hash = flows[f].hash /\ flows'[f].label = flows[f].label
          /\ flows'[f].kind = flows[f].kind /\ flows'[f].term = flows[f].term
  <2>0. flows[f] \in FlowType
    BY DEF SessionInv, SessionTypeOK
  <2>1. CASE UNCHANGED flows
    BY <2>1, FlowKept
  <2>2. CASE \E l \in Labels : Visit(l) \/ Load(l)
    <3>1. flows'[f] = [flows[f] EXCEPT !.here = FALSE] \/ flows'[f] = IdleFlow
      BY <2>2 DEF Visit, Load
    <3>2. Kept
      BY <2>0, <3>1, IdleFlowType DEF FlowType
    <3> QED
      BY <3>2, FlowKept
  <2>3. CASE \E g \in Flows : Stop(g)
    <3>1. flows'[f] = flows[f] \/ flows'[f] = IdleFlow
      BY <2>3 DEF Stop, SessionInv, SessionTypeOK
    <3>2. Kept
      BY <3>1, IdleFlowType
    <3> QED
      BY <3>2, FlowKept
  <2>4. ASSUME NEW g \in Flows, NEW h \in Hashes, Send(g, h) PROVE FlowOwn(f)'
    <3>1. CASE f # g
      <4>1. flows'[f] = flows[f]
        BY <2>4, <3>1 DEF Send, SessionInv, SessionTypeOK
      <4> QED
        BY <4>1, FlowKept
    <3>2. CASE f = g
      <4>1. flows'[f] = [flows[f] EXCEPT !.step = "sent", !.hash = h]
        BY <2>4, <3>2 DEF Send, SessionInv, SessionTypeOK
      <4>2. /\ flows'[f].hash = h /\ flows'[f].label = flows[f].label
            /\ flows'[f].kind = flows[f].kind /\ flows'[f].term = flows[f].term
        BY <2>0, <4>1 DEF FlowType
      <4>3. tx'[h] = [status |-> "pending", label |-> flows[f].label,
                      kind |-> flows[f].kind, term |-> flows[f].term]
        BY <2>4, <3>2 DEF Send, SessionInv, SessionTypeOK
      <4> QED
        BY <4>2, <4>3 DEF FlowOwn, SentFor
    <3> QED
      BY <3>1, <3>2
  <2>5. \/ UNCHANGED flows
        \/ \E l \in Labels : Visit(l) \/ Load(l)
        \/ \E g \in Flows : Stop(g)
        \/ \E g \in Flows, h \in Hashes : Send(g, h)
    BY DEF TabNext, Mine, StrangerRegisters
  <2> QED
    BY <2>1, <2>2, <2>3, <2>4, <2>5
<1> QED
  BY <1>1, <1>2, <1>3, <1>4, RecordsKept, RecoveryKept DEF OwnInv, FlowsOwn

\* A panel's step on one flow, and the page's recovery, if there is one, stays its own.
LEMMA PanelKeepsFlows ==
  ASSUME SessionInv, OwnInv, SessionNext, NEW g \in Flows, NEW new,
         flows' = [flows EXCEPT ![g] = new],
         new.step \in {"sent", "waiting", "verifying"} =>
           /\ flows[g].step \in {"sent", "waiting", "verifying"}
           /\ new.hash = flows[g].hash /\ new.label = flows[g].label
           /\ new.kind = flows[g].kind /\ new.term = flows[g].term
  PROVE  FlowsOwn'
<1> SUFFICES ASSUME NEW f \in Flows PROVE FlowOwn(f)'
  BY DEF FlowsOwn
<1>1. flows'[f] = IF f = g THEN new ELSE flows[f]
  BY DEF SessionInv, SessionTypeOK
<1> QED
  BY <1>1, FlowKept

LEMMA ManagementKeepsOwn == ASSUME SessionInv, OwnInv, SessionNext, ManagementNext PROVE OwnInv'
<1>1. ASSUME UNCHANGED flows PROVE FlowsOwn'
  BY <1>1, FlowKept DEF FlowsOwn
<1>2. ASSUME page' = page \/ (\E b \in BOOLEAN : page' = [page EXCEPT !.busy = b])
             \/ page'.recovery = "idle"
      PROVE  RecoveryOwn'
  <2>1. page'.recovery # "idle" =>
          page.recovery # "idle" /\ page'.seen = page.seen /\ page'.label = page.label
    BY <1>2 DEF SessionInv, SessionTypeOK, PageType
  <2> QED
    BY <2>1, RecoveryKept
<1>3. ASSUME NEW l \in Labels, NEW h \in Hashes, Conclude(l, h) PROVE RecordsOwn'
  <2>1. \A k \in Labels : pendingAction'[k] \in {NONE, pendingAction[k]}
    BY <1>3 DEF Conclude, ClearAction, SessionInv, SessionTypeOK
  <2> QED
    BY <1>3, <2>1, RecordsKept DEF Conclude
<1>4. ASSUME UNCHANGED storageVars PROVE RecordsOwn'
  BY <1>4, RecordsKept DEF storageVars
<1>5. ASSUME NEW f \in Flows, NEW kind \in ActionKinds, Begin(f, kind) PROVE OwnInv'
  <2>1. FlowsOwn'
    <3>1. CASE UNCHANGED flows
      BY <1>1, <3>1
    <3>2. CASE flows' # flows
      <4>1. PICK new : /\ new = [IdleFlow EXCEPT !.step = "preparing", !.here = TRUE,
                                                 !.label = page.label, !.kind = kind]
                       /\ flows' = [flows EXCEPT ![f] = new]
        BY <1>5, <3>2 DEF Begin
      <4>2. new.step = "preparing"
        BY <4>1 DEF IdleFlow
      <4> QED
        BY <4>1, <4>2, PanelKeepsFlows
    <3> QED
      BY <3>1, <3>2
  <2> QED
    BY <1>2, <1>4, <1>5, <2>1 DEF Begin, OwnInv
<1>6. ASSUME NEW f \in Flows, ActionLeft(f) PROVE OwnInv'
  <2>1. FlowsOwn'
    BY <1>6, PanelKeepsFlows, IdleFlowType DEF ActionLeft, End
  <2> QED
    BY <1>2, <1>4, <1>6, <2>1 DEF ActionLeft, End, OwnInv
<1>7. ASSUME NEW f \in Flows, ActionMined(f) \/ ActionVerified(f) PROVE OwnInv'
  <2>0. PICK h \in Hashes, l \in Labels : h = flows[f].hash /\ l = flows[f].label
    BY <1>7 DEF SessionInv, FlowsFit, FlowFits, ActionMined, ActionVerified
  <2>1. CASE Conclude(l, h) /\ End(f, FALSE)
    <3>1. FlowsOwn'
      BY <2>1, PanelKeepsFlows, IdleFlowType DEF End
    <3> QED
      BY <1>2, <1>3, <2>1, <3>1 DEF End, OwnInv
  <2>2. CASE /\ flows[f].step = "waiting" /\ UNCHANGED <<page, storageVars>>
             /\ flows' = [flows EXCEPT ![f].step = "verifying"]
    <3>1. PICK new : new = [flows[f] EXCEPT !.step = "verifying"]
                     /\ flows' = [flows EXCEPT ![f] = new]
      BY <2>2
    <3>2. /\ new.hash = flows[f].hash /\ new.label = flows[f].label
          /\ new.kind = flows[f].kind /\ new.term = flows[f].term
      BY <3>1 DEF SessionInv, SessionTypeOK, FlowType
    <3>3. FlowsOwn'
      BY <2>2, <3>1, <3>2, PanelKeepsFlows
    <3> QED
      BY <1>2, <1>4, <2>2, <3>3 DEF OwnInv
  <2>3. \/ Conclude(l, h) /\ End(f, FALSE)
        \/ /\ flows[f].step = "waiting" /\ UNCHANGED <<page, storageVars>>
           /\ flows' = [flows EXCEPT ![f].step = "verifying"]
    BY <1>7, <2>0 DEF ActionMined, ActionVerified
  <2> QED
    BY <2>1, <2>2, <2>3
<1>8. ASSUME NEW f \in Flows, RecordAction(f) PROVE OwnInv'
  <2>0. PICK h \in Hashes, l \in Labels : h = flows[f].hash /\ l = flows[f].label
    BY <1>8 DEF SessionInv, FlowsFit, FlowFits, RecordAction
  <2>1. SentFor(h, l) /\ tx[h].kind \in ActionKinds
    BY <1>8, <2>0 DEF OwnInv, FlowsOwn, FlowOwn, RecordAction
  <2>2. SentFor(h, l)' /\ tx'[h].kind \in ActionKinds
    BY <2>1, SentForStays
  <2>3. /\ pendingAction' = [pendingAction EXCEPT ![l] = h]
        /\ flows[f].step = "sent" /\ flows' = [flows EXCEPT ![f].step = "waiting"]
        /\ UNCHANGED <<tx, page, pendingRegistration>>
    BY <1>8, <2>0 DEF RecordAction, chainVars
  <2>4. RecordsOwn'
    <3>1. ASSUME NEW k \in Labels, pendingAction'[k] # NONE
          PROVE  SentFor(pendingAction[k], k)' /\ tx'[pendingAction'[k]].kind \in ActionKinds
      <4>1. CASE k = l
        <5>1. pendingAction'[k] = h
          BY <2>3, <4>1 DEF SessionInv, SessionTypeOK
        <5> QED
          BY <2>2, <4>1, <5>1
      <4>2. CASE k # l
        <5>1. PICK g : g = pendingAction[k] /\ pendingAction'[k] = g
          BY <2>3, <4>2 DEF SessionInv, SessionTypeOK
        <5>2. SentFor(g, k) /\ tx[g].kind \in ActionKinds
          BY <3>1, <5>1 DEF OwnInv, RecordsOwn
        <5>3. SentFor(g, k)' /\ tx'[g].kind \in ActionKinds
          BY <5>2, SentForStays
        <5> QED
          BY <5>1, <5>3
      <4> QED
        BY <4>1, <4>2
    <3>2. pendingRegistration' # NONE =>
            /\ tx'[pendingRegistration'].status # "unsent"
            /\ tx'[pendingRegistration'].kind = "register"
      BY <2>3 DEF OwnInv, RecordsOwn
    <3> QED
      BY <3>1, <3>2 DEF RecordsOwn
  <2>5. FlowsOwn'
    <3>1. PICK new : new = [flows[f] EXCEPT !.step = "waiting"]
                     /\ flows' = [flows EXCEPT ![f] = new]
      BY <2>3
    <3>2. /\ new.hash = flows[f].hash /\ new.label = flows[f].label
          /\ new.kind = flows[f].kind /\ new.term = flows[f].term
      BY <3>1 DEF SessionInv, SessionTypeOK, FlowType
    <3> QED
      BY <2>3, <3>1, <3>2, PanelKeepsFlows
  <2> QED
    BY <1>2, <2>3, <2>4, <2>5 DEF OwnInv
<1>9. CASE StartRecovery
  <2>0. PICK h \in Hashes, l \in Labels : h = pendingAction[l] /\ l = page.label /\ h # NONE
    BY <1>9 DEF StartRecovery, SessionInv, SessionTypeOK, PageType
  <2>1. SentFor(h, l) /\ tx[h].kind \in ActionKinds
    BY <2>0 DEF OwnInv, RecordsOwn
  <2>2. SentFor(h, l)' /\ tx'[h].kind \in ActionKinds
    BY <2>1, SentForStays
  <2>3. page'.seen = h /\ page'.label = l
    BY <1>9, <2>0 DEF StartRecovery, SessionInv, SessionTypeOK, PageType
  <2>4. RecoveryOwn'
    BY <2>2, <2>3 DEF RecoveryOwn
  <2> QED
    BY <1>1, <1>4, <1>9, <2>4 DEF StartRecovery, OwnInv
<1>10. CASE RecoveryMined \/ RecoveryVerified
  <2>0. PICK h \in Hashes, l \in Labels : h = page.seen /\ l = page.label
    BY <1>10 DEF SessionInv, SessionTypeOK, RecoveryFits, PageType, RecoveryMined,
                 RecoveryVerified
  <2>1. CASE Conclude(l, h) /\ page' = [page EXCEPT !.recovery = "idle", !.busy = FALSE]
    <3>1. page'.recovery = "idle"
      BY <2>1 DEF SessionInv, SessionTypeOK, PageType
    <3> QED
      BY <1>1, <1>2, <1>3, <1>10, <2>1, <3>1 DEF RecoveryMined, RecoveryVerified, OwnInv
  <2>2. CASE /\ UNCHANGED storageVars /\ page.recovery = "waiting"
             /\ page' = [page EXCEPT !.recovery = "verifying"]
    <3>1. page'.seen = page.seen /\ page'.label = page.label
      BY <2>2 DEF SessionInv, SessionTypeOK, PageType
    <3>2. RecoveryOwn'
      BY <2>2, <3>1, RecoveryKept
    <3> QED
      BY <1>1, <1>4, <1>10, <2>2, <3>2 DEF RecoveryMined, RecoveryVerified, OwnInv
  <2> QED
    BY <1>10, <2>0, <2>1, <2>2 DEF RecoveryMined, RecoveryVerified
<1>11. CASE RecoveryLeft \/ CancelRecovery
  <2>1. page'.recovery = "idle"
    BY <1>11 DEF RecoveryLeft, CancelRecovery, SessionInv, SessionTypeOK, PageType
  <2> QED
    BY <1>1, <1>2, <1>4, <1>11, <2>1 DEF RecoveryLeft, CancelRecovery, OwnInv
<1> QED
  BY <1>5, <1>6, <1>7, <1>8, <1>9, <1>10, <1>11
  DEF ManagementNext, ManageName, UseMarket, ActionKinds

LEMMA RegistrationKeepsOwn ==
  ASSUME SessionInv, OwnInv, SessionNext, RegistrationNext PROVE OwnInv'
<1>1. PICK f \in Flows :
        \/ \E term \in Terms : StartRegistration(f, term)
        \/ CheckPending(f) \/ RecordRegistration(f) \/ RegistrationMined(f)
        \/ RegistrationVerified(f) \/ RegistrationLeft(f)
  BY DEF RegistrationNext
<1>2. RecoveryOwn'
  <2>1. page' = page \/ \E b \in BOOLEAN : page' = [page EXCEPT !.busy = b]
    BY <1>1 DEF StartRegistration, CheckPending, RecordRegistration, RegistrationMined,
                RegistrationVerified, RegistrationLeft, End
  <2>2. page'.recovery # "idle" =>
          page.recovery # "idle" /\ page'.seen = page.seen /\ page'.label = page.label
    BY <2>1 DEF SessionInv, SessionTypeOK, PageType
  <2> QED
    BY <2>2, RecoveryKept
<1>3. RecordsOwn'
  <2>1. CASE RecordRegistration(f)
    <3>1. PICK h \in Hashes : h = flows[f].hash
      BY <2>1 DEF RecordRegistration, SessionInv, FlowsFit, FlowFits
    <3>2. tx[h].status # "unsent" /\ tx[h].kind = "register"
      BY <2>1, <3>1 DEF RecordRegistration, OwnInv, FlowsOwn, FlowOwn, SentFor
    <3>3. pendingRegistration' = h /\ UNCHANGED <<tx, pendingAction>>
      BY <2>1, <3>1 DEF RecordRegistration, chainVars
    <3> QED
      BY <3>2, <3>3 DEF OwnInv, RecordsOwn, SentFor
  <2>2. CASE ~RecordRegistration(f)
    <3>1. UNCHANGED pendingAction /\ pendingRegistration' \in {NONE, pendingRegistration}
      BY <1>1, <2>2 DEF StartRegistration, CheckPending, RegistrationMined, RegistrationVerified,
                        RegistrationLeft, ConcludeRegistration, ClearRegistration, storageVars
    <3> QED
      BY <3>1, RecordsKept
  <2> QED
    BY <2>1, <2>2
<1>4. FlowsOwn'
  <2>0. flows[f] \in FlowType
    BY DEF SessionInv, SessionTypeOK
  <2>1. CASE \E b \in BOOLEAN : End(f, b)
    BY <2>1, PanelKeepsFlows, IdleFlowType DEF End
  <2>2. ASSUME NEW term \in Terms, StartRegistration(f, term) PROVE FlowsOwn'
    <3>1. PICK new : /\ new = [step |-> "connecting", here |-> TRUE, label |-> page.label,
                               kind |-> "register", term |-> term, hash |-> NONE]
                     /\ flows' = [flows EXCEPT ![f] = new]
      BY <2>2 DEF StartRegistration
    <3>2. new.step = "connecting"
      BY <3>1
    <3> QED
      BY <3>1, <3>2, PanelKeepsFlows
  <2>3. ASSUME NEW s \in {"preparing", "waiting", "verifying"},
               flows' = [flows EXCEPT ![f].step = s],
               s # "preparing" => flows[f].step \in {"sent", "waiting", "verifying"}
        PROVE  FlowsOwn'
    <3>1. PICK new : new = [flows[f] EXCEPT !.step = s] /\ flows' = [flows EXCEPT ![f] = new]
      BY <2>3
    <3>2. /\ new.hash = flows[f].hash /\ new.label = flows[f].label /\ new.step = s
          /\ new.kind = flows[f].kind /\ new.term = flows[f].term
      BY <2>0, <3>1 DEF FlowType
    <3> QED
      BY <2>3, <3>1, <3>2, PanelKeepsFlows
  <2>4. ASSUME CheckPending(f), NEW h, h = pendingRegistration, h # NONE,
               tx[h].label = flows[f].label, tx[h].term = flows[f].term,
               flows' = [flows EXCEPT ![f].step = "waiting", ![f].hash = h]
        PROVE  FlowsOwn'
    <3>1. h \in Hashes /\ tx[h].status # "unsent" /\ tx[h].kind = "register"
      BY <2>4 DEF SessionInv, SessionTypeOK, OwnInv, RecordsOwn
    <3>2. /\ tx'[h].status # "unsent" /\ tx'[h].kind = "register"
          /\ tx'[h].label = tx[h].label /\ tx'[h].term = tx[h].term
      BY <3>1, SentStays
    <3>3. flows[f].kind = "register"
      BY <2>4 DEF CheckPending, SessionInv, FlowsFit, FlowFits
    <3>4. /\ flows'[f] = [flows[f] EXCEPT !.step = "waiting", !.hash = h]
          /\ \A g \in Flows \ {f} : flows'[g] = flows[g]
      BY <2>4 DEF SessionInv, SessionTypeOK
    <3>5. /\ flows'[f].hash = h /\ flows'[f].label = flows[f].label
          /\ flows'[f].kind = flows[f].kind /\ flows'[f].term = flows[f].term
      BY <2>0, <3>4 DEF FlowType
    <3>6. FlowOwn(f)'
      BY <2>4, <3>1, <3>2, <3>3, <3>5 DEF FlowOwn, SentFor
    <3>7. ASSUME NEW g \in Flows \ {f} PROVE FlowOwn(g)'
      BY <3>4, <3>7, FlowKept
    <3> QED
      BY <3>6, <3>7 DEF FlowsOwn
  <2>5. CASE CheckPending(f)
    BY <2>1, <2>3, <2>4, <2>5 DEF CheckPending
  <2>6. CASE RecordRegistration(f)
    BY <2>3, <2>6 DEF RecordRegistration
  <2>7. CASE RegistrationMined(f)
    BY <2>1, <2>3, <2>7 DEF RegistrationMined
  <2>8. CASE RegistrationVerified(f) \/ RegistrationLeft(f)
    BY <2>1, <2>8 DEF RegistrationVerified, RegistrationLeft
  <2> QED
    BY <1>1, <2>2, <2>5, <2>6, <2>7, <2>8
<1> QED
  BY <1>2, <1>3, <1>4 DEF OwnInv

\* A name's record is of the name, and is taken up for it: however the flows of a tab
\* overlap and in whatever order their hashes arrive, the pending action stored under a
\* name is a transaction the wallet sent about that name, a recovery settles the name its
\* page shows, and a registration taken up again is one of the same name and term.
THEOREM RecordsAreTheirOwn == SessionSpec => [](FlowsOwn /\ RecordsOwn /\ RecoveryOwn)
<1>1. SessionInit => OwnInv
  <2>1. page.recovery = "idle" \/ ~SessionInit
    BY PageOfType DEF SessionInit, TabInit
  <2> QED
    BY <2>1, IdleFlowType DEF SessionInit, TabInit, OwnInv, FlowsOwn, FlowOwn, RecordsOwn,
                              RecoveryOwn
<1>2. SessionInv /\ OwnInv /\ [SessionNext]_sessionVars => OwnInv'
  <2>1. ASSUME SessionInv, OwnInv, SessionNext PROVE OwnInv'
    <3>1. CASE UNCHANGED tabVars
      BY <2>1, <3>1 DEF tabVars, chainVars, storageVars, OwnInv, FlowsOwn, FlowOwn, RecordsOwn,
                        RecoveryOwn, SentFor
    <3> QED
      BY <2>1, <3>1, TabKeepsOwn, ManagementKeepsOwn, RegistrationKeepsOwn DEF SessionNext
  <2>2. ASSUME OwnInv, UNCHANGED sessionVars PROVE OwnInv'
    BY <2>2 DEF sessionVars, tabVars, chainVars, storageVars, OwnInv, FlowsOwn, FlowOwn,
                RecordsOwn, RecoveryOwn, SentFor
  <2> QED
    BY <2>1, <2>2
<1>3. SessionSpec => []SessionInv
  BY SessionInitInv, SessionStep, PTL DEF SessionSpec
<1> QED
  BY <1>1, <1>2, <1>3, PTL DEF SessionSpec, OwnInv

=============================================================================
