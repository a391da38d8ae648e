----------------------------- MODULE BrowserTab -----------------------------
(***************************************************************************)
(* A browser tab of the web application (apps/web/src) with one wallet:    *)
(* the page of a name it shows, the asynchronous flows its panels have     *)
(* started, the session storage that outlives a reload, and the            *)
(* transactions of the wallet on the chain.  A flow is not stopped when    *)
(* its panel leaves the screen by client-side navigation, and is gone      *)
(* after a reload.                                                         *)
(***************************************************************************)
EXTENDS Naturals, FiniteSets

CONSTANTS
  Labels,     \* names
  Terms,      \* registration terms a user may choose
  MaxTransactions,  \* bounds the transactions of the wallet
  Flows,      \* flows that can run at a time
  NONE

Hashes == 1 .. MaxTransactions

ASSUME TabAssumption ==
  /\ MaxTransactions \in Nat
  /\ NONE \notin Labels \cup Terms \cup Hashes

VARIABLES
  tx,                   \* the wallet's transactions
  registered,           \* the names that are registered
  page,                 \* the page on the screen
  flows,                \* the asynchronous functions of its panels, past and present
  pendingAction,        \* session storage: per name, the action that is pending
  pendingRegistration   \* session storage: the registration that is pending

chainVars == <<tx, registered>>
storageVars == <<pendingAction, pendingRegistration>>
tabVars == <<chainVars, page, flows, storageVars>>

\* renew, primary and transfer are complete with their receipt; the actions on
\* the market are verified by the server as well.
ActionKinds == {"plain", "market"}
Kinds == ActionKinds \cup {"register"}

\* "held": mined, and its effect stands at the end of its block; "overtaken":
\* mined, and undone by a later transaction of its block.
Outcomes == {"held", "overtaken", "reverted"}
Succeeded(h) == tx[h].status \in {"held", "overtaken"}
Reverted(h) == tx[h].status = "reverted"

TxType ==
  [status : {"unsent", "pending"} \cup Outcomes, label : Labels \cup {NONE},
   kind : Kinds \cup {NONE}, term : Terms \cup {NONE}]

FlowType ==
  [step : {"idle", "connecting", "preparing", "sent", "waiting", "verifying"},
   here : BOOLEAN,      \* its panel is on the screen
   label : Labels \cup {NONE}, kind : Kinds \cup {NONE},
   term : Terms \cup {NONE}, hash : Hashes \cup {NONE}]

PageType ==
  [label : Labels, view : {"register", "manage"},
   busy : BOOLEAN,                \* its buttons are disabled
   seen : Hashes \cup {NONE},     \* recoveryHashRef
   recovery : {"idle", "waiting", "verifying"}]

IdleFlow ==
  [step |-> "idle", here |-> FALSE, label |-> NONE, kind |-> NONE, term |-> NONE, hash |-> NONE]

\* The page of a name offers its registration or its management.
PageOf(l) ==
  [label |-> l, view |-> IF l \in registered THEN "manage" ELSE "register",
   busy |-> FALSE, seen |-> NONE, recovery |-> "idle"]

TabInit ==
  /\ tx = [h \in Hashes |-> [status |-> "unsent", label |-> NONE, kind |-> NONE, term |-> NONE]]
  /\ registered \in SUBSET Labels
  /\ \E l \in Labels : page = PageOf(l)
  /\ flows = [f \in Flows |-> IdleFlow]
  /\ pendingAction = [l \in Labels |-> NONE]
  /\ pendingRegistration = NONE

-----------------------------------------------------------------------------
(* The chain. *)

\* The transactions of an account are mined in the order of their nonces.  A
\* name is registered once.
Mine(h, outcome) ==
  /\ tx[h].status = "pending"
  /\ \A g \in 1 .. h - 1 : tx[g].status # "pending"
  /\ tx[h].kind = "register" /\ outcome # "reverted" => tx[h].label \notin registered
  /\ tx' = [tx EXCEPT ![h].status = outcome]
  /\ registered' = IF tx[h].kind = "register" /\ outcome # "reverted"
                   THEN registered \cup {tx[h].label} ELSE registered
  /\ UNCHANGED <<page, flows, storageVars>>

StrangerRegisters(l) ==
  /\ l \notin registered
  /\ registered' = registered \cup {l}
  /\ UNCHANGED <<tx, page, flows, storageVars>>

-----------------------------------------------------------------------------
(* The tab. *)

\* Client-side navigation: the panels of the old page are unmounted, their
\* flows go on, its recovery is cancelled.
Visit(l) ==
  /\ page' = PageOf(l)
  /\ flows' = [f \in Flows |-> [flows[f] EXCEPT !.here = FALSE]]
  /\ UNCHANGED <<chainVars, storageVars>>

\* A reload, or an address typed in: nothing but the storage is left.
Load(l) ==
  /\ page' = PageOf(l)
  /\ flows' = [f \in Flows |-> IdleFlow]
  /\ UNCHANGED <<chainVars, storageVars>>

\* The wallet sends the transaction a flow has prepared.  The page has its hash
\* only when the wallet answers.
Send(f, h) ==
  /\ flows[f].step = "preparing"
  /\ tx[h].status = "unsent"
  /\ \A g \in 1 .. h - 1 : tx[g].status # "unsent"
  /\ tx' = [tx EXCEPT ![h] = [status |-> "pending", label |-> flows[f].label,
                              kind |-> flows[f].kind, term |-> flows[f].term]]
  /\ flows' = [flows EXCEPT ![f].step = "sent", ![f].hash = h]
  /\ UNCHANGED <<registered, page, storageVars>>

\* A check fails, the user declines, an approval reverts, or the wallet's answer is lost.
Stop(f) ==
  /\ flows[f].step \in {"connecting", "preparing", "sent"}
  /\ flows' = [flows EXCEPT ![f] = IdleFlow]
  /\ page' = IF flows[f].here THEN [page EXCEPT !.busy = FALSE] ELSE page
  /\ UNCHANGED <<chainVars, storageVars>>

\* A flow ends, and its panel, if it is still there, becomes busy or not.
End(f, busy) ==
  /\ flows' = [flows EXCEPT ![f] = IdleFlow]
  /\ page' = IF flows[f].here THEN [page EXCEPT !.busy = busy] ELSE page

TabNext ==
  \/ \E h \in Hashes, outcome \in Outcomes : Mine(h, outcome)
  \/ \E l \in Labels : StrangerRegisters(l) \/ Visit(l) \/ Load(l)
  \/ \E f \in Flows : Stop(f) \/ \E h \in Hashes : Send(f, h)

=============================================================================
