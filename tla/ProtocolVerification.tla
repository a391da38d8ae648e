------------------------ MODULE ProtocolVerification ------------------------
(***************************************************************************)
(* The server's verification of market actions                             *)
(* (apps/web/src/lib/protocol-transaction-verification.ts): answers are    *)
(* cached by transaction, a caller joins the verification that runs, and   *)
(* only so many may run at a time.  Failures are not cached.               *)
(***************************************************************************)
EXTENDS BrowserTab

CONSTANT MAX_CONCURRENT

ASSUME ConcurrencyAssumption == MAX_CONCURRENT \in Nat \ {0}

VARIABLES
  verdict,   \* the cache: the verification of a transaction
  active     \* activeVerifications

serverVars == <<verdict, active>>

ServerInit ==
  /\ verdict = [h \in Hashes |-> "none"]
  /\ active = 0

\* A tab waits for the verification of a transaction.
Asked(h) ==
  \/ \E f \in Flows : flows[f].step = "verifying" /\ flows[f].hash = h
                      /\ flows[f].kind = "market"
  \/ page.recovery = "verifying" /\ page.seen = h

\* A bug: nothing limits the verifications.
StartVerification_NoLimit(h) ==
  /\ Asked(h)
  /\ verdict[h] = "none"
  /\ verdict' = [verdict EXCEPT ![h] = "running"]
  /\ active' = active + 1

StartVerification(h) ==
  /\ Asked(h)
  /\ verdict[h] = "none"
  /\ active < MAX_CONCURRENT
  /\ verdict' = [verdict EXCEPT ![h] = "running"]
  /\ active' = active + 1

\* The receipt is a success, from the sender and to the contract of the action.
ReceiptConfirms(h) == Succeeded(h)

\* Its calldata and events, and the state at the end of its block, are those of the
\* action; they are not when a later transaction of the block has undone it.
Confirms(h) == ReceiptConfirms(h) /\ tx[h].status # "overtaken"

VerificationSucceeds(h) ==
  /\ verdict[h] = "running"
  /\ Confirms(h)
  /\ verdict' = [verdict EXCEPT ![h] = "verified"]
  /\ active' = active - 1

\* A bug: a verification that fails keeps its place.
VerificationFails_KeepsPlace(h) ==
  /\ verdict[h] = "running"
  /\ verdict' = [verdict EXCEPT ![h] = "none"]
  /\ UNCHANGED active

\* Confirmations are missing, a check fails, or a read does.
VerificationFails(h) ==
  /\ verdict[h] = "running"
  /\ verdict' = [verdict EXCEPT ![h] = "none"]
  /\ active' = active - 1

\* After five minutes, or for a newer entry when the cache is full.
Evict(h) ==
  /\ verdict[h] = "verified"
  /\ verdict' = [verdict EXCEPT ![h] = "none"]
  /\ UNCHANGED active

ServerNext ==
  \E h \in Hashes :
     \/ StartVerification(h) \/ VerificationSucceeds(h) \/ VerificationFails(h)
     \/ Evict(h)

=============================================================================
