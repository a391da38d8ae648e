-------------------------- MODULE PullPaymentVault --------------------------
(***************************************************************************)
(* What ArcRegistrarController owes its referrers and ArcNameMarketplace   *)
(* its sellers: the contract holds a pool of the settlement asset, owes    *)
(* each account an amount, and keeps the total of its debts.  A debt grows *)
(* only with money that came in for it, only its creditor can make it      *)
(* smaller, and then it is paid in full; the total follows every change of *)
(* a debt, and what the operator takes out leaves the total covered.       *)
(***************************************************************************)
EXTENDS Integers, FiniteSets

CONSTANT Accounts

VARIABLES
  pool,   \* what the contract holds
  owed,   \* what it owes each account
  total   \* what it owes all of them

vaultVars == <<pool, owed, total>>

VaultInit == pool \in Nat /\ owed = [a \in Accounts |-> 0] /\ total = 0

\* Money arrives, and at most that much of it is credited to one account.
Receive ==
  /\ pool' > pool
  /\ \E a \in Accounts, credit \in 0 .. pool' - pool :
        /\ owed' = [owed EXCEPT ![a] = @ + credit]
        /\ total' = total + credit

\* An account takes all it is owed.
Claim(a) ==
  /\ owed[a] > 0
  /\ pool' = pool - owed[a]
  /\ owed' = [owed EXCEPT ![a] = 0]
  /\ total' = total - owed[a]

\* The operator takes what is owed to nobody.
Withdraw ==
  /\ pool' < pool
  /\ pool' >= total
  /\ UNCHANGED <<owed, total>>

VaultNext == Receive \/ Withdraw \/ \E a \in Accounts : Claim(a)

VaultSpec == VaultInit /\ [][VaultNext]_vaultVars

\* One element for each unit owed to somebody.
Debts == UNION {{a} \X (1 .. owed[a]) : a \in Accounts}

\* The total is the sum of the debts, and the pool covers it: every creditor can be paid.
Solvent == total = Cardinality(Debts) /\ pool >= total

=============================================================================
