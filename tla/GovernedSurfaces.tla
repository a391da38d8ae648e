-------------------------- MODULE GovernedSurfaces --------------------------
(***************************************************************************)
(* The two execution surfaces of a release as the release tools see them:  *)
(* the pause switch of the controller and of the marketplace at the end of *)
(* each block, and the transactions by which the one governance account    *)
(* sets them.  All tools sign with that account, so its transactions are   *)
(* mined in the order in which they were submitted, any number of them in  *)
(* a block.  Dropped and replaced transactions, reorganisations and a      *)
(* change of the owner are left out; setPaused and                         *)
(* setRegistrationsPaused cannot fail for the owner.                       *)
(***************************************************************************)
EXTENDS Naturals, Sequences

CONSTANTS
  Senders,         \* the runs of the tools that submit transactions
  Confirmations,   \* manifest.chain.confirmations
  InitialPauses,   \* the pause switches before the first run
  Faults,          \* what may go wrong: "error", "answerLost"
  MaxBlock,        \* bound: the number of blocks
  MaxTxs           \* bound: the number of governance transactions

VARIABLES
  blocks,   \* the pause switches at the end of each block
  txs,      \* the governance transactions in nonce order
  mined     \* the blocks of those that are mined, a prefix of txs

chainVars == <<blocks, txs, mined>>

Surfaces == {"controller", "marketplace"}
Pauses == [Surfaces -> BOOLEAN]
Txs == [surface : Surfaces, paused : BOOLEAN, by : Senders]

ASSUME SurfacesAssumption ==
  /\ Confirmations \in Nat \ {0}
  /\ MaxBlock \in Nat
  /\ MaxTxs \in Nat
  /\ InitialPauses \subseteq Pauses
  /\ Faults \subseteq {"error", "answerLost"}

BothOpen == [s \in Surfaces |-> FALSE]

Top == Len(blocks)

ChainInit ==
  /\ blocks \in {<<p>> : p \in InitialPauses}
  /\ txs = <<>>
  /\ mined = <<>>

\* writeContract: the node takes the transaction.
Submit(surface, paused, who) ==
  /\ Len(txs) < MaxTxs
  /\ txs' = Append(txs, [surface |-> surface, paused |-> paused, by |-> who])
  /\ UNCHANGED <<blocks, mined>>

\* waitForTransactionReceipt answers.
Confirmed(tx) == tx \in 1 .. Len(mined) /\ Top + 1 >= mined[tx] + Confirmations

\* The switch of a surface after the transactions in new: the last one decides.
SwitchAfter(surface, new) ==
  LET own == {i \in new : txs[i].surface = surface}
  IN IF own = {} THEN blocks[Top][surface]
     ELSE \E i \in own : txs[i].paused /\ \A j \in own : j <= i

MineBlock ==
  /\ Top < MaxBlock
  /\ \E n \in Len(mined) .. Len(txs) :
       /\ mined' = [i \in 1 .. n |-> IF i <= Len(mined) THEN mined[i] ELSE Top + 1]
       /\ blocks' = Append(blocks, [s \in Surfaces |-> SwitchAfter(s, (Len(mined) + 1) .. n)])
  /\ UNCHANGED txs

ChainTypeOK ==
  /\ blocks \in Seq(Pauses)
  /\ Top >= 1
  /\ txs \in Seq(Txs)
  /\ mined \in Seq(Nat)
  /\ Len(mined) <= Len(txs)
  /\ \A i \in 1 .. Len(mined) : mined[i] \in 2 .. Top

=============================================================================
