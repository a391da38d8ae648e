----------------------- MODULE ReleaseOperations_proofs -----------------------
(***************************************************************************)
(* Theorems about the release tools, for any number of runs of the         *)
(* operator's tool, of blocks and of transactions.  All of them rest on    *)
(* one property of the chain: transactions of one account are mined in the *)
(* order in which they were submitted.                                     *)
(***************************************************************************)
EXTENDS ReleaseOperations, SequenceTheorems, WellFoundedInduction, TLAPS

\* The chain only grows; transactions that are mined now are in a new block.
Grows ==
  /\ ChainTypeOK'
  /\ Len(blocks) <= Len(blocks')
  /\ \A b \in 1 .. Len(blocks) : blocks'[b] = blocks[b]
  /\ Len(txs) <= Len(txs')
  /\ \A i \in 1 .. Len(txs) : txs'[i] = txs[i]
  /\ Len(mined) <= Len(mined')
  /\ \A i \in 1 .. Len(mined) : mined'[i] = mined[i]
  /\ \A i \in 1 .. Len(mined') : i > Len(mined) => mined'[i] > Len(blocks)
  /\ \A i, j \in 1 .. Len(mined') : i <= j => mined'[i] <= mined'[j]

MinedInOrder == \A i, j \in 1 .. Len(mined) : i <= j => mined[i] <= mined[j]

\* No transaction of who is submitted in this step.
Silent(who) == \A i \in 1 .. Len(txs') : txs'[i].by = who => i <= Len(txs)

\* A smoke that passed did so at two blocks with the marketplace closed.
SmokeFits ==
  /\ smoke.step \in {"registered", "passed"} =>
       smoke.registeredAt \in 1 .. Len(blocks) /\ blocks[smoke.registeredAt]["marketplace"]
  /\ smoke.step = "passed" =>
       /\ smoke.evidence \in 1 .. Len(blocks)
       /\ blocks[smoke.evidence]["marketplace"]
       /\ smoke.evidence + 1 >= smoke.registeredAt + Confirmations

\* Every open that r submitted is mined, and a pause behind it.
Settled(r, at) ==
  \A i \in 1 .. Len(txs), s \in Surfaces : Opens(i, s, r) =>
    /\ Over(i, at)
    /\ \E j \in (i + 1) .. Len(txs) :
         txs[j] = [surface |-> s, paused |-> TRUE, by |-> r] /\ Over(j, at)

\* What a run of the operator's tool in state t knows of the transactions of r.
RunFits(r, t) ==
  /\ t.step = "idle" => \A i \in 1 .. Len(txs) : txs[i].by # r
  /\ t.report = "rolledBack" => t.step = "done" /\ Settled(r, t.at)
  /\ t.step \notin {"idle", "done"} =>
       \A i \in 1 .. Len(txs), s \in Surfaces : Opens(i, s, r) => s = t.target
  /\ t.step \in {"perform", "wait"} =>
       \A j \in 1 .. Len(t.todo) : ~t.todo[j].paused => t.todo[j].surface = t.target
  /\ t.step = "wait" => t.todo # <<>>
  /\ t.step \in {"rollback", "rollbackWait"} => t.target \in Surfaces
  /\ t.step = "rollbackWait" =>
       /\ t.tx \in 1 .. Len(txs)
       /\ txs[t.tx] = [surface |-> t.target, paused |-> TRUE, by |-> r]
       /\ \A i \in 1 .. Len(txs), s \in Surfaces : Opens(i, s, r) => i < t.tx
  /\ (t.target = "marketplace" /\ t.step \notin {"idle", "done"}) => smoke.step = "passed"

\* The first n receipts of the drill are those of transactions of its plan.
Backed ==
  \E tx \in [1 .. Len(drill.receipts) -> 1 .. Len(mined)] :
    \A k \in 1 .. Len(drill.receipts) :
      /\ txs[tx[k]].by = DrillRun
      /\ [surface |-> txs[tx[k]].surface, paused |-> txs[tx[k]].paused] = TRANSACTION_PLAN[k]
      /\ drill.receipts[k] = mined[tx[k]]
      /\ blocks[mined[tx[k]]] = After(k)
      /\ k > 1 => tx[k - 1] < tx[k] /\ mined[tx[k - 1]] < mined[tx[k]]

DrillFits ==
  /\ drill.step = "idle" => drill.receipts = <<>> /\ drill.k = 1
  /\ drill.step \in {"check", "send", "wait"} =>
       /\ Len(drill.receipts) <= 4
       /\ Len(drill.receipts) < 4 => drill.k = Len(drill.receipts) + 1
  /\ drill.step \in {"send", "wait"} =>
       /\ Len(drill.receipts) < 4
       /\ drill.guard \in 1 .. Len(blocks)
       /\ \A i \in 1 .. Len(drill.receipts) : drill.receipts[i] <= drill.guard
  /\ drill.step = "wait" =>
       /\ drill.tx \in 1 .. Len(txs)
       /\ txs[drill.tx].by = DrillRun
       /\ [surface |-> txs[drill.tx].surface, paused |-> txs[drill.tx].paused] =
            TRANSACTION_PLAN[drill.k]
       /\ drill.tx <= Len(mined) => mined[drill.tx] > drill.guard
  /\ drill.step \in {"check", "send", "wait", "passed"} => Backed
  /\ drill.step = "passed" =>
       /\ Len(drill.receipts) = 4
       /\ \A i \in 1 .. 4 : drill.receipts[i] > drill.target
  /\ drill.step \in {"idle", "check", "send", "wait", "passed"} =>
       \A s \in Surfaces : drill.outcome[s] = "none"
  /\ drill.step = "repauseWait" =>
       /\ drill.tx \in 1 .. Len(txs)
       /\ \A i \in 1 .. Len(txs), s \in Surfaces : Opens(i, s, DrillRun) => i < drill.tx
  /\ \A s \in Surfaces : drill.outcome[s] = "repaused" =>
       \A i \in 1 .. Len(txs) : Opens(i, s, DrillRun) => Over(i, Top)

OperationsInv ==
  /\ OperationsTypeOK
  /\ MinedInOrder
  /\ SmokeFits
  /\ \A r \in AdminRuns : RunFits(r, run[r])
  /\ DrillFits
  /\ MarketAfterSmoke

USE SurfacesAssumption, AdminAssumption, DrillAssumption, OperationsAssumption

-----------------------------------------------------------------------------
(* The chain *)

LEMMA MineGrows ==
  ASSUME ChainTypeOK, MinedInOrder, MineBlock
  PROVE  Grows
<1>1. PICK n \in Len(mined) .. Len(txs) :
        /\ mined' = [i \in 1 .. n |-> IF i <= Len(mined) THEN mined[i] ELSE Top + 1]
        /\ blocks' = Append(blocks, [s \in Surfaces |-> SwitchAfter(s, (Len(mined) + 1) .. n)])
  BY DEF MineBlock
<1>2. n \in Nat /\ Len(mined) <= n /\ n <= Len(txs) /\ Len(blocks) \in Nat
  BY DEF ChainTypeOK
<1>3. mined' \in Seq(Nat) /\ Len(mined') = n
      /\ \A i \in 1 .. n : mined'[i] = IF i <= Len(mined) THEN mined[i] ELSE Len(blocks) + 1
  BY <1>1, <1>2 DEF ChainTypeOK, Top
<1>4. [s \in Surfaces |-> SwitchAfter(s, (Len(mined) + 1) .. n)] \in Pauses
  <2> SUFFICES ASSUME NEW s \in Surfaces
               PROVE  SwitchAfter(s, (Len(mined) + 1) .. n) \in BOOLEAN
    BY DEF Pauses
  <2>1. blocks[Top][s] \in BOOLEAN
    BY <1>2 DEF ChainTypeOK, Top, Pauses
  <2> QED
    BY <2>1 DEF SwitchAfter
<1>5. blocks' \in Seq(Pauses) /\ Len(blocks') = Len(blocks) + 1
      /\ \A b \in 1 .. Len(blocks) : blocks'[b] = blocks[b]
  BY <1>1, <1>4 DEF ChainTypeOK
<1>6. txs' = txs
  BY DEF MineBlock
<1>7. \A i \in 1 .. Len(mined) : mined[i] \in 2 .. Len(blocks)
  BY DEF ChainTypeOK, Top
<1>8. \A i \in 1 .. n : mined'[i] \in 2 .. Len(blocks) + 1
  <2>1. Len(blocks) >= 1
    BY DEF ChainTypeOK, Top
  <2> QED
    BY <1>2, <1>3, <1>7, <2>1
<1>9. ChainTypeOK'
  BY <1>2, <1>3, <1>5, <1>6, <1>8 DEF ChainTypeOK, Top
<1>10. \A i, j \in 1 .. Len(mined') : i <= j => mined'[i] <= mined'[j]
  <2> SUFFICES ASSUME NEW i \in 1 .. n, NEW j \in 1 .. n, i <= j PROVE mined'[i] <= mined'[j]
    BY <1>3
  <2>1. CASE j <= Len(mined)
    <3>1. i \in 1 .. Len(mined) /\ j \in 1 .. Len(mined)
      BY <2>1, <1>2
    <3>2. mined'[i] = mined[i] /\ mined'[j] = mined[j]
      BY <3>1, <1>2, <1>3
    <3> QED
      BY <3>1, <3>2 DEF MinedInOrder
  <2>2. CASE j > Len(mined)
    <3>1. mined'[j] = Len(blocks) + 1
      BY <2>2, <1>2, <1>3
    <3> QED
      BY <3>1, <1>2, <1>8
  <2> QED
    BY <2>1, <2>2, <1>2
<1> QED
  BY <1>2, <1>3, <1>5, <1>6, <1>9, <1>10 DEF Grows

LEMMA SubmitGrows ==
  ASSUME ChainTypeOK, MinedInOrder, NEW s \in Surfaces, NEW p \in BOOLEAN, NEW who \in Senders,
         Submit(s, p, who)
  PROVE  /\ Grows
         /\ mined' = mined /\ blocks' = blocks
         /\ Len(txs') = Len(txs) + 1
         /\ txs'[Len(txs) + 1] = [surface |-> s, paused |-> p, by |-> who]
         /\ \A w \in Senders \ {who} : Silent(w)
<1>1. [surface |-> s, paused |-> p, by |-> who] \in Txs
  BY DEF Txs
<1>2. /\ txs' \in Seq(Txs)
      /\ Len(txs') = Len(txs) + 1
      /\ \A i \in 1 .. Len(txs) : txs'[i] = txs[i]
      /\ txs'[Len(txs) + 1] = [surface |-> s, paused |-> p, by |-> who]
  BY <1>1 DEF Submit, ChainTypeOK
<1>3. blocks' = blocks /\ mined' = mined
  BY DEF Submit
<1>4. Len(txs) \in Nat /\ Len(mined) \in Nat /\ Len(blocks) \in Nat
  BY DEF ChainTypeOK
<1>5. ChainTypeOK'
  BY <1>2, <1>3, <1>4 DEF ChainTypeOK, Top
<1>6. Grows
  BY <1>2, <1>3, <1>4, <1>5 DEF Grows, MinedInOrder
<1>7. \A w \in Senders \ {who} : Silent(w)
  BY <1>2, <1>4 DEF Silent
<1> QED
  BY <1>2, <1>3, <1>6, <1>7

LEMMA StillGrows ==
  ASSUME ChainTypeOK, MinedInOrder, UNCHANGED chainVars
  PROVE  Grows /\ \A w : Silent(w)
<1>1. ChainTypeOK'
  BY DEF ChainTypeOK, chainVars, Top
<1>2. Len(txs) \in Nat /\ Len(mined) \in Nat /\ Len(blocks) \in Nat
  BY DEF ChainTypeOK
<1> QED
  BY <1>1, <1>2 DEF Grows, Silent, chainVars, MinedInOrder

-----------------------------------------------------------------------------
(* What survives the steps of others *)

LEMMA SmokeStays ==
  ASSUME Grows, SmokeFits, UNCHANGED smoke, smoke \in Smokes, ChainTypeOK
  PROVE  SmokeFits'
<1>1. Len(blocks) \in Nat /\ Len(blocks') \in Nat
  BY DEF ChainTypeOK, Grows
<1> QED
  BY <1>1 DEF SmokeFits, Grows, Smokes

\* Opens and what is over of an account that is silent.
LEMMA OpensStay ==
  ASSUME Grows, ChainTypeOK, NEW who, Silent(who),
         NEW i \in 1 .. Len(txs'), NEW s \in Surfaces, Opens(i, s, who)'
  PROVE  i \in 1 .. Len(txs) /\ Opens(i, s, who)
<1>1. Len(txs) \in Nat /\ Len(txs') \in Nat
  BY DEF ChainTypeOK, Grows
<1>2. txs'[i].by = who
  BY DEF Opens
<1>3. i <= Len(txs)
  BY <1>2 DEF Silent
<1> QED
  BY <1>1, <1>3 DEF Opens, Grows

LEMMA OverStays ==
  ASSUME Grows, ChainTypeOK, NEW i \in 1 .. Len(txs), NEW at, Over(i, at)
  PROVE  Over(i, at)'
<1>1. i \in 1 .. Len(mined)
  BY DEF Over, ChainTypeOK
<1> QED
  BY <1>1 DEF Over, Grows, ChainTypeOK

LEMMA SettledStays ==
  ASSUME Grows, ChainTypeOK, NEW r, NEW at, Silent(r), Settled(r, at)
  PROVE  Settled(r, at)'
<1> SUFFICES ASSUME NEW i \in 1 .. Len(txs'), NEW s \in Surfaces, Opens(i, s, r)'
             PROVE  /\ Over(i, at)'
                    /\ \E j \in (i + 1) .. Len(txs') :
                         txs'[j] = [surface |-> s, paused |-> TRUE, by |-> r] /\ Over(j, at)'
  BY DEF Settled
<1>1. i \in 1 .. Len(txs) /\ Opens(i, s, r)
  BY OpensStay
<1>2. PICK j \in (i + 1) .. Len(txs) :
        txs[j] = [surface |-> s, paused |-> TRUE, by |-> r] /\ Over(j, at)
  BY <1>1 DEF Settled
<1>3. Over(i, at)
  BY <1>1 DEF Settled
<1>4. Over(i, at)'
  BY <1>1, <1>3, OverStays
<1>5. Len(txs) \in Nat /\ Len(txs') \in Nat /\ j \in 1 .. Len(txs)
  BY <1>1, <1>2 DEF ChainTypeOK, Grows
<1>6. Over(j, at)'
  BY <1>2, <1>5, OverStays
<1>7. j \in (i + 1) .. Len(txs') /\ txs'[j] = [surface |-> s, paused |-> TRUE, by |-> r]
  BY <1>1, <1>2, <1>5 DEF Grows
<1> QED
  BY <1>4, <1>6, <1>7

\* A run in state t of which nothing new is submitted.
LEMMA RunStays ==
  ASSUME Grows, ChainTypeOK, NEW r, NEW t \in Runs, Silent(r), RunFits(r, t),
         smoke.step = "passed" => smoke'.step = "passed"
  PROVE  RunFits(r, t)'
<1>1. Len(txs) \in Nat /\ Len(txs') \in Nat
  BY DEF ChainTypeOK, Grows
<1>2. t.step = "idle" => \A i \in 1 .. Len(txs') : txs'[i].by # r
  <2> SUFFICES ASSUME t.step = "idle", NEW i \in 1 .. Len(txs') PROVE txs'[i].by # r
    OBVIOUS
  <2>1. i <= Len(txs) => txs[i].by # r /\ txs'[i] = txs[i]
    BY <1>1 DEF RunFits, Grows
  <2> QED
    BY <2>1 DEF Silent
<1>3. t.report = "rolledBack" => t.step = "done" /\ Settled(r, t.at)'
  BY SettledStays DEF RunFits
<1>4. \A i \in 1 .. Len(txs'), s \in Surfaces :
        Opens(i, s, r)' => i \in 1 .. Len(txs) /\ Opens(i, s, r)
  BY OpensStay
<1>5. t.step \notin {"idle", "done"} =>
        \A i \in 1 .. Len(txs'), s \in Surfaces : Opens(i, s, r)' => s = t.target
  BY <1>4 DEF RunFits
<1>6. t.step = "rollbackWait" =>
        /\ t.tx \in 1 .. Len(txs')
        /\ txs'[t.tx] = [surface |-> t.target, paused |-> TRUE, by |-> r]
        /\ \A i \in 1 .. Len(txs'), s \in Surfaces : Opens(i, s, r)' => i < t.tx
  BY <1>1, <1>4 DEF RunFits, Grows
<1> QED
  BY <1>2, <1>3, <1>5, <1>6 DEF RunFits

\* What the drill knows of its receipts stays true when the chain grows.
LEMMA BackedStays ==
  ASSUME Grows, ChainTypeOK, drill \in Drills, Backed, drill'.receipts = drill.receipts
  PROVE  Backed'
<1>1. /\ Len(txs) \in Nat /\ Len(txs') \in Nat /\ Len(mined) \in Nat /\ Len(mined') \in Nat
      /\ Len(blocks) \in Nat /\ Len(blocks') \in Nat /\ Len(mined) <= Len(txs)
      /\ \A i \in 1 .. Len(mined) : mined[i] \in 1 .. Len(blocks)
  <2>1. \A i \in 1 .. Len(mined) : mined[i] \in 2 .. Len(blocks)
    BY DEF ChainTypeOK, Top
  <2>2. \A i \in 1 .. Len(mined) : mined[i] \in 1 .. Len(blocks)
    BY <2>1
  <2> QED
    BY <2>2 DEF ChainTypeOK, Grows
<1>2. PICK tx \in [1 .. Len(drill.receipts) -> 1 .. Len(mined)] :
        \A k \in 1 .. Len(drill.receipts) :
          /\ txs[tx[k]].by = DrillRun
          /\ [surface |-> txs[tx[k]].surface, paused |-> txs[tx[k]].paused] =
               TRANSACTION_PLAN[k]
          /\ drill.receipts[k] = mined[tx[k]]
          /\ blocks[mined[tx[k]]] = After(k)
          /\ k > 1 => tx[k - 1] < tx[k] /\ mined[tx[k - 1]] < mined[tx[k]]
  BY DEF Backed
<1>3. tx \in [1 .. Len(drill'.receipts) -> 1 .. Len(mined')]
  BY <1>1 DEF Grows
<1>4. \A k \in 1 .. Len(drill.receipts) :
        /\ tx[k] \in 1 .. Len(mined)
        /\ tx[k] \in 1 .. Len(txs)
        /\ mined[tx[k]] \in 1 .. Len(blocks)
        /\ mined'[tx[k]] = mined[tx[k]]
        /\ txs'[tx[k]] = txs[tx[k]]
        /\ blocks'[mined[tx[k]]] = blocks[mined[tx[k]]]
  <2> SUFFICES ASSUME NEW k \in 1 .. Len(drill.receipts)
               PROVE  /\ tx[k] \in 1 .. Len(mined)
                      /\ tx[k] \in 1 .. Len(txs)
                      /\ mined[tx[k]] \in 1 .. Len(blocks)
                      /\ mined'[tx[k]] = mined[tx[k]]
                      /\ txs'[tx[k]] = txs[tx[k]]
                      /\ blocks'[mined[tx[k]]] = blocks[mined[tx[k]]]
    OBVIOUS
  <2>1. tx[k] \in 1 .. Len(mined)
    OBVIOUS
  <2> QED
    BY <2>1, <1>1 DEF Grows
<1>5. Len(drill.receipts) \in Nat
  BY DEF Drills
<1>6. \A k \in 1 .. Len(drill.receipts) :
        /\ txs'[tx[k]].by = DrillRun
        /\ [surface |-> txs'[tx[k]].surface, paused |-> txs'[tx[k]].paused] =
             TRANSACTION_PLAN[k]
        /\ drill'.receipts[k] = mined'[tx[k]]
        /\ blocks'[mined'[tx[k]]] = After(k)
  BY <1>2, <1>4
<1>7. \A k \in 1 .. Len(drill.receipts) :
        k > 1 => tx[k - 1] < tx[k] /\ mined'[tx[k - 1]] < mined'[tx[k]]
  <2> SUFFICES ASSUME NEW k \in 1 .. Len(drill.receipts), k > 1
               PROVE  tx[k - 1] < tx[k] /\ mined'[tx[k - 1]] < mined'[tx[k]]
    OBVIOUS
  <2>1. k - 1 \in 1 .. Len(drill.receipts)
    BY <1>5
  <2> QED
    BY <2>1, <1>2, <1>4
<1>8. \A k \in 1 .. Len(drill'.receipts) :
        /\ txs'[tx[k]].by = DrillRun
        /\ [surface |-> txs'[tx[k]].surface, paused |-> txs'[tx[k]].paused] =
             TRANSACTION_PLAN[k]
        /\ drill'.receipts[k] = mined'[tx[k]]
        /\ blocks'[mined'[tx[k]]] = After(k)
        /\ k > 1 => tx[k - 1] < tx[k] /\ mined'[tx[k - 1]] < mined'[tx[k]]
  BY <1>6, <1>7
<1> QED
  BY <1>3, <1>8 DEF Backed, After, PausedOnly, BothOpen, TRANSACTION_PLAN, Surfaces

\* The drill when nothing new of it is submitted.
LEMMA DrillStays ==
  ASSUME Grows, ChainTypeOK, drill \in Drills, Silent(DrillRun), DrillFits, UNCHANGED drill
  PROVE  DrillFits'
<1>1. /\ Len(txs) \in Nat /\ Len(txs') \in Nat /\ Len(mined) \in Nat /\ Len(mined') \in Nat
      /\ Len(blocks) \in Nat /\ Len(blocks') \in Nat /\ Len(mined) <= Len(txs)
      /\ \A i \in 1 .. Len(mined) : mined[i] \in 1 .. Len(blocks)
  <2>1. \A i \in 1 .. Len(mined) : mined[i] \in 2 .. Len(blocks)
    BY DEF ChainTypeOK, Top
  <2>2. \A i \in 1 .. Len(mined) : mined[i] \in 1 .. Len(blocks)
    BY <2>1
  <2> QED
    BY <2>2 DEF ChainTypeOK, Grows
<1>2. \A i \in 1 .. Len(txs'), s \in Surfaces :
        Opens(i, s, DrillRun)' => i \in 1 .. Len(txs) /\ Opens(i, s, DrillRun)
  BY OpensStay
<1>3. Backed => Backed'
  BY BackedStays
<1>4. drill.step = "wait" =>
        /\ drill.tx \in 1 .. Len(txs')
        /\ txs'[drill.tx] = txs[drill.tx]
        /\ drill.tx <= Len(mined') => mined'[drill.tx] > drill.guard
  <2> SUFFICES ASSUME drill.step = "wait"
               PROVE  /\ drill.tx \in 1 .. Len(txs')
                      /\ txs'[drill.tx] = txs[drill.tx]
                      /\ drill.tx <= Len(mined') => mined'[drill.tx] > drill.guard
    OBVIOUS
  <2>1. drill.tx \in 1 .. Len(txs) /\ drill.guard \in 1 .. Len(blocks)
        /\ (drill.tx <= Len(mined) => mined[drill.tx] > drill.guard)
    BY DEF DrillFits
  <2>2. CASE drill.tx <= Len(mined)
    BY <1>1, <2>1, <2>2 DEF Grows
  <2>3. CASE drill.tx > Len(mined)
    <3>1. drill.tx <= Len(mined') => mined'[drill.tx] > Len(blocks)
      BY <1>1, <2>1, <2>3 DEF Grows
    <3>2. drill.tx <= Len(mined') => mined'[drill.tx] \in Nat
      BY <1>1, <2>1 DEF Grows, ChainTypeOK
    <3> QED
      BY <3>1, <3>2, <1>1, <2>1 DEF Grows
  <2> QED
    BY <2>2, <2>3, <1>1, <2>1
<1>5. \A s \in Surfaces : drill.outcome[s] = "repaused" =>
        \A i \in 1 .. Len(txs') : Opens(i, s, DrillRun)' => Over(i, Top)'
  <2> SUFFICES ASSUME NEW s \in Surfaces, drill.outcome[s] = "repaused",
                      NEW i \in 1 .. Len(txs'), Opens(i, s, DrillRun)'
               PROVE  Over(i, Top)'
    OBVIOUS
  <2>1. i \in 1 .. Len(txs) /\ Over(i, Top)
    BY <1>2 DEF DrillFits
  <2>2. i \in 1 .. Len(mined) /\ mined'[i] = mined[i] /\ mined[i] \in 1 .. Len(blocks)
    BY <1>1, <2>1 DEF Over, Grows
  <2> QED
    BY <1>1, <2>2 DEF Over, Grows, Top
<1>6. drill.step \in {"send", "wait"} => drill.guard \in 1 .. Len(blocks')
  BY <1>1 DEF DrillFits, Grows
<1>7. drill.step = "repauseWait" =>
        /\ drill.tx \in 1 .. Len(txs')
        /\ \A i \in 1 .. Len(txs'), s \in Surfaces : Opens(i, s, DrillRun)' => i < drill.tx
  BY <1>1, <1>2 DEF DrillFits, Grows
<1> QED
  BY <1>3, <1>4, <1>5, <1>6, <1>7 DEF DrillFits

\* The market when nothing opens it in this step but behind a smoke that passed.
LEMMA MarketStays ==
  ASSUME Grows, ChainTypeOK, SmokeFits, MarketAfterSmoke, smoke \in Smokes,
         smoke.step = "passed" => UNCHANGED smoke,
         \A i \in 1 .. Len(txs'), r \in AdminRuns :
           (i > Len(txs) /\ Opens(i, "marketplace", r)') => smoke.step = "passed" /\ mined' = mined
  PROVE  MarketAfterSmoke'
<1> SUFFICES ASSUME NEW i \in 1 .. Len(txs'), NEW r \in AdminRuns, Opens(i, "marketplace", r)'
             PROVE  /\ smoke'.step = "passed"
                    /\ \A b \in {smoke'.registeredAt, smoke'.evidence} : blocks'[b]["marketplace"]
                    /\ smoke'.evidence + 1 >= smoke'.registeredAt + Confirmations
                    /\ i <= Len(mined') => mined'[i] > smoke'.evidence
  BY DEF MarketAfterSmoke
<1>1. /\ Len(txs) \in Nat /\ Len(txs') \in Nat /\ Len(mined) \in Nat /\ Len(mined') \in Nat
      /\ Len(blocks) \in Nat /\ Len(blocks') \in Nat /\ Len(mined) <= Len(txs)
      /\ \A j \in 1 .. Len(mined') : mined'[j] \in Nat
  BY DEF ChainTypeOK, Grows
<1>2. smoke.step = "passed" /\ (i <= Len(mined) => mined[i] > smoke.evidence)
  <2>1. CASE i <= Len(txs)
    <3>1. Opens(i, "marketplace", r)
      BY <2>1, <1>1 DEF Grows, Opens
    <3> QED
      BY <3>1, <2>1, <1>1 DEF MarketAfterSmoke
  <2>2. CASE i > Len(txs)
    BY <2>2, <1>1
  <2> QED
    BY <2>1, <2>2, <1>1
<1>3. /\ smoke' = smoke
      /\ smoke.registeredAt \in 1 .. Len(blocks) /\ blocks[smoke.registeredAt]["marketplace"]
      /\ smoke.evidence \in 1 .. Len(blocks) /\ blocks[smoke.evidence]["marketplace"]
      /\ smoke.evidence + 1 >= smoke.registeredAt + Confirmations
  BY <1>2 DEF SmokeFits
<1>4. i <= Len(mined') => mined'[i] > smoke.evidence
  <2>1. CASE i <= Len(mined)
    BY <2>1, <1>1, <1>2 DEF Grows
  <2>2. CASE i > Len(mined) /\ i <= Len(mined')
    <3>1. mined'[i] > Len(blocks) /\ mined'[i] \in Nat
      BY <2>2, <1>1 DEF Grows
    <3> QED
      BY <3>1, <1>1, <1>3
  <2> QED
    BY <2>1, <2>2, <1>1
<1>5. blocks'[smoke.registeredAt] = blocks[smoke.registeredAt]
      /\ blocks'[smoke.evidence] = blocks[smoke.evidence]
  BY <1>3 DEF Grows
<1> QED
  BY <1>2, <1>3, <1>4, <1>5

-----------------------------------------------------------------------------
(* The steps *)

LEMMA OperationsInitInv == OperationsInit => OperationsInv
<1> SUFFICES ASSUME OperationsInit PROVE OperationsInv
  OBVIOUS
<1>1. PICK p \in InitialPauses : blocks = <<p>>
  BY DEF OperationsInit, ChainInit
<1>2. p \in Pauses /\ blocks \in Seq(Pauses) /\ Len(blocks) = 1
  BY <1>1
<1>3. txs = <<>> /\ mined = <<>> /\ txs \in Seq(Txs) /\ mined \in Seq(Nat)
      /\ Len(txs) = 0 /\ Len(mined) = 0
  BY DEF OperationsInit, ChainInit
<1>4. ChainTypeOK
  BY <1>2, <1>3 DEF ChainTypeOK, Top
<1>5. smoke \in Smokes /\ smoke.step = "idle"
  BY DEF OperationsInit, SmokeInit, Smokes, SmokeSteps
<1>6. IdleRun \in Runs /\ IdleRun.step = "idle" /\ IdleRun.report = "none"
  BY DEF IdleRun, Runs, AdminSteps, Reports, BothOpen, Pauses, Items
<1>7. run \in [AdminRuns -> Runs] /\ \A r \in AdminRuns : run[r] = IdleRun
  BY <1>6 DEF OperationsInit, AdminInit
<1>8. drill \in Drills /\ drill.step = "idle" /\ drill.k = 1 /\ drill.receipts = <<>>
      /\ \A s \in Surfaces : drill.outcome[s] = "none"
  BY DEF OperationsInit, DrillInit, Drills, DrillSteps, Outcomes, Surfaces
<1>9. \A r \in AdminRuns : RunFits(r, run[r])
  BY <1>3, <1>6, <1>7 DEF RunFits
<1>10. DrillFits
  BY <1>8 DEF DrillFits
<1>11. MarketAfterSmoke /\ MinedInOrder /\ SmokeFits
  BY <1>3, <1>5 DEF MarketAfterSmoke, MinedInOrder, SmokeFits
<1> QED
  BY <1>4, <1>5, <1>7, <1>8, <1>9, <1>10, <1>11 DEF OperationsInv, OperationsTypeOK

\* A step that leaves the tools as they are.
LEMMA ToolsStay ==
  ASSUME OperationsInv, Grows, \A w \in Senders : Silent(w), UNCHANGED <<run, drill>>,
         smoke' \in Smokes, SmokeFits', smoke.step = "passed" => UNCHANGED smoke
  PROVE  OperationsInv'
<1>0. ChainTypeOK /\ drill \in Drills /\ run \in [AdminRuns -> Runs] /\ smoke \in Smokes
  BY DEF OperationsInv, OperationsTypeOK
<1>1. \A r \in AdminRuns : RunFits(r, run[r])'
  <2> SUFFICES ASSUME NEW r \in AdminRuns PROVE RunFits(r, run[r])'
    OBVIOUS
  <2>1. run[r] \in Runs /\ Silent(r) /\ RunFits(r, run[r]) /\ run'[r] = run[r]
    BY <1>0 DEF OperationsInv
  <2>2. PICK t \in Runs : t = run[r]
    BY <2>1
  <2>3. RunFits(r, t)'
    BY <2>1, <2>2, <1>0, RunStays DEF OperationsInv
  <2> QED
    BY <2>1, <2>2, <2>3
<1>2. DrillFits'
  BY <1>0, DrillStays DEF OperationsInv
<1>3. MarketAfterSmoke'
  <2>1. \A i \in 1 .. Len(txs'), r \in AdminRuns :
          (i > Len(txs) /\ Opens(i, "marketplace", r)') => FALSE
    BY <1>0 DEF Silent, Opens, Grows, ChainTypeOK
  <2> QED
    BY <1>0, <2>1, MarketStays DEF OperationsInv
<1>4. OperationsTypeOK' /\ MinedInOrder'
  BY <1>0 DEF OperationsTypeOK, Grows, MinedInOrder
<1> QED
  BY <1>1, <1>2, <1>3, <1>4 DEF OperationsInv

LEMMA MineInv ==
  ASSUME OperationsInv, MineBlock, UNCHANGED <<smoke, run, drill>>
  PROVE  OperationsInv'
<1>0. ChainTypeOK /\ smoke \in Smokes
  BY DEF OperationsInv, OperationsTypeOK
<1>1. Grows
  BY <1>0, MineGrows DEF OperationsInv
<1>2. \A w \in Senders : Silent(w)
  BY DEF MineBlock, Silent
<1>3. SmokeFits'
  BY <1>0, <1>1, SmokeStays DEF OperationsInv
<1> QED
  BY <1>0, <1>1, <1>2, <1>3, ToolsStay

LEMMA SmokeStepInv ==
  ASSUME OperationsInv, UNCHANGED <<run, drill>>,
         SmokeStep \/ \E v \in Verifications : InspectReadiness(v)
  PROVE  OperationsInv'
<1>0. ChainTypeOK /\ smoke \in Smokes /\ SmokeFits /\ MinedInOrder
  BY DEF OperationsInv, OperationsTypeOK
<1>1. UNCHANGED chainVars /\ smoke.step # "passed"
  BY DEF SmokeStep, InspectReadiness, RegistrationMined, CaptureEvidence, SmokeFails
<1>2. Grows /\ \A w \in Senders : Silent(w)
  BY <1>0, <1>1, StillGrows
<1>3. Len(blocks) \in Nat /\ Len(blocks) >= 1 /\ blocks' = blocks
  BY <1>0, <1>1 DEF ChainTypeOK, Top, chainVars
<1>4. smoke' \in Smokes /\ SmokeFits'
  <2>1. CASE \E v \in Verifications : InspectReadiness(v)
    BY <2>1, <1>3 DEF InspectReadiness, Smokes, SmokeSteps, SmokeFits, Top
  <2>2. CASE RegistrationMined
    <3>1. smoke' = [smoke EXCEPT !.step = "failed"] => smoke' \in Smokes /\ SmokeFits'
      BY <1>0 DEF Smokes, SmokeSteps, SmokeFits
    <3>2. CASE blocks[Top]["marketplace"]
      <4>1. smoke' = [smoke EXCEPT !.step = "registered", !.registeredAt = Len(blocks)]
        BY <2>2, <3>2 DEF RegistrationMined, Top
      <4>2. smoke' \in Smokes /\ smoke'.step = "registered" /\ smoke'.registeredAt = Len(blocks)
        BY <4>1, <1>0, <1>3 DEF Smokes, SmokeSteps
      <4> QED
        BY <4>2, <3>2, <1>3 DEF SmokeFits, Top
    <3> QED
      BY <2>2, <3>1, <3>2 DEF RegistrationMined
  <2>3. CASE CaptureEvidence
    <3>1. smoke' = [smoke EXCEPT !.step = "failed"] => smoke' \in Smokes /\ SmokeFits'
      BY <1>0 DEF Smokes, SmokeSteps, SmokeFits
    <3>2. CASE blocks[Top]["marketplace"]
      <4>1. /\ smoke' = [smoke EXCEPT !.step = "passed", !.evidence = Len(blocks)]
            /\ smoke.step = "registered" /\ Len(blocks) + 1 >= smoke.registeredAt + Confirmations
        BY <2>3, <3>2 DEF CaptureEvidence, Top
      <4>2. /\ smoke' \in Smokes /\ smoke'.step = "passed" /\ smoke'.evidence = Len(blocks)
            /\ smoke'.registeredAt = smoke.registeredAt
        BY <4>1, <1>0, <1>3 DEF Smokes, SmokeSteps
      <4> QED
        BY <4>1, <4>2, <3>2, <1>0, <1>3 DEF SmokeFits, Top
    <3> QED
      BY <2>3, <3>1, <3>2 DEF CaptureEvidence
  <2>4. CASE SmokeFails
    BY <2>4, <1>0, <1>3 DEF SmokeFails, Smokes, SmokeSteps, SmokeFits, Top
  <2> QED
    BY <2>1, <2>2, <2>3, <2>4 DEF SmokeStep
<1> QED
  BY <1>1, <1>2, <1>4, ToolsStay

\* One run of the operator's tool moves to state t, with or without a new transaction.
LEMMA RunBecomes ==
  ASSUME OperationsInv, Grows, NEW r \in AdminRuns, NEW t \in Runs,
         run' = [run EXCEPT ![r] = t], RunFits(r, t)', UNCHANGED <<smoke, drill>>,
         \A w \in Senders \ {r} : Silent(w),
         \A i \in 1 .. Len(txs') :
           (i > Len(txs) /\ Opens(i, "marketplace", r)') => smoke.step = "passed" /\ mined' = mined
  PROVE  OperationsInv'
<1>0. ChainTypeOK /\ drill \in Drills /\ run \in [AdminRuns -> Runs] /\ smoke \in Smokes
  BY DEF OperationsInv, OperationsTypeOK
<1>1. \A q \in AdminRuns : RunFits(q, run[q])'
  <2> SUFFICES ASSUME NEW q \in AdminRuns \ {r} PROVE RunFits(q, run[q])'
    BY <1>0
  <2>1. run[q] \in Runs /\ Silent(q) /\ RunFits(q, run[q]) /\ run'[q] = run[q]
    BY <1>0 DEF OperationsInv
  <2>2. PICK u \in Runs : u = run[q]
    BY <2>1
  <2>3. RunFits(q, u)'
    BY <2>1, <2>2, <1>0, RunStays DEF OperationsInv
  <2> QED
    BY <2>1, <2>2, <2>3
<1>2. Silent(DrillRun)
  OBVIOUS
<1>3. DrillFits'
  BY <1>0, <1>2, DrillStays DEF OperationsInv
<1>4. MarketAfterSmoke'
  <2>1. \A i \in 1 .. Len(txs'), q \in AdminRuns :
          (i > Len(txs) /\ Opens(i, "marketplace", q)') => q = r
    <3> SUFFICES ASSUME NEW i \in 1 .. Len(txs'), NEW q \in AdminRuns, i > Len(txs),
                        Opens(i, "marketplace", q)', q # r
                 PROVE  FALSE
      OBVIOUS
    <3>1. Silent(q) /\ txs'[i].by = q
      BY DEF Opens
    <3> QED
      BY <3>1, <1>0 DEF Silent, Grows, ChainTypeOK
  <2> QED
    BY <1>0, <2>1, MarketStays DEF OperationsInv
<1>5. SmokeFits'
  BY <1>0, SmokeStays DEF OperationsInv
<1>6. OperationsTypeOK' /\ MinedInOrder'
  BY <1>0 DEF OperationsTypeOK, Grows, MinedInOrder
<1> QED
  BY <1>1, <1>3, <1>4, <1>5, <1>6 DEF OperationsInv

LEMMA RunMoves ==
  ASSUME OperationsInv, UNCHANGED chainVars, NEW r \in AdminRuns, NEW t \in Runs,
         run' = [run EXCEPT ![r] = t], RunFits(r, t), UNCHANGED <<smoke, drill>>
  PROVE  OperationsInv'
<1>0. ChainTypeOK /\ MinedInOrder
  BY DEF OperationsInv, OperationsTypeOK
<1>1. Grows /\ \A w : Silent(w)
  BY <1>0, StillGrows
<1>2. RunFits(r, t)'
  BY <1>0, <1>1, RunStays
<1>3. \A i \in 1 .. Len(txs') : (i > Len(txs) /\ Opens(i, "marketplace", r)') => FALSE
  BY <1>0 DEF chainVars, ChainTypeOK
<1> QED
  BY <1>1, <1>2, <1>3, RunBecomes

\* The drill moves, with or without a new transaction of its own.
LEMMA DrillBecomes ==
  ASSUME OperationsInv, Grows, drill' \in Drills, DrillFits', UNCHANGED <<smoke, run>>,
         \A w \in Senders \ {DrillRun} : Silent(w)
  PROVE  OperationsInv'
<1>0. ChainTypeOK /\ run \in [AdminRuns -> Runs] /\ smoke \in Smokes
  BY DEF OperationsInv, OperationsTypeOK
<1>1. \A q \in AdminRuns : RunFits(q, run[q])'
  <2> SUFFICES ASSUME NEW q \in AdminRuns PROVE RunFits(q, run[q])'
    OBVIOUS
  <2>1. run[q] \in Runs /\ Silent(q) /\ RunFits(q, run[q]) /\ run'[q] = run[q]
    BY <1>0 DEF OperationsInv
  <2>2. PICK u \in Runs : u = run[q]
    BY <2>1
  <2>3. RunFits(q, u)'
    BY <2>1, <2>2, <1>0, RunStays DEF OperationsInv
  <2> QED
    BY <2>1, <2>2, <2>3
<1>2. MarketAfterSmoke'
  <2>1. \A i \in 1 .. Len(txs'), q \in AdminRuns :
          (i > Len(txs) /\ Opens(i, "marketplace", q)') => FALSE
    <3> SUFFICES ASSUME NEW i \in 1 .. Len(txs'), NEW q \in AdminRuns, i > Len(txs),
                        Opens(i, "marketplace", q)', TRUE
                 PROVE  FALSE
      OBVIOUS
    <3>1. Silent(q) /\ txs'[i].by = q
      BY DEF Opens
    <3> QED
      BY <3>1, <1>0 DEF Silent, Grows, ChainTypeOK
  <2> QED
    BY <1>0, <2>1, MarketStays DEF OperationsInv
<1>3. SmokeFits'
  BY <1>0, SmokeStays DEF OperationsInv
<1>4. OperationsTypeOK' /\ MinedInOrder'
  BY <1>0 DEF OperationsTypeOK, Grows, MinedInOrder
<1> QED
  BY <1>1, <1>2, <1>3, <1>4 DEF OperationsInv

-----------------------------------------------------------------------------
(* The operator's tool *)

LEMMA ItemFits ==
  ASSUME NEW s \in Surfaces, NEW p \in BOOLEAN
  PROVE  Item(s, p) \in Items /\ Item(s, p).surface = s /\ Item(s, p).paused = p
BY DEF Item, Items

LEMMA PlanFits ==
  ASSUME NEW action \in OpenActions \cup {"pause-all", "controller-pause", "market-pause"}
  PROVE  /\ OperationPlan(action) \in Seq(Items)
         /\ action \in OpenActions => OperationPlan(action)[1].surface \in Surfaces
         /\ action \in OpenActions /\ OperationPlan(action)[1].surface = "marketplace" =>
              action = "market-open"
         /\ \A j \in 1 .. Len(OperationPlan(action)) : ~OperationPlan(action)[j].paused =>
              action \in OpenActions
              /\ OperationPlan(action)[j].surface = OperationPlan(action)[1].surface
<1>1. CASE action \in OpenActions
  <2>1. PICK s \in Surfaces : OperationPlan(action) = <<Item(s, FALSE)>>
                              /\ (s = "marketplace" => action = "market-open")
    BY <1>1 DEF OpenActions, OperationPlan, Surfaces
  <2>2. PICK i \in Items : i = Item(s, FALSE) /\ i.surface = s
    <3>1. Item(s, FALSE) \in Items /\ Item(s, FALSE).surface = s
      BY ItemFits
    <3> QED
      BY <3>1
  <2>3. OperationPlan(action) = <<i>>
    BY <2>1, <2>2
  <2>4. OperationPlan(action) \in Seq(Items) /\ Len(OperationPlan(action)) = 1
        /\ OperationPlan(action)[1] = i
    BY <2>3
  <2>5. \A j \in 1 .. Len(OperationPlan(action)) : OperationPlan(action)[j] = i
    BY <2>4
  <2> QED
    BY <1>1, <2>1, <2>2, <2>4, <2>5
<1>2. CASE action = "pause-all"
  <2>0. OperationPlan(action) = <<Item("marketplace", TRUE), Item("controller", TRUE)>>
    BY <1>2 DEF OperationPlan
  <2>1. PICK i \in Items, j \in Items :
          OperationPlan(action) = <<i, j>> /\ i.paused = TRUE /\ j.paused = TRUE
    BY <2>0, ItemFits DEF Surfaces
  <2>2. OperationPlan(action) \in Seq(Items) /\ Len(OperationPlan(action)) = 2
        /\ OperationPlan(action)[1] = i /\ OperationPlan(action)[2] = j
    BY <2>1
  <2>3. \A k \in 1 .. Len(OperationPlan(action)) : OperationPlan(action)[k].paused = TRUE
    BY <2>1, <2>2
  <2> QED
    BY <1>2, <2>2, <2>3 DEF OpenActions
<1>3. CASE action \in {"controller-pause", "market-pause"}
  <2>0. PICK s \in Surfaces : OperationPlan(action) = <<Item(s, TRUE)>>
    BY <1>3 DEF OperationPlan, Surfaces
  <2>1. PICK i \in Items : OperationPlan(action) = <<i>> /\ i.paused = TRUE
    BY <2>0, ItemFits
  <2>2. OperationPlan(action) \in Seq(Items) /\ Len(OperationPlan(action)) = 1
        /\ OperationPlan(action)[1] = i
    BY <2>1
  <2> QED
    BY <1>3, <2>1, <2>2 DEF OpenActions
<1> QED
  BY <1>1, <1>2, <1>3

LEMMA IdleRunTyped == IdleRun \in Runs
<1>1. BothOpen \in Pauses
  BY DEF BothOpen, Pauses
<1>2. <<>> \in Seq(Items)
  OBVIOUS
<1> QED
  BY <1>1, <1>2 DEF IdleRun, Runs, AdminSteps, Reports

LEMMA FinishedFits ==
  ASSUME ChainTypeOK, NEW r, NEW report \in {"ok", "failed"}, NEW t, t = Finished(report)
  PROVE  t \in Runs /\ RunFits(r, t) /\ RunFits(r, t)'
<1>1. Top \in Nat
  BY DEF ChainTypeOK, Top
<1>2. PICK u \in Runs : u = IdleRun
  BY IdleRunTyped
<1>3. t = [u EXCEPT !.step = "done", !.report = report, !.at = Top]
  BY <1>2 DEF Finished
<1>4. t \in Runs /\ t.step = "done" /\ t.report = report
  BY <1>1, <1>3 DEF Runs, AdminSteps, Reports
<1> QED
  BY <1>4 DEF RunFits

\* After an error the run is rolled back or fails.
LEMMA AfterErrorFits ==
  ASSUME OperationsInv, NEW r \in AdminRuns, run[r].step \in {"perform", "wait"}
  PROVE  AfterError(r) \in Runs /\ RunFits(r, AfterError(r))
<1>0. ChainTypeOK /\ run[r] \in Runs /\ RunFits(r, run[r])
  BY DEF OperationsInv, OperationsTypeOK
<1>1. CASE run[r].target # "none" /\ run[r].started
  <2>1. PICK u \in Runs : u = run[r]
    BY <1>0
  <2>2. PICK t \in Runs : t = [u EXCEPT !.step = "rollback"]
    BY DEF Runs, AdminSteps
  <2>3. t.step = "rollback" /\ t.target = u.target /\ t.report = u.report /\ u.target # "none"
        /\ RunFits(r, u) /\ u.step \in {"perform", "wait"} /\ u.target \in Surfaces
    BY <1>0, <1>1, <2>1, <2>2 DEF Runs
  <2>4. RunFits(r, t)
    BY <2>3 DEF RunFits
  <2> QED
    BY <1>1, <2>1, <2>2, <2>4 DEF AfterError
<1>2. CASE ~(run[r].target # "none" /\ run[r].started)
  <2>1. PICK t : t = Finished("failed")
    OBVIOUS
  <2>2. t \in Runs /\ RunFits(r, t)
    BY <1>0, <2>1, FinishedFits
  <2> QED
    BY <1>2, <2>1, <2>2 DEF AfterError
<1> QED
  BY <1>1, <1>2

LEMMA AdminStartInv ==
  ASSUME OperationsInv, NEW r \in AdminRuns, NEW action \in AdminActions, AdminStart(r, action),
         UNCHANGED <<smoke, drill>>
  PROVE  OperationsInv'
<1>0. ChainTypeOK /\ run[r] \in Runs /\ RunFits(r, run[r]) /\ run[r].step = "idle"
  BY DEF OperationsInv, OperationsTypeOK, AdminStart
<1>1. blocks[Top] \in Pauses
  BY <1>0 DEF ChainTypeOK, Top
<1>2. PICK plan \in Seq(Items) : plan = OperationPlan(action)
  BY PlanFits
<1>3. action \in OpenActions => plan[1].surface \in Surfaces
      /\ (plan[1].surface = "marketplace" => action = "market-open")
  BY <1>2, PlanFits
<1>4. \A j \in 1 .. Len(plan) : ~plan[j].paused =>
        action \in OpenActions /\ plan[j].surface = plan[1].surface
  BY <1>2, PlanFits
<1>5. ExpectedPauses(action, blocks[Top]) \in Pauses
  <2>1. \A s \in Surfaces :
          (LET own == {i \in DOMAIN OperationPlan(action) : OperationPlan(action)[i].surface = s}
           IN IF own = {} THEN blocks[Top][s] ELSE \E i \in own : OperationPlan(action)[i].paused)
          \in BOOLEAN
    BY <1>1 DEF Pauses
  <2> QED
    BY <2>1 DEF ExpectedPauses, Pauses
<1>6. PICK target \in Surfaces \cup {"none"} :
        target = IF action \in OpenActions THEN plan[1].surface ELSE "none"
  BY <1>3
<1>7. PICK t : t = [IdleRun EXCEPT !.step = "perform", !.todo = plan, !.current = blocks[Top],
                      !.expected = ExpectedPauses(action, blocks[Top]), !.target = target]
  OBVIOUS
<1>8. t \in Runs /\ t.step = "perform" /\ t.todo = plan /\ t.target = target /\ t.report = "none"
  <2>1. PICK u \in Runs : u = IdleRun /\ u.report = "none"
    BY IdleRunTyped DEF IdleRun
  <2>2. PICK e \in Pauses : e = ExpectedPauses(action, blocks[Top])
    BY <1>5
  <2>3. t = [u EXCEPT !.step = "perform", !.todo = plan, !.current = blocks[Top],
                      !.expected = e, !.target = target]
    BY <1>7, <2>1, <2>2
  <2> QED
    BY <1>1, <2>1, <2>3 DEF Runs, AdminSteps
<1>9. run' = [run EXCEPT ![r] = t] /\ UNCHANGED chainVars
  BY <1>2, <1>6, <1>7 DEF AdminStart
<1>10. target = "marketplace" => smoke.step = "passed"
  BY <1>3, <1>6 DEF AdminStart, SmokeBinds
<1>11. \A i \in 1 .. Len(txs), s \in Surfaces : ~Opens(i, s, r)
  BY <1>0 DEF RunFits, Opens
<1>12. RunFits(r, t)
  BY <1>4, <1>6, <1>8, <1>10, <1>11 DEF RunFits
<1> QED
  BY <1>8, <1>9, <1>12, RunMoves

\* What an admin run submits while it performs its plan opens its target only.
LEMMA PlanSubmits ==
  ASSUME OperationsInv, NEW r \in AdminRuns, run[r].step = "perform", run[r].todo # <<>>,
         Submit(Head(run[r].todo).surface, Head(run[r].todo).paused, r)
  PROVE  /\ Grows /\ mined' = mined /\ Len(txs') = Len(txs) + 1 /\ Len(txs) \in Nat
         /\ \A w \in Senders \ {r} : Silent(w)
         /\ \A i \in 1 .. Len(txs'), s \in Surfaces : Opens(i, s, r)' => s = run[r].target
<1>0. ChainTypeOK /\ MinedInOrder /\ run[r] \in Runs /\ RunFits(r, run[r])
  BY DEF OperationsInv, OperationsTypeOK
<1>1. run[r].todo \in Seq(Items) /\ Head(run[r].todo) = run[r].todo[1]
      /\ 1 \in 1 .. Len(run[r].todo)
  BY <1>0 DEF Runs
<1>2. PICK item \in Items : item = Head(run[r].todo)
  BY <1>1
<1>3. item.surface \in Surfaces /\ item.paused \in BOOLEAN
  BY DEF Items
<1>4. /\ Grows /\ mined' = mined /\ Len(txs') = Len(txs) + 1
      /\ txs'[Len(txs) + 1] = [surface |-> item.surface, paused |-> item.paused, by |-> r]
      /\ \A w \in Senders \ {r} : Silent(w)
  BY <1>0, <1>2, <1>3, SubmitGrows
<1>5. Len(txs) \in Nat
  BY <1>0 DEF ChainTypeOK
<1>6. item.paused = FALSE => item.surface = run[r].target
  BY <1>0, <1>1, <1>2 DEF RunFits
<1>7. ASSUME NEW i \in 1 .. Len(txs'), NEW s \in Surfaces, Opens(i, s, r)'
      PROVE  s = run[r].target
  <2>1. CASE i <= Len(txs)
    <3>0. i \in 1 .. Len(txs)
      BY <1>5, <2>1
    <3>1. i \in 1 .. Len(txs) /\ Opens(i, s, r)
      BY <1>4, <1>7, <3>0 DEF Grows, Opens
    <3> QED
      BY <3>1, <1>0 DEF RunFits
  <2>2. CASE i = Len(txs) + 1
    <3>1. [surface |-> item.surface, paused |-> item.paused, by |-> r]
            = [surface |-> s, paused |-> FALSE, by |-> r]
      BY <1>4, <1>7, <2>2 DEF Opens
    <3>2. item.surface = s /\ item.paused = FALSE
      BY <3>1
    <3> QED
      BY <3>2, <1>6
  <2> QED
    BY <2>1, <2>2, <1>4, <1>5
<1> QED
  BY <1>4, <1>5, <1>7

LEMMA PerformOperationInv ==
  ASSUME OperationsInv, NEW r \in AdminRuns, PerformOperation(r), UNCHANGED <<smoke, drill>>
  PROVE  OperationsInv'
<1>0. ChainTypeOK /\ run[r] \in Runs /\ run \in [AdminRuns -> Runs] /\ RunFits(r, run[r])
      /\ run[r].step = "perform" /\ run[r].todo # <<>>
  BY DEF OperationsInv, OperationsTypeOK, PerformOperation
<1>1. PICK u \in Runs : u = run[r]
  BY <1>0
<1>2. u.todo \in Seq(Items) /\ u.todo # <<>> /\ u.step = "perform" /\ RunFits(r, u)
  BY <1>0, <1>1 DEF Runs
<1>3. CASE run' = [run EXCEPT ![r].todo = Tail(@)] /\ UNCHANGED chainVars
  <2>0. PICK rest \in Seq(Items) : rest = Tail(u.todo)
    BY <1>2, HeadTailProperties
  <2>1. PICK t \in Runs : t = [u EXCEPT !.todo = Tail(u.todo)]
    BY <2>0 DEF Runs
  <2>2. t.step = "perform" /\ t.todo = Tail(u.todo) /\ t.target = u.target
        /\ t.report = u.report
    BY <1>2, <2>1 DEF Runs
  <2>3. \A j \in 1 .. Len(t.todo) : j + 1 \in 1 .. Len(u.todo) /\ t.todo[j] = u.todo[j + 1]
    BY <1>2, <2>2
  <2>4. RunFits(r, t)
    BY <1>2, <2>2, <2>3 DEF RunFits
  <2>5. run' = [run EXCEPT ![r] = t]
    BY <1>0, <1>1, <1>3, <2>1
  <2> QED
    BY <1>3, <2>4, <2>5, RunMoves
<1>4. CASE /\ Submit(Head(run[r].todo).surface, Head(run[r].todo).paused, r)
           /\ \/ run' = [run EXCEPT ![r].step = "wait", ![r].tx = Len(txs'), ![r].started = TRUE]
              \/ run' = [run EXCEPT ![r] = AfterError(r)]
  <2>1. /\ Grows /\ mined' = mined /\ Len(txs') = Len(txs) + 1 /\ Len(txs) \in Nat
        /\ \A w \in Senders \ {r} : Silent(w)
        /\ \A i \in 1 .. Len(txs'), s \in Surfaces : Opens(i, s, r)' => s = u.target
    BY <1>0, <1>1, <1>4, PlanSubmits
  <2>2. u.target = "marketplace" => smoke.step = "passed"
    BY <1>2 DEF RunFits
  <2>3. \A i \in 1 .. Len(txs') :
          (i > Len(txs) /\ Opens(i, "marketplace", r)') => smoke.step = "passed" /\ mined' = mined
    BY <2>1, <2>2 DEF Surfaces
  <2>4. ASSUME NEW t \in Runs, run' = [run EXCEPT ![r] = t], RunFits(r, t)'
        PROVE  OperationsInv'
    BY <2>1, <2>3, <2>4, RunBecomes
  <2>5. CASE run' = [run EXCEPT ![r].step = "wait", ![r].tx = Len(txs'), ![r].started = TRUE]
    <3>0. PICK n \in Nat : n = Len(txs')
      BY <2>1
    <3>1. PICK t \in Runs : t = [u EXCEPT !.step = "wait", !.tx = Len(txs'), !.started = TRUE]
      BY <3>0 DEF Runs, AdminSteps
    <3>2. t.step = "wait" /\ t.todo = u.todo /\ t.target = u.target /\ t.report = u.report
      BY <3>1 DEF Runs
    <3>3. RunFits(r, t)'
      BY <1>2, <2>1, <2>2, <3>2 DEF RunFits
    <3>4. run' = [run EXCEPT ![r] = t]
      BY <1>0, <1>1, <2>5, <3>1
    <3> QED
      BY <2>4, <3>3, <3>4
  <2>6. CASE run' = [run EXCEPT ![r] = AfterError(r)]
    <3>1. CASE u.target # "none" /\ u.started
      <4>1. PICK t \in Runs : t = [u EXCEPT !.step = "rollback"]
        BY DEF Runs, AdminSteps
      <4>2. t.step = "rollback" /\ t.target = u.target /\ t.report = u.report
            /\ t.target \in Surfaces
        BY <3>1, <4>1 DEF Runs
      <4>3. RunFits(r, t)'
        BY <1>2, <2>1, <2>2, <4>2 DEF RunFits
      <4>4. run' = [run EXCEPT ![r] = t]
        BY <1>1, <2>6, <3>1, <4>1 DEF AfterError
      <4> QED
        BY <2>4, <4>3, <4>4
    <3>2. CASE ~(u.target # "none" /\ u.started)
      <4>1. PICK t : t = Finished("failed")
        OBVIOUS
      <4>2. t \in Runs /\ RunFits(r, t)'
        BY <1>0, <4>1, FinishedFits
      <4>3. run' = [run EXCEPT ![r] = t]
        BY <1>1, <2>6, <3>2, <4>1 DEF AfterError
      <4> QED
        BY <2>4, <4>2, <4>3
    <3> QED
      BY <3>1, <3>2
  <2> QED
    BY <1>4, <2>5, <2>6
<1> QED
  BY <1>3, <1>4 DEF PerformOperation

LEMMA ConfirmOperationInv ==
  ASSUME OperationsInv, NEW r \in AdminRuns, ConfirmOperation(r), UNCHANGED <<smoke, drill>>
  PROVE  OperationsInv'
<1>0. ChainTypeOK /\ run[r] \in Runs /\ run \in [AdminRuns -> Runs] /\ RunFits(r, run[r])
      /\ run[r].step = "wait" /\ UNCHANGED chainVars
  BY DEF OperationsInv, OperationsTypeOK, ConfirmOperation
<1>1. PICK u \in Runs : u = run[r]
  BY <1>0
<1>2. u.todo \in Seq(Items) /\ u.todo # <<>> /\ u.step = "wait" /\ RunFits(r, u)
  BY <1>0, <1>1 DEF Runs, RunFits
<1>3. blocks[Top] \in Pauses
  BY <1>0 DEF ChainTypeOK, Top
<1>4. PICK t \in Runs : t = [u EXCEPT !.step = "perform", !.todo = Tail(u.todo),
                                     !.current = blocks[Top]]
  <2>1. PICK rest \in Seq(Items) : rest = Tail(u.todo)
    BY <1>2, HeadTailProperties
  <2> QED
    BY <1>3, <2>1 DEF Runs, AdminSteps
<1>5. t.step = "perform" /\ t.todo = Tail(u.todo) /\ t.target = u.target /\ t.report = u.report
  BY <1>2, <1>4 DEF Runs
<1>6. \A j \in 1 .. Len(t.todo) : j + 1 \in 1 .. Len(u.todo) /\ t.todo[j] = u.todo[j + 1]
  BY <1>2, <1>5
<1>7. RunFits(r, t)
  BY <1>2, <1>5, <1>6 DEF RunFits
<1>8. PICK e \in Runs : e = AfterError(r) /\ RunFits(r, e)
  BY <1>0, AfterErrorFits
<1>9. run' = [run EXCEPT ![r] = t] \/ run' = [run EXCEPT ![r] = e]
  BY <1>0, <1>1, <1>4, <1>8 DEF ConfirmOperation
<1> QED
  BY <1>0, <1>7, <1>8, <1>9, RunMoves

LEMMA FinishOrErrorInv ==
  ASSUME OperationsInv, NEW r \in AdminRuns, FinishActivation(r) \/ AdminError(r),
         UNCHANGED <<smoke, drill>>
  PROVE  OperationsInv'
<1>0. ChainTypeOK /\ run[r] \in Runs /\ run[r].step \in {"perform", "wait"}
      /\ UNCHANGED chainVars
  BY DEF OperationsInv, OperationsTypeOK, FinishActivation, AdminError
<1>1. PICK e \in Runs : e = AfterError(r) /\ RunFits(r, e)
  BY <1>0, AfterErrorFits
<1>2. PICK t : t = Finished("ok")
  OBVIOUS
<1>3. t \in Runs /\ RunFits(r, t)
  BY <1>0, <1>2, FinishedFits
<1>4. run' = [run EXCEPT ![r] = t] \/ run' = [run EXCEPT ![r] = e]
  BY <1>1, <1>2 DEF FinishActivation, AdminError
<1> QED
  BY <1>0, <1>1, <1>3, <1>4, RunMoves

\* The pause of a rollback is behind every open of its run.
LEMMA RollbackSubmitInv ==
  ASSUME OperationsInv, NEW r \in AdminRuns, RollbackSubmit(r), UNCHANGED <<smoke, drill>>
  PROVE  OperationsInv'
<1>0. ChainTypeOK /\ MinedInOrder /\ run[r] \in Runs /\ run \in [AdminRuns -> Runs]
      /\ RunFits(r, run[r]) /\ run[r].step = "rollback"
  BY DEF OperationsInv, OperationsTypeOK, RollbackSubmit
<1>1. PICK u \in Runs : u = run[r]
  BY <1>0
<1>2. u.step = "rollback" /\ u.target \in Surfaces /\ RunFits(r, u)
  BY <1>0, <1>1 DEF RunFits
<1>3. Submit(u.target, TRUE, r)
  BY <1>1 DEF RollbackSubmit, Skip
<1>4. /\ Grows /\ mined' = mined /\ Len(txs') = Len(txs) + 1
      /\ txs'[Len(txs) + 1] = [surface |-> u.target, paused |-> TRUE, by |-> r]
      /\ \A w \in Senders \ {r} : Silent(w)
  BY <1>0, <1>2, <1>3, SubmitGrows
<1>5. Len(txs) \in Nat
  BY <1>0 DEF ChainTypeOK
<1>6. ASSUME NEW i \in 1 .. Len(txs'), NEW s \in Surfaces, Opens(i, s, r)'
      PROVE  i <= Len(txs) /\ Opens(i, s, r) /\ s = u.target
  <2>1. CASE i <= Len(txs)
    <3>0. i \in 1 .. Len(txs)
      BY <1>5, <2>1
    <3>1. i \in 1 .. Len(txs) /\ Opens(i, s, r)
      BY <1>4, <1>6, <3>0 DEF Grows, Opens
    <3> QED
      BY <3>1, <2>1, <1>2 DEF RunFits
  <2>2. CASE i = Len(txs) + 1
    <3>1. [surface |-> u.target, paused |-> TRUE, by |-> r]
            = [surface |-> s, paused |-> FALSE, by |-> r]
      BY <1>4, <1>6, <2>2 DEF Opens
    <3> QED
      BY <3>1
  <2> QED
    BY <2>1, <2>2, <1>4, <1>5
<1>7. \A i \in 1 .. Len(txs') : (i > Len(txs) /\ Opens(i, "marketplace", r)') => FALSE
  BY <1>5, <1>6 DEF Surfaces
<1>8. CASE run' = [run EXCEPT ![r].step = "rollbackWait", ![r].tx = Len(txs')]
  <2>0. PICK n \in Nat : n = Len(txs')
    BY <1>4, <1>5
  <2>1. PICK t \in Runs : t = [u EXCEPT !.step = "rollbackWait", !.tx = Len(txs')]
    BY <2>0 DEF Runs, AdminSteps
  <2>2. t.step = "rollbackWait" /\ t.tx = Len(txs) + 1 /\ t.target = u.target
        /\ t.report = u.report
    BY <1>4, <2>1 DEF Runs
  <2>3. /\ t.tx \in 1 .. Len(txs')
        /\ txs'[t.tx] = [surface |-> t.target, paused |-> TRUE, by |-> r]
        /\ \A i \in 1 .. Len(txs'), s \in Surfaces : Opens(i, s, r)' => i < t.tx /\ s = t.target
    BY <1>4, <1>5, <1>6, <2>2
  <2>4. RunFits(r, t)'
    BY <1>2, <2>2, <2>3 DEF RunFits
  <2>5. run' = [run EXCEPT ![r] = t]
    BY <1>0, <1>1, <1>8, <2>1
  <2> QED
    BY <1>4, <1>7, <2>4, <2>5, RunBecomes
<1>9. CASE run' = [run EXCEPT ![r] = Finished("failed")]
  <2>1. PICK t : t = Finished("failed")
    OBVIOUS
  <2>2. t \in Runs /\ RunFits(r, t)'
    BY <1>0, <2>1, FinishedFits
  <2>3. run' = [run EXCEPT ![r] = t]
    BY <1>9, <2>1
  <2> QED
    BY <1>4, <1>7, <2>2, <2>3, RunBecomes
<1> QED
  BY <1>8, <1>9 DEF RollbackSubmit, Skip

LEMMA RollbackConfirmInv ==
  ASSUME OperationsInv, NEW r \in AdminRuns, RollbackConfirm(r), UNCHANGED <<smoke, drill>>
  PROVE  OperationsInv'
<1>0. ChainTypeOK /\ run[r] \in Runs /\ RunFits(r, run[r]) /\ run[r].step = "rollbackWait"
      /\ UNCHANGED chainVars /\ Confirmed(run[r].tx)
  BY DEF OperationsInv, OperationsTypeOK, RollbackConfirm
<1>1. PICK u \in Runs : u = run[r]
  BY <1>0
<1>2. /\ u.tx \in 1 .. Len(txs) /\ u.tx \in 1 .. Len(mined)
      /\ txs[u.tx] = [surface |-> u.target, paused |-> TRUE, by |-> r]
      /\ \A i \in 1 .. Len(txs), s \in Surfaces : Opens(i, s, r) => i < u.tx /\ s = u.target
  BY <1>0, <1>1 DEF RunFits, Confirmed
<1>3. Len(txs) \in Nat /\ Len(mined) \in Nat /\ Top \in Nat
      /\ \A i \in 1 .. Len(mined) : mined[i] \in Nat /\ mined[i] <= Top
  BY <1>0 DEF ChainTypeOK, Top
<1>4. Settled(r, Top)
  <2> SUFFICES ASSUME NEW i \in 1 .. Len(txs), NEW s \in Surfaces, Opens(i, s, r)
               PROVE  /\ Over(i, Top)
                      /\ \E j \in (i + 1) .. Len(txs) :
                           txs[j] = [surface |-> s, paused |-> TRUE, by |-> r] /\ Over(j, Top)
    BY DEF Settled
  <2>1. i < u.tx /\ s = u.target
    BY <1>2
  <2>2. Over(i, Top) /\ Over(u.tx, Top)
    BY <1>2, <1>3, <2>1 DEF Over
  <2>3. u.tx \in (i + 1) .. Len(txs)
    BY <1>2, <1>3, <2>1
  <2> QED
    BY <1>2, <2>1, <2>2, <2>3
<1>5. PICK idle \in Runs : idle = IdleRun
  BY IdleRunTyped
<1>6. PICK t \in Runs : t = [idle EXCEPT !.step = "done", !.report = "rolledBack", !.at = Top]
  BY <1>3 DEF Runs, AdminSteps, Reports
<1>7. t.step = "done" /\ t.at = Top
  BY <1>6 DEF Runs
<1>8. RunFits(r, t)
  BY <1>4, <1>7 DEF RunFits
<1>9. PICK e : e = Finished("failed")
  OBVIOUS
<1>10. e \in Runs /\ RunFits(r, e)
  BY <1>0, <1>9, FinishedFits
<1>11. run' = [run EXCEPT ![r] = t] \/ run' = [run EXCEPT ![r] = e]
  BY <1>5, <1>6, <1>9 DEF RollbackConfirm, RolledBack, Finished
<1> QED
  BY <1>0, <1>8, <1>10, <1>11, RunMoves

LEMMA RollbackErrorInv ==
  ASSUME OperationsInv, NEW r \in AdminRuns, RollbackError(r), UNCHANGED <<smoke, drill>>
  PROVE  OperationsInv'
<1>1. ChainTypeOK /\ UNCHANGED chainVars
  BY DEF OperationsInv, OperationsTypeOK, RollbackError
<1>2. PICK e : e = Finished("failed")
  OBVIOUS
<1>3. e \in Runs /\ RunFits(r, e)
  BY <1>1, <1>2, FinishedFits
<1>4. run' = [run EXCEPT ![r] = e]
  BY <1>2 DEF RollbackError
<1> QED
  BY <1>1, <1>3, <1>4, RunMoves

-----------------------------------------------------------------------------
(* The drill *)

LEMMA FailSafeInv ==
  ASSUME OperationsInv, Grows, drill.step \in {"check", "send", "wait"}, drill' = FailSafe(drill),
         UNCHANGED <<smoke, run>>, \A w \in Senders \ {DrillRun} : Silent(w)
  PROVE  OperationsInv'
<1>1. drill \in Drills /\ \A s \in Surfaces : drill.outcome[s] = "none"
  BY DEF OperationsInv, OperationsTypeOK, DrillFits
<1>2. drill' \in Drills
  BY <1>1 DEF FailSafe, Drills, DrillSteps, Surfaces
<1>3. drill'.step = "repause" /\ drill'.outcome = drill.outcome
  BY <1>1 DEF FailSafe, Drills
<1>4. DrillFits'
  BY <1>1, <1>3 DEF DrillFits
<1> QED
  BY <1>2, <1>4, DrillBecomes

LEMMA DrillStartInv ==
  ASSUME OperationsInv, NEW target \in Verifications, DrillStart(target), UNCHANGED <<smoke, run>>
  PROVE  OperationsInv'
<1>0. ChainTypeOK /\ MinedInOrder /\ drill \in Drills /\ DrillFits
      /\ drill.step = "idle" /\ UNCHANGED chainVars
  BY DEF OperationsInv, OperationsTypeOK, DrillStart
<1>1. Grows /\ \A w : Silent(w)
  BY <1>0, StillGrows
<1>2. drill' = [drill EXCEPT !.step = "check", !.target = target] /\ target \in Nat
  BY DEF DrillStart
<1>3. drill' \in Drills /\ drill'.step = "check" /\ drill'.receipts = <<>> /\ drill'.k = 1
      /\ drill'.outcome = drill.outcome
  BY <1>0, <1>2 DEF Drills, DrillSteps, DrillFits
<1>4. Backed'
  <2>1. Len(drill'.receipts) = 0
    BY <1>3
  <2>2. \A tx : \A k \in 1 .. Len(drill'.receipts) : FALSE
    BY <2>1
  <2>3. [i \in 1 .. Len(drill'.receipts) |-> 1] \in [1 .. Len(drill'.receipts) -> 1 .. Len(mined')]
    BY <2>1
  <2> QED
    BY <2>2, <2>3 DEF Backed
<1>5. DrillFits'
  BY <1>0, <1>3, <1>4 DEF DrillFits
<1> QED
  BY <1>1, <1>3, <1>5, DrillBecomes

\* Every receipt is a block of the chain.
LEMMA ReceiptsMined ==
  ASSUME ChainTypeOK, drill \in Drills, Backed, NEW i \in 1 .. Len(drill.receipts)
  PROVE  drill.receipts[i] \in 1 .. Len(blocks)
<1>1. PICK tx \in [1 .. Len(drill.receipts) -> 1 .. Len(mined)] :
        \A k \in 1 .. Len(drill.receipts) : drill.receipts[k] = mined[tx[k]]
  BY DEF Backed
<1>2. tx[i] \in 1 .. Len(mined)
  BY <1>1
<1> QED
  BY <1>1, <1>2 DEF ChainTypeOK, Top

LEMMA DrillCheckInv ==
  ASSUME OperationsInv, DrillCheck, UNCHANGED <<smoke, run>>
  PROVE  OperationsInv'
<1>0. ChainTypeOK /\ MinedInOrder /\ drill \in Drills /\ DrillFits
      /\ drill.step = "check" /\ Len(drill.receipts) < 4 /\ UNCHANGED chainVars
  BY DEF OperationsInv, OperationsTypeOK, DrillCheck
<1>1. Grows /\ \A w : Silent(w)
  BY <1>0, StillGrows
<1>2. CASE drill' = FailSafe(drill)
  BY <1>0, <1>1, <1>2, FailSafeInv
<1>3. CASE drill' = [drill EXCEPT !.step = "send", !.guard = Top]
  <2>1. Len(blocks) \in Nat /\ Len(blocks) >= 1 /\ blocks' = blocks
    BY <1>0 DEF ChainTypeOK, Top, chainVars
  <2>2. /\ drill' \in Drills /\ drill'.step = "send" /\ drill'.guard = Len(blocks)
        /\ drill'.receipts = drill.receipts /\ drill'.k = drill.k
        /\ drill'.outcome = drill.outcome
    BY <1>0, <1>3, <2>1 DEF Drills, DrillSteps, Top
  <2>3. \A i \in 1 .. Len(drill'.receipts) : drill'.receipts[i] <= drill'.guard
    <3>1. \A i \in 1 .. Len(drill.receipts) : drill.receipts[i] \in 1 .. Len(blocks)
      BY <1>0, ReceiptsMined DEF DrillFits
    <3> QED
      BY <3>1, <2>1, <2>2
  <2>4. Backed'
    <3>1. Backed
      BY <1>0 DEF DrillFits
    <3> QED
      BY <1>0, <2>2, <3>1 DEF Backed, chainVars
  <2>5. DrillFits'
    BY <1>0, <2>1, <2>2, <2>3, <2>4 DEF DrillFits
  <2> QED
    BY <1>1, <2>2, <2>5, DrillBecomes
<1> QED
  BY <1>2, <1>3 DEF DrillCheck


LEMMA DrillSubmitInv ==
  ASSUME OperationsInv, DrillSubmit, UNCHANGED <<smoke, run>>
  PROVE  OperationsInv'
<1>0. ChainTypeOK /\ MinedInOrder /\ drill \in Drills /\ DrillFits /\ drill.step = "send"
      /\ Submit(TRANSACTION_PLAN[drill.k].surface, TRANSACTION_PLAN[drill.k].paused, DrillRun)
  BY DEF OperationsInv, OperationsTypeOK, DrillSubmit
<1>1. PICK s \in Surfaces, p \in BOOLEAN :
        s = TRANSACTION_PLAN[drill.k].surface /\ p = TRANSACTION_PLAN[drill.k].paused
        /\ TRANSACTION_PLAN[drill.k] = [surface |-> s, paused |-> p]
  <2>1. drill.k \in 1 .. 4
    BY <1>0 DEF Drills
  <2>2. /\ TRANSACTION_PLAN[1] = [surface |-> "controller", paused |-> TRUE]
        /\ TRANSACTION_PLAN[2] = [surface |-> "controller", paused |-> FALSE]
        /\ TRANSACTION_PLAN[3] = [surface |-> "marketplace", paused |-> TRUE]
        /\ TRANSACTION_PLAN[4] = [surface |-> "marketplace", paused |-> FALSE]
    BY DEF TRANSACTION_PLAN
  <2>3. \E s \in Surfaces, p \in BOOLEAN :
          TRANSACTION_PLAN[drill.k] = [surface |-> s, paused |-> p]
    <3>1. "controller" \in Surfaces /\ "marketplace" \in Surfaces
      BY DEF Surfaces
    <3>2. drill.k = 1 \/ drill.k = 2 \/ drill.k = 3 \/ drill.k = 4
      BY <2>1
    <3> QED
      BY <2>2, <3>1, <3>2, Zenon
  <2> QED
    BY <2>3
<1>2. /\ Grows /\ mined' = mined /\ blocks' = blocks
      /\ Len(txs') = Len(txs) + 1
      /\ txs'[Len(txs) + 1] = [surface |-> s, paused |-> p, by |-> DrillRun]
      /\ \A w \in Senders \ {DrillRun} : Silent(w)
  BY <1>0, <1>1, SubmitGrows
<1>3. Len(txs) \in Nat /\ Len(mined) <= Len(txs) /\ Len(mined) \in Nat /\ Len(blocks) \in Nat
  BY <1>0 DEF ChainTypeOK
<1>4. CASE drill' = FailSafe(drill)
  BY <1>0, <1>2, <1>4, FailSafeInv
<1>5. CASE drill' = [drill EXCEPT !.step = "wait", !.tx = Len(txs')]
  <2>1. PICK n \in Nat : n = Len(txs')
    BY <1>2, <1>3
  <2>2. /\ drill' \in Drills /\ drill'.step = "wait" /\ drill'.tx = Len(txs) + 1
        /\ drill'.receipts = drill.receipts /\ drill'.k = drill.k /\ drill'.guard = drill.guard
        /\ drill'.outcome = drill.outcome
    BY <1>0, <1>2, <1>5, <2>1 DEF Drills, DrillSteps
  <2>3. Backed'
    BY <1>0, <1>2, <2>2, BackedStays DEF DrillFits
  <2>4. /\ drill'.tx \in 1 .. Len(txs')
        /\ txs'[drill'.tx].by = DrillRun
        /\ [surface |-> txs'[drill'.tx].surface, paused |-> txs'[drill'.tx].paused] =
             TRANSACTION_PLAN[drill'.k]
        /\ ~(drill'.tx <= Len(mined'))
    <3>1. txs'[drill'.tx] = [surface |-> s, paused |-> p, by |-> DrillRun]
      BY <1>2, <2>2
    <3>2. txs'[drill'.tx].surface = s /\ txs'[drill'.tx].paused = p
          /\ txs'[drill'.tx].by = DrillRun
      BY <3>1
    <3>3. [surface |-> txs'[drill'.tx].surface, paused |-> txs'[drill'.tx].paused] =
            TRANSACTION_PLAN[drill'.k]
      BY <1>1, <2>2, <3>2
    <3>4. drill'.tx \in 1 .. Len(txs') /\ ~(drill'.tx <= Len(mined'))
      BY <1>2, <1>3, <2>2
    <3> QED
      BY <3>2, <3>3, <3>4
  <2>5. DrillFits'
    BY <1>0, <1>2, <2>2, <2>3, <2>4 DEF DrillFits, TRANSACTION_PLAN
  <2> QED
    BY <1>2, <2>2, <2>5, DrillBecomes
<1> QED
  BY <1>4, <1>5 DEF DrillSubmit

\* The accepted receipt is behind those before it: its transaction was mined in a block after
\* the guard, and the guard is at or after them.
LEMMA ReceiptBacked ==
  ASSUME ChainTypeOK, MinedInOrder, drill \in Drills, DrillFits, drill.step = "wait",
         Confirmed(drill.tx), ReceiptAccepted(mined[drill.tx]), UNCHANGED chainVars,
         drill'.receipts = Append(drill.receipts, mined[drill.tx])
  PROVE  Backed'
<1>1. PICK n \in Nat : n = Len(drill.receipts) /\ n < 4 /\ drill.k = n + 1
  BY DEF Drills, DrillFits
<1>2. PICK tx \in [1 .. n -> 1 .. Len(mined)] :
        \A k \in 1 .. n :
          /\ txs[tx[k]].by = DrillRun
          /\ [surface |-> txs[tx[k]].surface, paused |-> txs[tx[k]].paused] =
               TRANSACTION_PLAN[k]
          /\ drill.receipts[k] = mined[tx[k]]
          /\ blocks[mined[tx[k]]] = After(k)
          /\ k > 1 => tx[k - 1] < tx[k] /\ mined[tx[k - 1]] < mined[tx[k]]
  BY <1>1 DEF DrillFits, Backed
<1>3. Len(mined) \in Nat /\ \A i \in 1 .. Len(mined) : mined[i] \in Nat
  BY DEF ChainTypeOK
<1>4. /\ drill.tx \in 1 .. Len(mined)
      /\ txs[drill.tx].by = DrillRun
      /\ [surface |-> txs[drill.tx].surface, paused |-> txs[drill.tx].paused] =
           TRANSACTION_PLAN[n + 1]
      /\ blocks[mined[drill.tx]] = After(n + 1)
      /\ mined[drill.tx] > drill.guard
  BY <1>1, <1>3 DEF DrillFits, Confirmed, ReceiptAccepted
<1>5. Len(drill'.receipts) = n + 1 /\ drill'.receipts[n + 1] = mined[drill.tx]
      /\ \A k \in 1 .. n : drill'.receipts[k] = drill.receipts[k]
  <2>1. drill.receipts \in Seq(Nat) /\ mined[drill.tx] \in Nat
    BY <1>3, <1>4 DEF Drills
  <2> QED
    BY <2>1, <1>1
<1>6. DEFINE new == [k \in 1 .. n + 1 |-> IF k <= n THEN tx[k] ELSE drill.tx]
<1>7. new \in [1 .. Len(drill'.receipts) -> 1 .. Len(mined')]
  <2>1. mined' = mined
    BY DEF chainVars
  <2>2. \A k \in 1 .. n + 1 : new[k] \in 1 .. Len(mined)
    <3> SUFFICES ASSUME NEW k \in 1 .. n + 1 PROVE new[k] \in 1 .. Len(mined)
      OBVIOUS
    <3>1. k <= n => k \in 1 .. n
      BY <1>1
    <3> QED
      BY <3>1, <1>2, <1>4
  <2> QED
    BY <1>5, <2>1, <2>2
<1>8. /\ \A k \in 1 .. n : new[k] = tx[k]
      /\ new[n + 1] = drill.tx
  BY <1>1
<1>9. \A k \in 1 .. n + 1 :
        /\ txs[new[k]].by = DrillRun
        /\ [surface |-> txs[new[k]].surface, paused |-> txs[new[k]].paused] = TRANSACTION_PLAN[k]
        /\ drill'.receipts[k] = mined[new[k]]
        /\ blocks[mined[new[k]]] = After(k)
        /\ k > 1 => new[k - 1] < new[k] /\ mined[new[k - 1]] < mined[new[k]]
  <2> SUFFICES ASSUME NEW k \in 1 .. n + 1
               PROVE  /\ txs[new[k]].by = DrillRun
                      /\ [surface |-> txs[new[k]].surface, paused |-> txs[new[k]].paused] =
                           TRANSACTION_PLAN[k]
                      /\ drill'.receipts[k] = mined[new[k]]
                      /\ blocks[mined[new[k]]] = After(k)
                      /\ k > 1 => new[k - 1] < new[k] /\ mined[new[k - 1]] < mined[new[k]]
    OBVIOUS
  <2> HIDE DEF new
  <2>1. CASE k \in 1 .. n
    <3>1. new[k] = tx[k] /\ (k > 1 => new[k - 1] = tx[k - 1])
      BY <1>1, <1>8, <2>1
    <3> QED
      BY <1>2, <1>5, <2>1, <3>1
  <2>2. CASE k = n + 1
    <3>1. k > 1 => new[k - 1] < new[k] /\ mined[new[k - 1]] < mined[new[k]]
      <4> SUFFICES ASSUME k > 1 PROVE new[k - 1] < new[k] /\ mined[new[k - 1]] < mined[new[k]]
        OBVIOUS
      <4>1. n \in 1 .. n /\ k - 1 = n /\ new[k - 1] = tx[n] /\ new[k] = drill.tx
        BY <1>1, <1>8, <2>2
      <4>2. drill.receipts[n] = mined[tx[n]] /\ drill.receipts[n] <= drill.guard
            /\ tx[n] \in 1 .. Len(mined) /\ drill.guard \in Nat
        BY <1>1, <1>2, <4>1 DEF DrillFits, Drills
      <4>3. mined[tx[n]] < mined[drill.tx]
        BY <1>3, <1>4, <4>2
      <4>4. tx[n] < drill.tx
        <5>1. ~(drill.tx <= tx[n])
          <6>1. drill.tx <= tx[n] => mined[drill.tx] <= mined[tx[n]]
            BY <1>4, <4>2 DEF MinedInOrder
          <6> QED
            BY <6>1, <4>2, <4>3, <1>3, <1>4
        <5> QED
          BY <5>1, <4>2, <1>3, <1>4
      <4> QED
        BY <4>1, <4>3, <4>4
    <3>2. new[k] = drill.tx
      BY <1>8, <2>2
    <3> QED
      BY <1>4, <1>5, <2>2, <3>1, <3>2
  <2> QED
    BY <1>1, <2>1, <2>2
<1>10. txs' = txs /\ mined' = mined /\ blocks' = blocks
  BY DEF chainVars
<1> HIDE DEF new
<1>11. \A k \in 1 .. Len(drill'.receipts) :
        /\ txs'[new[k]].by = DrillRun
        /\ [surface |-> txs'[new[k]].surface, paused |-> txs'[new[k]].paused] =
             TRANSACTION_PLAN[k]
        /\ drill'.receipts[k] = mined'[new[k]]
        /\ blocks'[mined'[new[k]]] = After(k)
        /\ k > 1 => new[k - 1] < new[k] /\ mined'[new[k - 1]] < mined'[new[k]]
  BY <1>5, <1>9, <1>10
<1> QED
  BY <1>7, <1>11 DEF Backed, After, PausedOnly, BothOpen, TRANSACTION_PLAN, Surfaces

LEMMA DrillReceiptInv ==
  ASSUME OperationsInv, DrillReceipt, UNCHANGED <<smoke, run>>
  PROVE  OperationsInv'
<1>0. ChainTypeOK /\ MinedInOrder /\ drill \in Drills /\ DrillFits
      /\ drill.step = "wait" /\ Confirmed(drill.tx) /\ UNCHANGED chainVars
  BY DEF OperationsInv, OperationsTypeOK, DrillReceipt
<1>1. Grows /\ \A w : Silent(w)
  BY <1>0, StillGrows
<1>2. CASE drill' = FailSafe(drill)
  BY <1>0, <1>1, <1>2, FailSafeInv
<1>3. CASE /\ ReceiptAccepted(mined[drill.tx])
           /\ drill' = [drill EXCEPT !.step = "check", !.guard = 0, !.tx = 0,
                          !.receipts = Append(@, mined[drill.tx]), !.k = NextTransaction(@)]
  <2>1. drill.receipts \in Seq(Nat) /\ drill.k \in 1 .. 4 /\ Len(drill.receipts) < 4
        /\ drill.k = Len(drill.receipts) + 1 /\ Len(drill.receipts) \in Nat
    BY <1>0 DEF Drills, DrillFits
  <2>2. mined[drill.tx] \in Nat
    BY <1>0 DEF Confirmed, ChainTypeOK
  <2>3. PICK more \in Seq(Nat) : more = Append(drill.receipts, mined[drill.tx])
                                 /\ Len(more) = Len(drill.receipts) + 1
    <3>1. ASSUME NEW q \in Seq(Nat), NEW b \in Nat
          PROVE  Append(q, b) \in Seq(Nat) /\ Len(Append(q, b)) = Len(q) + 1
      OBVIOUS
    <3> QED
      BY <2>1, <2>2, <3>1
  <2>4. PICK k \in 1 .. 4 : k = NextTransaction(drill.k) /\ (drill.k < 4 => k = drill.k + 1)
    BY <2>1 DEF NextTransaction
  <2>5. drill' = [drill EXCEPT !.step = "check", !.guard = 0, !.tx = 0, !.receipts = more,
                                !.k = k]
    BY <1>3, <2>3, <2>4
  <2>6. /\ drill' \in Drills /\ drill'.step = "check" /\ drill'.receipts = more /\ drill'.k = k
        /\ drill'.outcome = drill.outcome
    BY <1>0, <2>5 DEF Drills, DrillSteps
  <2>7. Backed'
    BY <1>0, <1>3, <2>3, <2>6, ReceiptBacked
  <2>8. DrillFits'
    BY <1>0, <2>1, <2>3, <2>4, <2>6, <2>7 DEF DrillFits
  <2> QED
    BY <1>1, <2>6, <2>8, DrillBecomes
<1> QED
  BY <1>2, <1>3 DEF DrillReceipt, ReceiptBlock

LEMMA DrillPassInv ==
  ASSUME OperationsInv, DrillPass, UNCHANGED <<smoke, run>>
  PROVE  OperationsInv'
<1>0. ChainTypeOK /\ MinedInOrder /\ drill \in Drills /\ DrillFits
      /\ drill.step = "check" /\ Len(drill.receipts) = 4 /\ UNCHANGED chainVars
  BY DEF OperationsInv, OperationsTypeOK, DrillPass
<1>1. Grows /\ \A w : Silent(w)
  BY <1>0, StillGrows
<1>2. CASE drill' = FailSafe(drill)
  BY <1>0, <1>1, <1>2, FailSafeInv
<1>3. CASE /\ \A i \in 1 .. 4 : drill.receipts[i] > drill.target
           /\ drill' = [drill EXCEPT !.step = "passed"]
  <2>1. /\ drill' \in Drills /\ drill'.step = "passed" /\ drill'.receipts = drill.receipts
        /\ drill'.target = drill.target /\ drill'.outcome = drill.outcome
    BY <1>0, <1>3 DEF Drills, DrillSteps
  <2>2. Backed'
    BY <1>0, <1>1, <2>1, BackedStays DEF DrillFits
  <2>3. DrillFits'
    BY <1>0, <1>3, <2>1, <2>2 DEF DrillFits
  <2> QED
    BY <1>1, <2>1, <2>3, DrillBecomes
<1> QED
  BY <1>2, <1>3 DEF DrillPass

LEMMA DrillErrorInv ==
  ASSUME OperationsInv, DrillError, UNCHANGED <<smoke, run>>
  PROVE  OperationsInv'
<1>0. ChainTypeOK /\ MinedInOrder /\ UNCHANGED chainVars
  BY DEF OperationsInv, OperationsTypeOK, DrillError
<1>1. Grows /\ \A w : Silent(w)
  BY <1>0, StillGrows
<1> QED
  BY <1>1, FailSafeInv DEF DrillError

\* The fail-safe concludes on a surface; it opens none.
LEMMA ConcludedInv ==
  ASSUME OperationsInv, Grows, drill.step \in {"repause", "repauseWait"},
         NEW outcome \in {"alreadyPaused", "repaused", "failed"}, drill' = Concluded(outcome),
         UNCHANGED <<smoke, run>>, \A w \in Senders \ {DrillRun} : Silent(w),
         \A i \in 1 .. Len(txs'), s \in Surfaces :
           Opens(i, s, DrillRun)' => i \in 1 .. Len(txs) /\ Opens(i, s, DrillRun),
         outcome = "repaused" =>
           \A i \in 1 .. Len(txs) : Opens(i, drill.surface, DrillRun) => Over(i, Top)
  PROVE  OperationsInv'
<1>0. ChainTypeOK /\ drill \in Drills /\ DrillFits
  BY DEF OperationsInv, OperationsTypeOK
<1>1. drill.surface \in Surfaces /\ drill.outcome \in [Surfaces -> Outcomes]
  BY <1>0 DEF Drills
<1>2. /\ drill' \in Drills /\ drill'.step \in {"repause", "failed"}
      /\ drill'.outcome = [drill.outcome EXCEPT ![drill.surface] = outcome]
  <2>1. PICK o \in [Surfaces -> Outcomes] :
          o = [drill.outcome EXCEPT ![drill.surface] = outcome]
    BY <1>1 DEF Outcomes
  <2>2. PICK step \in {"repause", "failed"} :
          step = IF drill.surface = "controller" THEN "repause" ELSE "failed"
    OBVIOUS
  <2>3. drill' = [drill EXCEPT !.outcome = o, !.guard = 0, !.tx = 0, !.step = step,
                                !.surface = "marketplace"]
    BY <1>0, <2>1, <2>2 DEF Concluded, Drills
  <2>4. step \in DrillSteps /\ "marketplace" \in Surfaces
    BY DEF DrillSteps, Surfaces
  <2>5. drill' \in Drills
    <3>1. /\ drill'.outcome = o /\ drill'.guard = 0 /\ drill'.tx = 0 /\ drill'.step = step
          /\ drill'.surface = "marketplace" /\ drill'.k = drill.k
          /\ drill'.target = drill.target /\ drill'.receipts = drill.receipts
      BY <1>0, <2>3 DEF Drills
    <3>2. drill' = [step |-> step, k |-> drill.k, target |-> drill.target, guard |-> 0, tx |-> 0,
                    receipts |-> drill.receipts, surface |-> "marketplace", outcome |-> o]
      BY <1>0, <2>3 DEF Drills
    <3>3. drill.k \in 1 .. 4 /\ drill.target \in Nat /\ drill.receipts \in Seq(Nat)
      BY <1>0 DEF Drills
    <3> QED
      BY <2>4, <3>2, <3>3 DEF Drills
  <2>6. drill'.step = step /\ drill'.outcome = o
    BY <1>0, <2>3 DEF Drills
  <2> QED
    BY <2>1, <2>5, <2>6
<1>3. \A s \in Surfaces : drill'.outcome[s] = "repaused" =>
        \A i \in 1 .. Len(txs') : Opens(i, s, DrillRun)' => Over(i, Top)'
  <2> SUFFICES ASSUME NEW s \in Surfaces, drill'.outcome[s] = "repaused",
                      NEW i \in 1 .. Len(txs'), Opens(i, s, DrillRun)'
               PROVE  Over(i, Top)'
    OBVIOUS
  <2>1. i \in 1 .. Len(txs) /\ Opens(i, s, DrillRun)
    OBVIOUS
  <2>2. Over(i, Top)
    BY <1>0, <1>1, <1>2, <2>1 DEF DrillFits
  <2>3. i \in 1 .. Len(mined) /\ mined[i] \in Nat /\ mined[i] <= Len(blocks)
    BY <1>0, <2>1, <2>2 DEF Over, Top, ChainTypeOK
  <2> QED
    BY <1>0, <2>3 DEF Over, Top, Grows, ChainTypeOK
<1>4. DrillFits'
  BY <1>2, <1>3 DEF DrillFits
<1> QED
  BY <1>2, <1>4, DrillBecomes

LEMMA RepauseInv ==
  ASSUME OperationsInv, Repause, UNCHANGED <<smoke, run>>
  PROVE  OperationsInv'
<1>0. ChainTypeOK /\ MinedInOrder /\ drill \in Drills /\ DrillFits /\ drill.step = "repause"
      /\ drill.surface \in Surfaces
  BY DEF OperationsInv, OperationsTypeOK, Repause, Drills
<1>1. CASE drill' = Concluded("alreadyPaused") /\ UNCHANGED chainVars
  <2>1. Grows /\ \A w : Silent(w)
    BY <1>0, <1>1, StillGrows
  <2>2. \A i \in 1 .. Len(txs'), s \in Surfaces :
          Opens(i, s, DrillRun)' => i \in 1 .. Len(txs) /\ Opens(i, s, DrillRun)
    BY <1>0, <2>1, OpensStay
  <2> QED
    BY <1>0, <1>1, <2>1, <2>2, ConcludedInv
<1>2. CASE /\ Submit(drill.surface, TRUE, DrillRun)
           /\ \/ drill' = [drill EXCEPT !.step = "repauseWait", !.guard = Top, !.tx = Len(txs')]
              \/ drill' = Concluded("failed")
  <2>1. /\ Grows /\ mined' = mined /\ blocks' = blocks
        /\ Len(txs') = Len(txs) + 1
        /\ txs'[Len(txs) + 1] = [surface |-> drill.surface, paused |-> TRUE, by |-> DrillRun]
        /\ \A w \in Senders \ {DrillRun} : Silent(w)
    BY <1>0, <1>2, SubmitGrows
  <2>2. Len(txs) \in Nat /\ Len(blocks) \in Nat
    BY <1>0 DEF ChainTypeOK
  <2>3. \A i \in 1 .. Len(txs'), s \in Surfaces :
          Opens(i, s, DrillRun)' => i \in 1 .. Len(txs) /\ Opens(i, s, DrillRun)
    <3> SUFFICES ASSUME NEW i \in 1 .. Len(txs'), NEW s \in Surfaces, Opens(i, s, DrillRun)'
                 PROVE  i \in 1 .. Len(txs) /\ Opens(i, s, DrillRun)
      OBVIOUS
    <3>1. i # Len(txs) + 1
      <4> SUFFICES ASSUME i = Len(txs) + 1 PROVE FALSE
        OBVIOUS
      <4>1. [surface |-> drill.surface, paused |-> TRUE, by |-> DrillRun]
              = [surface |-> s, paused |-> FALSE, by |-> DrillRun]
        BY <2>1 DEF Opens
      <4> QED
        BY <4>1
    <3>2. i \in 1 .. Len(txs)
      BY <2>1, <2>2, <3>1
    <3> QED
      BY <3>2, <2>1 DEF Grows, Opens
  <2>4. CASE drill' = Concluded("failed")
    BY <1>0, <2>1, <2>3, <2>4, ConcludedInv
  <2>5. CASE drill' = [drill EXCEPT !.step = "repauseWait", !.guard = Top, !.tx = Len(txs')]
    <3>1. PICK n \in Nat : n = Len(txs')
      BY <2>1, <2>2
    <3>2. /\ drill' \in Drills /\ drill'.step = "repauseWait" /\ drill'.tx = Len(txs) + 1
          /\ drill'.outcome = drill.outcome
      BY <1>0, <2>1, <2>2, <2>5, <3>1 DEF Drills, DrillSteps, Top
    <3>3. \A i \in 1 .. Len(txs'), s \in Surfaces : Opens(i, s, DrillRun)' => i < drill'.tx
      BY <2>2, <2>3, <3>2
    <3>4. \A s \in Surfaces : drill'.outcome[s] = "repaused" =>
            \A i \in 1 .. Len(txs') : Opens(i, s, DrillRun)' => Over(i, Top)'
      BY <1>0, <2>1, <2>3, <3>2 DEF DrillFits, Over, Top
    <3>5. DrillFits'
      BY <2>1, <2>2, <3>2, <3>3, <3>4 DEF DrillFits
    <3> QED
      BY <2>1, <3>2, <3>5, DrillBecomes
  <2> QED
    BY <1>2, <2>4, <2>5
<1> QED
  BY <1>1, <1>2 DEF Repause

LEMMA RepauseConfirmInv ==
  ASSUME OperationsInv, RepauseConfirm, UNCHANGED <<smoke, run>>
  PROVE  OperationsInv'
<1>0. ChainTypeOK /\ MinedInOrder /\ drill \in Drills /\ DrillFits /\ drill.surface \in Surfaces
      /\ drill.step = "repauseWait" /\ Confirmed(drill.tx) /\ UNCHANGED chainVars
  BY DEF OperationsInv, OperationsTypeOK, RepauseConfirm, Drills
<1>1. Grows /\ \A w : Silent(w)
  BY <1>0, StillGrows
<1>2. \A i \in 1 .. Len(txs'), s \in Surfaces :
        Opens(i, s, DrillRun)' => i \in 1 .. Len(txs) /\ Opens(i, s, DrillRun)
  BY <1>0, <1>1, OpensStay
<1>3. \A i \in 1 .. Len(txs) : Opens(i, drill.surface, DrillRun) => Over(i, Top)
  <2> SUFFICES ASSUME NEW i \in 1 .. Len(txs), Opens(i, drill.surface, DrillRun)
               PROVE  Over(i, Top)
    OBVIOUS
  <2>1. i < drill.tx /\ drill.tx \in 1 .. Len(mined)
    BY <1>0 DEF DrillFits, Confirmed
  <2>2. i \in 1 .. Len(mined)
    BY <1>0, <2>1 DEF ChainTypeOK
  <2> QED
    BY <1>0, <2>2 DEF ChainTypeOK, Over, Top
<1>4. PICK outcome \in {"repaused", "failed"} : drill' = Concluded(outcome)
  BY DEF RepauseConfirm
<1> QED
  BY <1>0, <1>1, <1>2, <1>3, <1>4, ConcludedInv

LEMMA RepauseErrorInv ==
  ASSUME OperationsInv, RepauseError, UNCHANGED <<smoke, run>>
  PROVE  OperationsInv'
<1>0. ChainTypeOK /\ MinedInOrder /\ UNCHANGED chainVars
      /\ drill.step \in {"repause", "repauseWait"} /\ drill' = Concluded("failed")
  BY DEF OperationsInv, OperationsTypeOK, RepauseError
<1>1. Grows /\ \A w : Silent(w)
  BY <1>0, StillGrows
<1>2. \A i \in 1 .. Len(txs'), s \in Surfaces :
        Opens(i, s, DrillRun)' => i \in 1 .. Len(txs) /\ Opens(i, s, DrillRun)
  BY <1>0, <1>1, OpensStay
<1> QED
  BY <1>0, <1>1, <1>2, ConcludedInv

-----------------------------------------------------------------------------
(* The theorems *)

LEMMA OperationsStepInv == OperationsInv /\ [OperationsNext]_operationsVars => OperationsInv'
<1> SUFFICES ASSUME OperationsInv, [OperationsNext]_operationsVars PROVE OperationsInv'
  OBVIOUS
<1>1. CASE MineBlock /\ UNCHANGED <<smoke, run, drill>>
  BY <1>1, MineInv
<1>2. CASE /\ SmokeStep \/ \E v \in Verifications : InspectReadiness(v)
           /\ UNCHANGED <<run, drill>>
  BY <1>2, SmokeStepInv
<1>3. ASSUME NEW r \in AdminRuns, NEW action \in AdminActions, AdminStart(r, action),
             UNCHANGED <<smoke, drill>>
      PROVE  OperationsInv'
  BY <1>3, AdminStartInv
<1>4. ASSUME NEW r \in AdminRuns, AdminStep(r), UNCHANGED <<smoke, drill>>
      PROVE  OperationsInv'
  <2>1. CASE PerformOperation(r)
    BY <1>4, <2>1, PerformOperationInv
  <2>2. CASE ConfirmOperation(r)
    BY <1>4, <2>2, ConfirmOperationInv
  <2>3. CASE FinishActivation(r) \/ AdminError(r)
    BY <1>4, <2>3, FinishOrErrorInv
  <2>4. CASE RollbackSubmit(r)
    BY <1>4, <2>4, RollbackSubmitInv
  <2>5. CASE RollbackConfirm(r)
    BY <1>4, <2>5, RollbackConfirmInv
  <2>6. CASE RollbackError(r)
    BY <1>4, <2>6, RollbackErrorInv
  <2> QED
    BY <1>4, <2>1, <2>2, <2>3, <2>4, <2>5, <2>6 DEF AdminStep
<1>5. ASSUME NEW t \in Verifications, DrillStart(t), UNCHANGED <<smoke, run>>
      PROVE  OperationsInv'
  BY <1>5, DrillStartInv
<1>6. CASE DrillStep /\ UNCHANGED <<smoke, run>>
  <2>1. CASE DrillCheck
    BY <1>6, <2>1, DrillCheckInv
  <2>2. CASE DrillSubmit
    BY <1>6, <2>2, DrillSubmitInv
  <2>3. CASE DrillReceipt
    BY <1>6, <2>3, DrillReceiptInv
  <2>4. CASE DrillPass
    BY <1>6, <2>4, DrillPassInv
  <2>5. CASE DrillError
    BY <1>6, <2>5, DrillErrorInv
  <2>6. CASE Repause
    BY <1>6, <2>6, RepauseInv
  <2>7. CASE RepauseConfirm
    BY <1>6, <2>7, RepauseConfirmInv
  <2>8. CASE RepauseError
    BY <1>6, <2>8, RepauseErrorInv
  <2> QED
    BY <1>6, <2>1, <2>2, <2>3, <2>4, <2>5, <2>6, <2>7, <2>8 DEF DrillStep
<1>7. CASE UNCHANGED operationsVars
  <2>1. ChainTypeOK /\ MinedInOrder /\ smoke \in Smokes /\ SmokeFits
    BY DEF OperationsInv, OperationsTypeOK
  <2>2. UNCHANGED chainVars /\ UNCHANGED <<run, drill>> /\ UNCHANGED smoke
    BY <1>7 DEF operationsVars
  <2>3. Grows /\ \A w : Silent(w)
    BY <2>1, <2>2, StillGrows
  <2>4. smoke' \in Smokes /\ SmokeFits'
    BY <2>1, <2>2, <2>3, SmokeStays
  <2> QED
    BY <2>2, <2>3, <2>4, ToolsStay
<1>8. ASSUME OperationsNext PROVE OperationsInv'
  BY <1>1, <1>2, <1>3, <1>4, <1>5, <1>6, <1>8, Zenon DEF OperationsNext
<1> QED
  BY <1>7, <1>8

LEMMA OperationsAlways == OperationsSpec => []OperationsInv
<1> QED
  BY OperationsInitInv, OperationsStepInv, PTL DEF OperationsSpec

\* Every variable of the release tools keeps its type.
THEOREM OperationsTypeCorrect == OperationsSpec => []OperationsTypeOK
<1>1. OperationsInv => OperationsTypeOK
  BY DEF OperationsInv
<1> QED
  BY <1>1, OperationsAlways, PTL

\* A rollback, or a repause, that reports success leaves no open of its own run behind
\* (attemptOpenRollback, failSafeRepause): the transactions of the one account are mined in
\* the order of their nonces, so behind the pause nothing can follow.
THEOREM RollbackIsFinalCorrect == OperationsSpec => []RollbackIsFinal
<1>1. OperationsInv => RollbackIsFinal
  BY DEF OperationsInv, RunFits, Settled, DrillFits, RollbackIsFinal
<1> QED
  BY <1>1, OperationsAlways, PTL

\* A PASS of the drill reports four transactions of its plan in order and in different blocks
\* behind the verification of its target, whatever other runs did (executePauseTransaction).
THEOREM DrillReportIsTrueCorrect == OperationsSpec => []DrillReportIsTrue
<1>1. ASSUME OperationsInv, drill.step = "passed"
      PROVE  \E tx \in [1 .. 4 -> 1 .. Len(mined)] :
               \A k \in 1 .. 4 :
                 /\ txs[tx[k]].by = DrillRun
                 /\ [surface |-> txs[tx[k]].surface, paused |-> txs[tx[k]].paused] =
                      TRANSACTION_PLAN[k]
                 /\ drill.receipts[k] = mined[tx[k]]
                 /\ mined[tx[k]] > drill.target
                 /\ blocks[mined[tx[k]]] = After(k)
                 /\ k > 1 => tx[k - 1] < tx[k] /\ mined[tx[k - 1]] < mined[tx[k]]
  <2>1. Backed /\ Len(drill.receipts) = 4 /\ \A i \in 1 .. 4 : drill.receipts[i] > drill.target
    BY <1>1 DEF OperationsInv, DrillFits
  <2>2. PICK tx \in [1 .. 4 -> 1 .. Len(mined)] :
          \A k \in 1 .. 4 :
            /\ txs[tx[k]].by = DrillRun
            /\ [surface |-> txs[tx[k]].surface, paused |-> txs[tx[k]].paused] =
                 TRANSACTION_PLAN[k]
            /\ drill.receipts[k] = mined[tx[k]]
            /\ blocks[mined[tx[k]]] = After(k)
            /\ k > 1 => tx[k - 1] < tx[k] /\ mined[tx[k - 1]] < mined[tx[k]]
    BY <2>1 DEF Backed
  <2>3. \A k \in 1 .. 4 : mined[tx[k]] > drill.target
    BY <2>1, <2>2
  <2> QED
    BY <2>2, <2>3
<1>2. OperationsInv => DrillReportIsTrue
  BY <1>1 DEF DrillReportIsTrue
<1> QED
  BY <1>2, OperationsAlways, PTL

\* The operator's tool never opens the marketplace but behind a registration that was mined,
\* and final, while the marketplace was closed (verifyRegistrationSmoke).
THEOREM MarketAfterSmokeCorrect == OperationsSpec => []MarketAfterSmoke
<1>1. OperationsInv => MarketAfterSmoke
  BY DEF OperationsInv
<1> QED
  BY <1>1, OperationsAlways, PTL

-----------------------------------------------------------------------------
(* The switches are what the transactions made them *)

Less == {p \in Nat \X Nat : p[1] < p[2]}

LEMMA LessWellFounded == IsWellFoundedOn(Less, Nat)
  BY NatLessThanWellFounded, Zenon DEF OpToRel, Less

LEMMA LastOne ==
  ASSUME NEW n \in Nat, NEW S \in SUBSET (1 .. n), S # {}
  PROVE  \E i \in S : \A j \in S : j <= i
<1> DEFINE Distance == {n - i : i \in S}
<1>1. Distance \subseteq Nat
  BY SMT
<1>2. Distance # {}
  OBVIOUS
<1>3. PICK d \in Distance : \A e \in Distance : ~(<<e, d>> \in Less)
  <2> HIDE DEF Distance
  <2> QED
    BY <1>1, <1>2, LessWellFounded, WFMin
<1>4. \A e \in Distance : ~(e < d)
  <2> HIDE DEF Distance
  <2> QED
    BY <1>1, <1>3 DEF Less
<1>5. PICK i \in S : d = n - i
  OBVIOUS
<1>6. ASSUME NEW j \in S PROVE j <= i
  <2>1. n - j \in Distance
    OBVIOUS
  <2>2. ~(n - j < n - i)
    BY <2>1, <1>4, <1>5
  <2> QED
    BY <2>2
<1> QED
  BY <1>6

\* Of the transactions on a surface that are mined by block b, i is the last.
LastWord(i, s, b) ==
  /\ mined[i] <= b /\ txs[i].surface = s
  /\ \A j \in 1 .. Len(mined) : mined[j] <= b /\ txs[j].surface = s => j <= i

\* In every block, a switch is where its last transaction left it, or at its start.
SwitchFollowsChain ==
  \A b \in 1 .. Len(blocks), s \in Surfaces :
    \/ \E i \in 1 .. Len(mined) : LastWord(i, s, b) /\ blocks[b][s] = txs[i].paused
    \/ /\ \A i \in 1 .. Len(mined) : mined[i] <= b => txs[i].surface # s
       /\ blocks[b][s] = blocks[1][s]

\* A surface that the fail-safe reports as repaused has a pause of the drill behind all
\* its opens.
RepauseFits ==
  /\ drill.step = "repauseWait" =>
       txs[drill.tx] = [surface |-> drill.surface, paused |-> TRUE, by |-> DrillRun]
  /\ \A s \in Surfaces : drill.outcome[s] = "repaused" =>
       \E j \in 1 .. Len(mined) :
         /\ txs[j] = [surface |-> s, paused |-> TRUE, by |-> DrillRun]
         /\ \A i \in 1 .. Len(txs) : Opens(i, s, DrillRun) => i < j

SwitchInv == SwitchFollowsChain /\ RepauseFits

\* Blocks that are there keep their switches: what is mined later is in later blocks.
LEMMA OldBlocks ==
  ASSUME Grows, ChainTypeOK, SwitchFollowsChain, NEW b \in 1 .. Len(blocks), NEW s \in Surfaces
  PROVE  \/ \E i \in 1 .. Len(mined) :
              LastWord(i, s, b)' /\ i \in 1 .. Len(mined') /\ blocks'[b][s] = txs'[i].paused
         \/ /\ \A i \in 1 .. Len(mined') : mined'[i] <= b => txs'[i].surface # s
            /\ blocks'[b][s] = blocks'[1][s]
<1>1. /\ Len(mined) \in Nat /\ Len(mined') \in Nat /\ Len(txs) \in Nat /\ Len(blocks) \in Nat
      /\ Len(mined) <= Len(mined') /\ Len(mined) <= Len(txs) /\ Len(mined') <= Len(txs')
      /\ 1 \in 1 .. Len(blocks)
      /\ \A i \in 1 .. Len(mined') : mined'[i] \in Nat
  BY DEF Grows, ChainTypeOK, Top
<1>2. \A i \in 1 .. Len(mined) : mined'[i] = mined[i] /\ txs'[i] = txs[i]
  BY <1>1 DEF Grows
<1>3. \A i \in 1 .. Len(mined') : mined'[i] <= b => i \in 1 .. Len(mined)
  BY <1>1 DEF Grows
<1>4. blocks'[b] = blocks[b] /\ blocks'[1] = blocks[1]
  BY <1>1 DEF Grows
<1>5. CASE \E i \in 1 .. Len(mined) : LastWord(i, s, b) /\ blocks[b][s] = txs[i].paused
  <2>1. PICK i \in 1 .. Len(mined) : LastWord(i, s, b) /\ blocks[b][s] = txs[i].paused
    BY <1>5
  <2>2. LastWord(i, s, b)'
    BY <1>2, <1>3, <2>1 DEF LastWord
  <2> QED
    BY <1>1, <1>2, <1>4, <2>1, <2>2
<1>6. CASE /\ \A i \in 1 .. Len(mined) : mined[i] <= b => txs[i].surface # s
           /\ blocks[b][s] = blocks[1][s]
  BY <1>2, <1>3, <1>4, <1>6
<1> QED
  BY <1>5, <1>6 DEF SwitchFollowsChain

LEMMA SwitchStays ==
  ASSUME Grows, ChainTypeOK, SwitchFollowsChain, Len(blocks') = Len(blocks)
  PROVE  SwitchFollowsChain'
  BY OldBlocks DEF SwitchFollowsChain

\* The new block: its transactions on a surface, the last of them deciding, or none.
LEMMA NewBlockSwitch ==
  ASSUME ChainTypeOK, MinedInOrder, SwitchFollowsChain, MineBlock
  PROVE  SwitchFollowsChain'
<1>0. Grows /\ txs' = txs
  BY MineGrows DEF MineBlock
<1>1. PICK n \in Len(mined) .. Len(txs) :
        /\ mined' = [i \in 1 .. n |-> IF i <= Len(mined) THEN mined[i] ELSE Top + 1]
        /\ blocks' = Append(blocks, [s \in Surfaces |-> SwitchAfter(s, (Len(mined) + 1) .. n)])
  BY DEF MineBlock
<1>2. n \in Nat /\ Len(mined) <= n /\ n <= Len(txs) /\ Len(blocks) \in Nat /\ Len(mined) \in Nat
      /\ Len(txs) \in Nat /\ Len(blocks) >= 1
  BY DEF ChainTypeOK, Top
<1>3. Len(mined') = n /\ \A i \in 1 .. n : mined'[i] \in Nat
  BY <1>0, <1>1 DEF Grows, ChainTypeOK
<1>4. \A i \in 1 .. n : mined'[i] = IF i <= Len(mined) THEN mined[i] ELSE Len(blocks) + 1
  BY <1>1 DEF Top
<1>5. /\ Len(blocks') = Len(blocks) + 1 /\ blocks'[1] = blocks[1]
      /\ \A s \in Surfaces :
           blocks'[Len(blocks) + 1][s] = SwitchAfter(s, (Len(mined) + 1) .. n)
  BY <1>1, <1>2 DEF ChainTypeOK
<1>6. \A i \in 1 .. Len(mined) : mined[i] \in Nat /\ mined[i] <= Len(blocks)
  BY DEF ChainTypeOK, Top
<1>7. \A i \in 1 .. n : mined'[i] <= Len(blocks) + 1
  BY <1>2, <1>4, <1>6
<1>8. PICK b \in Nat : b = Len(blocks) + 1
  BY <1>2
<1>9. ASSUME NEW s \in Surfaces
      PROVE  \/ \E i \in 1 .. n : LastWord(i, s, b)' /\ blocks'[b][s] = txs'[i].paused
             \/ /\ \A i \in 1 .. n : mined'[i] <= b => txs'[i].surface # s
                /\ blocks'[b][s] = blocks'[1][s]
  <2> DEFINE own == {i \in (Len(mined) + 1) .. n : txs[i].surface = s}
  <2>1. blocks'[b][s] = IF own = {} THEN blocks[Top][s]
                        ELSE \E i \in own : txs[i].paused /\ \A j \in own : j <= i
    BY <1>5, <1>8 DEF SwitchAfter
  <2>2. CASE own = {}
    <3>1. \A i \in 1 .. n : txs[i].surface = s => i \in 1 .. Len(mined)
      BY <1>2, <2>2
    <3>2. Top \in 1 .. Len(blocks) /\ blocks'[b][s] = blocks[Top][s]
      BY <1>2, <2>1, <2>2 DEF Top
    <3>3. CASE \E i \in 1 .. Len(mined) : LastWord(i, s, Top) /\ blocks[Top][s] = txs[i].paused
      <4>1. PICK i \in 1 .. Len(mined) : LastWord(i, s, Top) /\ blocks[Top][s] = txs[i].paused
        BY <3>3
      <4>2. i \in 1 .. n /\ txs'[i].surface = s /\ mined'[i] <= b
        BY <1>0, <1>2, <1>7, <1>8, <4>1 DEF LastWord
      <4>3. ASSUME NEW j \in 1 .. n, txs'[j].surface = s PROVE j <= i
        BY <1>0, <1>6, <3>1, <4>1, <4>3 DEF LastWord, Top
      <4>4. LastWord(i, s, b)'
        BY <1>3, <4>2, <4>3 DEF LastWord
      <4> QED
        BY <1>0, <3>2, <4>1, <4>2, <4>4
    <3>4. CASE /\ \A i \in 1 .. Len(mined) : mined[i] <= Top => txs[i].surface # s
               /\ blocks[Top][s] = blocks[1][s]
      <4>1. \A i \in 1 .. n : txs'[i].surface # s
        BY <1>0, <1>6, <3>1, <3>4 DEF Top
      <4> QED
        BY <1>5, <3>2, <3>4, <4>1
    <3> QED
      BY <3>2, <3>3, <3>4 DEF SwitchFollowsChain
  <2>3. CASE own # {}
    <3>1. PICK i \in own : \A j \in own : j <= i
      <4>1. own \in SUBSET (1 .. n)
        BY <1>2
      <4> QED
        BY <1>2, <2>3, <4>1, LastOne
    <3>2. i \in 1 .. n /\ i > Len(mined) /\ i \in 1 .. Len(txs) /\ txs[i].surface = s
      BY <1>2, <3>1
    <3>3. txs[i].paused \in BOOLEAN
      <4>1. txs[i] \in Txs
        BY <3>2 DEF ChainTypeOK
      <4> QED
        BY <4>1 DEF Txs
    <3>4. \A k \in own : (\A j \in own : j <= k) => k = i
      BY <1>2, <3>1
    <3>5. blocks'[b][s] = txs[i].paused
      <4>1. blocks'[b][s] = (\E k \in own : txs[k].paused /\ \A j \in own : j <= k)
        BY <2>1, <2>3
      <4>2. (\E k \in own : txs[k].paused /\ \A j \in own : j <= k) <=> txs[i].paused = TRUE
        <5> HIDE DEF own
        <5> QED
          BY <3>1, <3>3, <3>4
      <4> QED
        BY <3>3, <4>1, <4>2, Zenon
    <3>6. ASSUME NEW j \in 1 .. n, txs'[j].surface = s PROVE j <= i
      <4>1. CASE j <= Len(mined)
        BY <1>2, <3>2, <4>1
      <4>2. CASE j > Len(mined)
        BY <1>0, <1>2, <3>1, <3>6, <4>2
      <4> QED
        BY <1>2, <4>1, <4>2
    <3>7. LastWord(i, s, b)'
      BY <1>0, <1>3, <1>7, <1>8, <3>2, <3>6 DEF LastWord
    <3> QED
      BY <1>0, <3>2, <3>5, <3>7
  <2> QED
    BY <2>2, <2>3
<1>10. SUFFICES ASSUME NEW c \in 1 .. Len(blocks'), NEW s \in Surfaces
                PROVE  \/ \E i \in 1 .. Len(mined') :
                            LastWord(i, s, c)' /\ blocks'[c][s] = txs'[i].paused
                       \/ /\ \A i \in 1 .. Len(mined') : mined'[i] <= c => txs'[i].surface # s
                          /\ blocks'[c][s] = blocks'[1][s]
  BY DEF SwitchFollowsChain
<1>11. CASE c = b
  BY <1>3, <1>9, <1>11
<1>12. CASE c \in 1 .. Len(blocks)
  BY <1>0, <1>12, OldBlocks
<1> QED
  BY <1>2, <1>5, <1>8, <1>11, <1>12

\* The pause behind the opens of a repaused surface stays behind them while the drill
\* opens nothing more.
LEMMA PauseStaysBehind ==
  ASSUME Grows, ChainTypeOK, NEW s \in Surfaces,
         \A i \in 1 .. Len(txs') :
           Opens(i, s, DrillRun)' => i \in 1 .. Len(txs) /\ Opens(i, s, DrillRun),
         NEW j \in 1 .. Len(mined), txs[j] = [surface |-> s, paused |-> TRUE, by |-> DrillRun],
         \A i \in 1 .. Len(txs) : Opens(i, s, DrillRun) => i < j
  PROVE  \E k \in 1 .. Len(mined') :
           /\ txs'[k] = [surface |-> s, paused |-> TRUE, by |-> DrillRun]
           /\ \A i \in 1 .. Len(txs') : Opens(i, s, DrillRun)' => i < k
<1>1. Len(mined) \in Nat /\ Len(mined') \in Nat /\ Len(txs) \in Nat
      /\ Len(mined) <= Len(mined') /\ Len(mined) <= Len(txs)
  BY DEF Grows, ChainTypeOK
<1>2. j \in 1 .. Len(mined') /\ j \in 1 .. Len(txs)
  BY <1>1
<1>3. txs'[j] = txs[j]
  BY <1>2 DEF Grows
<1> QED
  BY <1>2, <1>3

LEMMA RepauseConcluded ==
  ASSUME OperationsInv, RepauseFits, Grows, drill \in Drills,
         NEW outcome \in {"alreadyPaused", "repaused", "failed"}, drill' = Concluded(outcome),
         \A i \in 1 .. Len(txs'), s \in Surfaces :
           Opens(i, s, DrillRun)' => i \in 1 .. Len(txs) /\ Opens(i, s, DrillRun),
         outcome = "repaused" =>
           /\ drill.tx \in 1 .. Len(mined)
           /\ txs[drill.tx] = [surface |-> drill.surface, paused |-> TRUE, by |-> DrillRun]
           /\ \A i \in 1 .. Len(txs) : Opens(i, drill.surface, DrillRun) => i < drill.tx
  PROVE  RepauseFits'
<1>1. drill.surface \in Surfaces /\ drill.outcome \in [Surfaces -> Outcomes]
  BY DEF Drills
<1>2. drill'.step # "repauseWait"
      /\ drill'.outcome = [drill.outcome EXCEPT ![drill.surface] = outcome]
  BY <1>1 DEF Concluded, Drills
<1>3. ChainTypeOK
  BY DEF OperationsInv, OperationsTypeOK
<1>4. ASSUME NEW s \in Surfaces, drill'.outcome[s] = "repaused"
      PROVE  \E j \in 1 .. Len(mined) :
               /\ txs[j] = [surface |-> s, paused |-> TRUE, by |-> DrillRun]
               /\ \A i \in 1 .. Len(txs) : Opens(i, s, DrillRun) => i < j
  <2>1. CASE s = drill.surface
    BY <1>1, <1>2, <1>4, <2>1
  <2>2. CASE s # drill.surface
    BY <1>1, <1>2, <1>4, <2>2 DEF RepauseFits
  <2> QED
    BY <2>1, <2>2
<1> QED
  BY <1>2, <1>3, <1>4, PauseStaysBehind DEF RepauseFits

LEMMA RepauseStep ==
  ASSUME OperationsInv, RepauseFits, Repause
  PROVE  RepauseFits'
<1>0. ChainTypeOK /\ MinedInOrder /\ drill \in Drills /\ DrillFits /\ drill.step = "repause"
      /\ drill.surface \in Surfaces
  BY DEF OperationsInv, OperationsTypeOK, Repause, Drills
<1>1. CASE drill' = Concluded("alreadyPaused") /\ UNCHANGED chainVars
  <2>1. Grows /\ \A w : Silent(w)
    BY <1>0, <1>1, StillGrows
  <2>2. \A i \in 1 .. Len(txs'), s \in Surfaces :
          Opens(i, s, DrillRun)' => i \in 1 .. Len(txs) /\ Opens(i, s, DrillRun)
    BY <1>0, <2>1, OpensStay
  <2> QED
    BY <1>0, <1>1, <2>1, <2>2, RepauseConcluded
<1>2. CASE /\ Submit(drill.surface, TRUE, DrillRun)
           /\ \/ drill' = [drill EXCEPT !.step = "repauseWait", !.guard = Top, !.tx = Len(txs')]
              \/ drill' = Concluded("failed")
  <2>1. /\ Grows /\ mined' = mined
        /\ Len(txs') = Len(txs) + 1
        /\ txs'[Len(txs) + 1] = [surface |-> drill.surface, paused |-> TRUE, by |-> DrillRun]
    BY <1>0, <1>2, SubmitGrows
  <2>2. Len(txs) \in Nat
    BY <1>0 DEF ChainTypeOK
  <2>3. \A i \in 1 .. Len(txs'), s \in Surfaces :
          Opens(i, s, DrillRun)' => i \in 1 .. Len(txs) /\ Opens(i, s, DrillRun)
    <3> SUFFICES ASSUME NEW i \in 1 .. Len(txs'), NEW s \in Surfaces, Opens(i, s, DrillRun)'
                 PROVE  i \in 1 .. Len(txs) /\ Opens(i, s, DrillRun)
      OBVIOUS
    <3>1. i # Len(txs) + 1
      <4> SUFFICES ASSUME i = Len(txs) + 1 PROVE FALSE
        OBVIOUS
      <4>1. [surface |-> drill.surface, paused |-> TRUE, by |-> DrillRun]
              = [surface |-> s, paused |-> FALSE, by |-> DrillRun]
        BY <2>1 DEF Opens
      <4> QED
        BY <4>1
    <3>2. i \in 1 .. Len(txs)
      BY <2>1, <2>2, <3>1
    <3> QED
      BY <3>2, <2>1 DEF Grows, Opens
  <2>4. CASE drill' = Concluded("failed")
    BY <1>0, <2>1, <2>3, <2>4, RepauseConcluded
  <2>5. CASE drill' = [drill EXCEPT !.step = "repauseWait", !.guard = Top, !.tx = Len(txs')]
    <3>1. drill'.tx = Len(txs) + 1 /\ drill'.surface = drill.surface
          /\ drill'.outcome = drill.outcome
      BY <1>0, <2>1, <2>5 DEF Drills
    <3>2. \A s \in Surfaces : drill'.outcome[s] = "repaused" =>
            \E j \in 1 .. Len(mined') :
              /\ txs'[j] = [surface |-> s, paused |-> TRUE, by |-> DrillRun]
              /\ \A i \in 1 .. Len(txs') : Opens(i, s, DrillRun)' => i < j
      BY <1>0, <2>1, <2>3, <3>1, PauseStaysBehind DEF RepauseFits
    <3> QED
      BY <2>1, <3>1, <3>2 DEF RepauseFits
  <2> QED
    BY <1>2, <2>4, <2>5
<1> QED
  BY <1>1, <1>2 DEF Repause

LEMMA RepauseEnds ==
  ASSUME OperationsInv, RepauseFits, RepauseConfirm \/ RepauseError
  PROVE  RepauseFits'
<1>0. ChainTypeOK /\ MinedInOrder /\ drill \in Drills /\ DrillFits /\ UNCHANGED chainVars
      /\ drill.surface \in Surfaces
  BY DEF OperationsInv, OperationsTypeOK, RepauseConfirm, RepauseError, Drills
<1>1. Grows /\ \A w : Silent(w)
  BY <1>0, StillGrows
<1>2. \A i \in 1 .. Len(txs'), s \in Surfaces :
        Opens(i, s, DrillRun)' => i \in 1 .. Len(txs) /\ Opens(i, s, DrillRun)
  BY <1>0, <1>1, OpensStay
<1>3. CASE RepauseConfirm
  <2>1. PICK outcome \in {"repaused", "failed"} : drill' = Concluded(outcome)
    BY <1>3 DEF RepauseConfirm
  <2>2. /\ drill.tx \in 1 .. Len(mined)
        /\ txs[drill.tx] = [surface |-> drill.surface, paused |-> TRUE, by |-> DrillRun]
        /\ \A i \in 1 .. Len(txs) : Opens(i, drill.surface, DrillRun) => i < drill.tx
    BY <1>0, <1>3 DEF RepauseConfirm, Confirmed, RepauseFits, DrillFits
  <2> QED
    BY <1>0, <1>1, <1>2, <2>1, <2>2, RepauseConcluded
<1>4. CASE RepauseError
  BY <1>0, <1>1, <1>2, <1>4, RepauseConcluded DEF RepauseError
<1> QED
  BY <1>3, <1>4

\* Before the fail-safe nothing is reported of a surface.
LEMMA BeforeRepause ==
  ASSUME OperationsInv,
         \/ \E t \in Verifications : DrillStart(t)
         \/ DrillCheck \/ DrillSubmit \/ DrillReceipt \/ DrillPass \/ DrillError
  PROVE  RepauseFits'
<1>1. drill \in Drills /\ DrillFits
  BY DEF OperationsInv, OperationsTypeOK
<1>2. drill.step \in {"idle", "check", "send", "wait"}
  BY DEF DrillStart, DrillCheck, DrillSubmit, DrillReceipt, DrillPass, DrillError
<1>3. \A s \in Surfaces : drill.outcome[s] = "none"
  BY <1>1, <1>2 DEF DrillFits
<1>4. drill'.outcome = drill.outcome /\ drill'.step # "repauseWait"
  BY <1>1, <1>2 DEF DrillStart, DrillCheck, DrillSubmit, DrillReceipt, DrillPass, DrillError,
     FailSafe, Drills
<1> QED
  BY <1>3, <1>4 DEF RepauseFits

LEMMA DrillAway ==
  ASSUME OperationsInv, RepauseFits, Grows, UNCHANGED drill, Silent(DrillRun)
  PROVE  RepauseFits'
<1>0. ChainTypeOK /\ drill \in Drills /\ DrillFits
  BY DEF OperationsInv, OperationsTypeOK
<1>1. \A i \in 1 .. Len(txs'), s \in Surfaces :
        Opens(i, s, DrillRun)' => i \in 1 .. Len(txs) /\ Opens(i, s, DrillRun)
  BY <1>0, OpensStay
<1>2. \A s \in Surfaces : drill'.outcome[s] = "repaused" =>
        \E j \in 1 .. Len(mined') :
          /\ txs'[j] = [surface |-> s, paused |-> TRUE, by |-> DrillRun]
          /\ \A i \in 1 .. Len(txs') : Opens(i, s, DrillRun)' => i < j
  BY <1>0, <1>1, PauseStaysBehind DEF RepauseFits
<1>3. drill'.step = "repauseWait" => txs'[drill'.tx] = txs[drill.tx]
  BY <1>0 DEF DrillFits, Grows
<1> QED
  BY <1>2, <1>3 DEF RepauseFits

\* What the steps of the tools do to the chain.
LEMMA ToolsGrow ==
  ASSUME OperationsInv, NEW r \in AdminRuns, AdminStep(r)
  PROVE  Grows /\ Len(blocks') = Len(blocks) /\ Silent(DrillRun)
<1>0. ChainTypeOK /\ MinedInOrder /\ run \in [AdminRuns -> Runs] /\ r \in Senders
      /\ r # DrillRun /\ DrillRun \in Senders
  BY DEF OperationsInv, OperationsTypeOK
<1>1. CASE UNCHANGED chainVars
  BY <1>0, <1>1, StillGrows DEF chainVars
<1>2. ASSUME NEW s \in Surfaces, NEW p \in BOOLEAN, Submit(s, p, r)
      PROVE  Grows /\ Len(blocks') = Len(blocks) /\ Silent(DrillRun)
  <2>1. PICK who \in Senders : who = r
    BY <1>0
  <2>2. Submit(s, p, who)
    BY <1>2, <2>1
  <2>3. ChainTypeOK /\ MinedInOrder
    BY <1>0
  <2>4. Grows /\ blocks' = blocks /\ \A w \in Senders \ {who} : Silent(w)
    BY <2>2, <2>3, SubmitGrows
  <2> QED
    BY <1>0, <2>1, <2>4
<1>3. CASE PerformOperation(r)
  <2>1. run[r].todo \in Seq(Items)
    BY <1>0 DEF Runs
  <2>2. Head(run[r].todo) \in Items
    BY <1>3, <2>1 DEF PerformOperation
  <2>3. Head(run[r].todo).surface \in Surfaces /\ Head(run[r].todo).paused \in BOOLEAN
    BY <2>2 DEF Items
  <2> QED
    BY <1>1, <1>2, <1>3, <2>3 DEF PerformOperation
<1>4. CASE RollbackSubmit(r)
  <2>1. run[r].target \in Surfaces
    BY <1>4 DEF OperationsInv, RunFits, RollbackSubmit
  <2> QED
    BY <1>1, <1>2, <1>4, <2>1 DEF RollbackSubmit
<1> QED
  BY <1>1, <1>3, <1>4 DEF AdminStep, ConfirmOperation, FinishActivation, AdminError,
     RollbackConfirm, RollbackError

LEMMA DrillPlanFits ==
  ASSUME NEW k \in 1 .. 4
  PROVE  TRANSACTION_PLAN[k].surface \in Surfaces /\ TRANSACTION_PLAN[k].paused \in BOOLEAN
<1>1. /\ TRANSACTION_PLAN[1] = [surface |-> "controller", paused |-> TRUE]
      /\ TRANSACTION_PLAN[2] = [surface |-> "controller", paused |-> FALSE]
      /\ TRANSACTION_PLAN[3] = [surface |-> "marketplace", paused |-> TRUE]
      /\ TRANSACTION_PLAN[4] = [surface |-> "marketplace", paused |-> FALSE]
  BY DEF TRANSACTION_PLAN
<1>2. k = 1 \/ k = 2 \/ k = 3 \/ k = 4
  OBVIOUS
<1>3. \E s \in Surfaces, p \in BOOLEAN : TRANSACTION_PLAN[k] = [surface |-> s, paused |-> p]
  <2>1. "controller" \in Surfaces /\ "marketplace" \in Surfaces
    BY DEF Surfaces
  <2> QED
    BY <1>1, <1>2, <2>1, Zenon
<1> QED
  BY <1>3

LEMMA DrillGrows ==
  ASSUME OperationsInv, DrillStep \/ \E t \in Verifications : DrillStart(t)
  PROVE  Grows /\ Len(blocks') = Len(blocks)
<1>0. ChainTypeOK /\ MinedInOrder /\ drill \in Drills
  BY DEF OperationsInv, OperationsTypeOK
<1>1. CASE UNCHANGED chainVars
  BY <1>0, <1>1, StillGrows DEF chainVars
<1>2. ASSUME NEW s \in Surfaces, NEW p \in BOOLEAN, Submit(s, p, DrillRun)
      PROVE  Grows /\ Len(blocks') = Len(blocks)
  <2>1. Grows /\ blocks' = blocks
    BY <1>0, <1>2, SubmitGrows
  <2> QED
    BY <2>1
<1>3. CASE DrillSubmit
  <2>1. drill.k \in 1 .. 4
    BY <1>0 DEF Drills
  <2>2. TRANSACTION_PLAN[drill.k].surface \in Surfaces
        /\ TRANSACTION_PLAN[drill.k].paused \in BOOLEAN
    BY <2>1, DrillPlanFits
  <2> QED
    BY <1>2, <1>3, <2>2 DEF DrillSubmit
<1>4. CASE Repause
  <2>1. drill.surface \in Surfaces
    BY <1>0 DEF Drills
  <2> QED
    BY <1>1, <1>2, <1>4, <2>1 DEF Repause
<1> QED
  BY <1>1, <1>3, <1>4 DEF DrillStart, DrillStep, DrillCheck, DrillReceipt, DrillPass, DrillError,
     RepauseConfirm, RepauseError

LEMMA SwitchInit == OperationsInit => SwitchInv
<1> SUFFICES ASSUME OperationsInit PROVE SwitchInv
  OBVIOUS
<1>1. Len(blocks) = 1 /\ mined = <<>> /\ Len(mined) = 0
  BY DEF OperationsInit, ChainInit
<1>2. SwitchFollowsChain
  BY <1>1 DEF SwitchFollowsChain
<1>3. RepauseFits
  BY DEF OperationsInit, DrillInit, RepauseFits
<1> QED
  BY <1>2, <1>3 DEF SwitchInv

LEMMA SwitchStep == OperationsInv /\ SwitchInv /\ [OperationsNext]_operationsVars => SwitchInv'
<1> SUFFICES ASSUME OperationsInv, SwitchInv, [OperationsNext]_operationsVars PROVE SwitchInv'
  OBVIOUS
<1>0. ChainTypeOK /\ MinedInOrder /\ SwitchFollowsChain /\ RepauseFits
  BY DEF OperationsInv, OperationsTypeOK, SwitchInv
<1>1. CASE MineBlock /\ UNCHANGED <<smoke, run, drill>>
  <2>1. Grows /\ Silent(DrillRun)
    BY <1>0, <1>1, MineGrows DEF MineBlock, Silent
  <2> QED
    BY <1>0, <1>1, <2>1, NewBlockSwitch, DrillAway DEF SwitchInv
<1>2. CASE UNCHANGED chainVars /\ UNCHANGED drill
  <2>1. Grows /\ Silent(DrillRun) /\ Len(blocks') = Len(blocks)
    BY <1>0, <1>2, StillGrows DEF chainVars
  <2> QED
    BY <1>0, <1>2, <2>1, SwitchStays, DrillAway DEF SwitchInv
<1>3. CASE /\ SmokeStep \/ \E v \in Verifications : InspectReadiness(v)
           /\ UNCHANGED <<run, drill>>
  <2>1. UNCHANGED chainVars
    BY <1>3 DEF SmokeStep, InspectReadiness, RegistrationMined, CaptureEvidence, SmokeFails
  <2> QED
    BY <1>2, <1>3, <2>1
<1>4. ASSUME NEW r \in AdminRuns, NEW action \in AdminActions, AdminStart(r, action),
             UNCHANGED <<smoke, drill>>
      PROVE  SwitchInv'
  <2>1. UNCHANGED chainVars
    BY <1>4 DEF AdminStart
  <2> QED
    BY <1>2, <1>4, <2>1
<1>5. ASSUME NEW r \in AdminRuns, AdminStep(r), UNCHANGED <<smoke, drill>>
      PROVE  SwitchInv'
  BY <1>0, <1>5, ToolsGrow, SwitchStays, DrillAway DEF SwitchInv
<1>6. ASSUME NEW t \in Verifications, DrillStart(t) PROVE SwitchInv'
  BY <1>0, <1>6, DrillGrows, SwitchStays, BeforeRepause DEF SwitchInv
<1>7. CASE DrillStep
  <2>1. SwitchFollowsChain'
    BY <1>0, <1>7, DrillGrows, SwitchStays
  <2>2. RepauseFits'
    BY <1>0, <1>7, BeforeRepause, RepauseStep, RepauseEnds DEF DrillStep
  <2> QED
    BY <2>1, <2>2 DEF SwitchInv
<1>8. CASE UNCHANGED operationsVars
  BY <1>2, <1>8 DEF operationsVars
<1>9. ASSUME OperationsNext PROVE SwitchInv'
  BY <1>1, <1>3, <1>4, <1>5, <1>6, <1>7, <1>9, Zenon DEF OperationsNext
<1> QED
  BY <1>8, <1>9

LEMMA SwitchAlways == OperationsSpec => []SwitchInv
<1> QED
  BY SwitchInit, SwitchStep, OperationsAlways, PTL DEF OperationsSpec

\* Another run opened surface s behind transaction i, in a block up to b.
OpenedByOther(s, b, i, who) ==
  \E j \in (i + 1) .. Len(mined) :
    mined[j] <= b /\ txs[j].surface = s /\ ~txs[j].paused /\ txs[j].by # who

\* The word of a run that rolled back, and of the fail-safe: a surface that they report as
\* paused and that is open later was opened by somebody else, behind their last open.
StaysPaused ==
  /\ \A r \in AdminRuns : run[r].report = "rolledBack" =>
       \A b \in run[r].at .. Top, s \in Surfaces, i \in 1 .. Len(txs) :
         Opens(i, s, r) /\ ~blocks[b][s] => OpenedByOther(s, b, i, r)
  /\ \A s \in Surfaces : drill.outcome[s] = "repaused" /\ ~blocks[Top][s] =>
       \E i \in 1 .. Len(mined) :
         /\ txs[i] = [surface |-> s, paused |-> TRUE, by |-> DrillRun]
         /\ OpenedByOther(s, Top, i, DrillRun)

\* A surface with a mined pause of who behind all opens of who is open only by another.
LEMMA OpenedBehind ==
  ASSUME ChainTypeOK, SwitchFollowsChain, NEW s \in Surfaces, NEW who \in Senders,
         NEW b \in 1 .. Len(blocks), ~blocks[b][s],
         NEW j \in 1 .. Len(mined), mined[j] <= b,
         txs[j] = [surface |-> s, paused |-> TRUE, by |-> who],
         \A i \in 1 .. Len(txs) : Opens(i, s, who) => i < j
  PROVE  OpenedByOther(s, b, j, who)
<1>1. txs[j].surface = s /\ txs[j].paused = TRUE
  OBVIOUS
<1>2. PICK i \in 1 .. Len(mined) : LastWord(i, s, b) /\ blocks[b][s] = txs[i].paused
  BY <1>1 DEF SwitchFollowsChain
<1>3. j <= i /\ i # j /\ ~txs[i].paused /\ mined[i] <= b /\ txs[i].surface = s
  BY <1>1, <1>2 DEF LastWord
<1>4. i \in 1 .. Len(txs) /\ Len(mined) \in Nat
  BY DEF ChainTypeOK
<1>5. txs[i].by # who
  <2> SUFFICES ASSUME txs[i].by = who PROVE FALSE
    OBVIOUS
  <2>1. txs[i] \in Txs
    BY <1>4 DEF ChainTypeOK
  <2>2. txs[i] = [surface |-> s, paused |-> FALSE, by |-> who]
    BY <1>3, <2>1 DEF Txs
  <2>3. i < j
    BY <1>4, <2>2 DEF Opens
  <2> QED
    BY <1>3, <2>3
<1>6. i \in (j + 1) .. Len(mined)
  BY <1>3, <1>4
<1> QED
  BY <1>3, <1>5, <1>6 DEF OpenedByOther

\* Of the pauses behind the opens of who, one is behind all of them.
LEMMA PauseBehindAll ==
  ASSUME ChainTypeOK, NEW r \in Senders, NEW at \in Nat, Settled(r, at), NEW s \in Surfaces,
         NEW i \in 1 .. Len(txs), Opens(i, s, r)
  PROVE  \E j \in 1 .. Len(mined) :
           /\ j > i /\ mined[j] <= at
           /\ txs[j] = [surface |-> s, paused |-> TRUE, by |-> r]
           /\ \A k \in 1 .. Len(txs) : Opens(k, s, r) => k < j
<1> DEFINE opens == {k \in 1 .. Len(txs) : Opens(k, s, r)}
<1>1. Len(txs) \in Nat /\ Len(mined) \in Nat
  BY DEF ChainTypeOK
<1>2. opens \in SUBSET (1 .. Len(txs)) /\ opens # {}
  OBVIOUS
<1>3. PICK n \in Nat : n = Len(txs)
  BY <1>1
<1>4. PICK last \in opens : \A k \in opens : k <= last
  <2> HIDE DEF opens
  <2> QED
    BY <1>2, <1>3, LastOne
<1>5. PICK j \in (last + 1) .. Len(txs) :
        txs[j] = [surface |-> s, paused |-> TRUE, by |-> r] /\ Over(j, at)
  BY <1>4 DEF Settled
<1>6. j \in 1 .. Len(mined) /\ mined[j] <= at
  BY <1>1, <1>4, <1>5 DEF Over
<1>7. \A k \in 1 .. Len(txs) : Opens(k, s, r) => k < j
  BY <1>1, <1>4, <1>5
<1> QED
  BY <1>5, <1>6, <1>7

\* Once a run reports that it rolled back, or the fail-safe that it paused a surface, none
\* but another run's later transaction opens what it had opened.  (attemptOpenRollback,
\* failSafeRepause)
THEOREM ReopenedOnlyByOthers == OperationsSpec => []StaysPaused
<1>1. ASSUME OperationsInv, SwitchInv PROVE StaysPaused
  <2>0. ChainTypeOK /\ SwitchFollowsChain /\ RepauseFits /\ Len(blocks) \in Nat /\ Top >= 1
        /\ DrillRun \in Senders /\ Len(mined) \in Nat
    BY <1>1 DEF OperationsInv, OperationsTypeOK, SwitchInv, ChainTypeOK
  <2>1. ASSUME NEW r \in AdminRuns, run[r].report = "rolledBack",
               NEW b \in run[r].at .. Top, NEW s \in Surfaces, NEW i \in 1 .. Len(txs),
               Opens(i, s, r), ~blocks[b][s]
        PROVE  OpenedByOther(s, b, i, r)
    <3>1. run[r] \in Runs /\ r \in Senders /\ Settled(r, run[r].at)
      BY <1>1, <2>1 DEF OperationsInv, OperationsTypeOK, RunFits
    <3>2. PICK at \in Nat : at = run[r].at
      BY <3>1 DEF Runs
    <3>3. PICK j \in 1 .. Len(mined) :
            /\ j > i /\ mined[j] <= at
            /\ txs[j] = [surface |-> s, paused |-> TRUE, by |-> r]
            /\ \A k \in 1 .. Len(txs) : Opens(k, s, r) => k < j
      BY <2>0, <2>1, <3>1, <3>2, PauseBehindAll
    <3>4. mined[j] \in Nat /\ mined[j] >= 1 /\ b \in 1 .. Len(blocks) /\ mined[j] <= b
      BY <2>0, <3>2, <3>3 DEF ChainTypeOK, Top
    <3>5. OpenedByOther(s, b, j, r)
      BY <2>0, <2>1, <3>1, <3>3, <3>4, OpenedBehind
    <3> QED
      BY <2>0, <3>3, <3>5 DEF OpenedByOther
  <2>2. ASSUME NEW s \in Surfaces, drill.outcome[s] = "repaused", ~blocks[Top][s]
        PROVE  \E i \in 1 .. Len(mined) :
                 /\ txs[i] = [surface |-> s, paused |-> TRUE, by |-> DrillRun]
                 /\ OpenedByOther(s, Top, i, DrillRun)
    <3>1. PICK j \in 1 .. Len(mined) :
            /\ txs[j] = [surface |-> s, paused |-> TRUE, by |-> DrillRun]
            /\ \A k \in 1 .. Len(txs) : Opens(k, s, DrillRun) => k < j
      BY <2>0, <2>2 DEF RepauseFits
    <3>2. PICK b \in 1 .. Len(blocks) : b = Top
      BY <2>0 DEF Top
    <3>3. mined[j] <= b
      BY <2>0, <3>1, <3>2 DEF ChainTypeOK
    <3>4. OpenedByOther(s, b, j, DrillRun)
      BY <2>0, <2>2, <3>1, <3>2, <3>3, OpenedBehind
    <3> QED
      BY <3>1, <3>2, <3>4
  <2> QED
    BY <2>1, <2>2 DEF StaysPaused
<1> QED
  BY <1>1, OperationsAlways, SwitchAlways, PTL

=============================================================================
