---------------------- MODULE ArcNameMarketplace_proofs ----------------------
(***************************************************************************)
(* Proofs about ArcNameMarketplace, for any set of names, accounts and     *)
(* contracts, and any prices, rates and transfer fees.                     *)
(***************************************************************************)
EXTENDS ArcNameMarketplace, ArcBaseRegistrar_proofs

(***************************************************************************)
(* To the registrar the market is an operator its owners approved: what is *)
(* proved of RegistrarSpec holds here.                                     *)
(***************************************************************************)
LEMMA Accounts ==
  /\ Market \in Addresses /\ Controller \in Addresses /\ Market # Controller
  /\ Users \subseteq Addresses /\ Market \notin Users /\ Zero \notin Addresses
  BY MarketAssumption, RegistrarAssumption, ZeroAssumption DEF Users

LEMMA TokenStepIsRegistrarStep ==
  ASSUME RegistrarTypes, NEW id \in Names, TokenStep(id)
  PROVE  RegistrarNext
<1>1. tokenOwner[id] \in Addresses
  BY DEF TokenStep, TransferFrom, Approve, Exists, RegistrarTypes
<1>2. TokenCall(tokenOwner[id], id)
  BY Accounts, MarketAssumption DEF TokenStep, TokenCall
<1> QED
  BY <1>1, <1>2 DEF RegistrarNext

LEMMA LeaseStepIsRegistrarStep ==
  ASSUME NEW id \in Names, LeaseStep(id)
  PROVE  RegistrarNext
<1>1. PublicResolver \in RegisterResolvers /\ Controller \in Addresses /\ Users \subseteq Addresses
  BY Accounts, MarketAssumption
<1>2. ControllerCall(Controller, id)
  BY <1>1 DEF LeaseStep, ControllerCall
<1> QED
  BY <1>1, <1>2 DEF RegistrarNext

LEMMA OperatorStepIsRegistrarStep ==
  ASSUME NEW owner \in Users, OperatorStep(owner)
  PROVE  RegistrarNext
<1> DEFINE pair == <<owner, Market>>
<1>1. pair \in OperatorPairs /\ pair[1] = owner /\ pair[2] = Market
  BY MarketAssumption
<1>2. PICK approved \in BOOLEAN : SetApprovalForAll(owner, Market, approved)
  BY DEF OperatorStep
<1>3. OperatorCall(pair, approved)
  BY <1>1, <1>2 DEF OperatorCall
<1> HIDE DEF pair
<1> QED
  BY <1>1, <1>3 DEF RegistrarNext

LEMMA StepIsRegistrarStep ==
  RegistrarTypes /\ [MarketNext]_vars => [RegistrarNext]_nameVars
<1> SUFFICES ASSUME RegistrarTypes, [MarketNext]_vars
             PROVE  RegistrarNext \/ UNCHANGED nameVars
  OBVIOUS
<1>1. ASSUME NEW caller \in Users, NEW id \in Names, ListingCall(caller, id)
      PROVE  UNCHANGED nameVars
  BY <1>1 DEF ListingCall, List, Cancel, InvalidateListing
<1>2. ASSUME NEW caller \in Users, NEW id \in Names, NEW fee, Buy(caller, id, fee)
      PROVE  RegistrarNext
  <2>1. TokenCall(Market, id)
    BY <1>2, Accounts DEF Buy, TokenCall
  <2> QED
    BY <2>1, Accounts DEF RegistrarNext
<1>3. ASSUME NEW caller, NEW fee, ClaimProceeds(caller, fee)
      PROVE  UNCHANGED nameVars
  BY <1>3 DEF ClaimProceeds
<1>4. ASSUME NEW fee \in TransferFees, OwnerCall(fee)
      PROVE  UNCHANGED nameVars
  BY <1>4 DEF OwnerCall, WithdrawFeeSurplus, SetFeeBps, SetTreasury, SetPaused
<1>5. CASE BuyReturn \/ Donate \/ UNCHANGED vars
  BY <1>5 DEF BuyReturn, Donate, vars
<1>6. CASE TimeStep
  BY <1>6 DEF TimeStep, RegistrarNext
<1> QED
  BY <1>1, <1>2, <1>3, <1>4, <1>5, <1>6, TokenStepIsRegistrarStep, LeaseStepIsRegistrarStep,
     OperatorStepIsRegistrarStep DEF MarketNext

\* The market together with the registrar is a registrar, also from inside a purchase:
\* what TypeCorrect, BalancesCorrect, RegistryCorrect and Refinement say holds here.
THEOREM MarketUsesRegistrar == MarketSpec => RegistrarSpec
<1>1. MarketInit => RegistrarInit
  BY DEF MarketInit
<1>2. RegistrarTypes /\ [MarketNext]_vars => [RegistrarNext]_nameVars
  BY StepIsRegistrarStep
<1>3. RegistrarTypes /\ [RegistrarNext]_nameVars => RegistrarTypes'
  BY NextTypes
<1> QED
  BY <1>1, <1>2, <1>3, InitTypes, PTL DEF MarketSpec, RegistrarSpec

(***************************************************************************)
(* Types.  The one that needs an argument is that the seller's part of a   *)
(* price is not negative, because the fee is at most the price.            *)
(***************************************************************************)
LEMMA ShareBounded ==
  ASSUME NEW x \in Nat, NEW d \in Nat \ {0}, NEW b \in 0..d
  PROVE  (x * b) \div d \in 0..x
<1> DEFINE q == (x * b) \div d
<1>1. x * b \in Nat /\ b \in Nat
  OBVIOUS
<1>2. ASSUME NEW y \in Nat
      PROVE  y \div d \in Nat /\ d * (y \div d) <= y
  OBVIOUS
<1>3. q \in Nat /\ d * q <= x * b
  BY <1>1, <1>2
<1> HIDE DEF q
<1>4. x * b <= d * x
  OBVIOUS
<1>5. d * q <= d * x
  BY <1>1, <1>3, <1>4
<1>6. q <= x
  BY <1>3, <1>5
<1> QED
  BY <1>3, <1>6 DEF q

LEMMA FeeBounded ==
  ASSUME MarketTypeOK, NEW price \in Nat
  PROVE  MarketFee(price) \in Nat /\ price - MarketFee(price) \in Nat
<1>1. BPS_DENOMINATOR \in Nat \ {0} /\ feeBps \in 0..BPS_DENOMINATOR
  BY MarketAssumption DEF MarketTypeOK
<1>2. MarketFee(price) \in 0..price
  BY <1>1, ShareBounded DEF MarketFee
<1> QED
  BY <1>2

LEMMA CollectMoves ==
  ASSUME wallet \in [Addresses -> Nat], NEW payer \in Users, NEW amount \in Nat,
         NEW fee \in TransferFees, CollectExact(payer, amount, fee)
  PROVE  /\ wallet' \in [Addresses -> Nat]
         /\ wallet'[Market] = wallet[Market] + amount
         /\ wallet'[payer] = wallet[payer] - amount
         /\ \A a \in Users : wallet'[a] < wallet[a] => a = payer
<1>1. payer \in Addresses /\ payer # Market /\ fee \in Nat
  BY Accounts, MarketAssumption
<1> QED
  BY <1>1, Accounts DEF CollectExact

LEMMA PayMoves ==
  ASSUME wallet \in [Addresses -> Nat], NEW recipient \in Addresses, NEW amount \in Nat,
         NEW fee \in TransferFees, PayExact(recipient, amount, fee)
  PROVE  /\ wallet' \in [Addresses -> Nat]
         /\ \A a \in Users : wallet'[a] >= wallet[a]
<1>1. fee \in Nat
  BY MarketAssumption
<1> QED
  BY <1>1, Accounts DEF PayExact

LEMMA MarketInitTypes == MarketInit => MarketTypeOK
<1> SUFFICES ASSUME MarketInit PROVE MarketTypeOK
  OBVIOUS
<1>1. wallet \in [Addresses -> Nat]
  BY MarketAssumption DEF MarketInit
<1>2. treasury \in Treasuries /\ paused \in BOOLEAN /\ totalSellerLiability \in Nat
  BY DEF MarketInit
<1>3. feeBps \in 0..MAX_FEE_BPS
  BY MarketAssumption DEF MarketInit
<1>4. listings \in [Names -> [seller : Users \cup {Zero}, price : Nat, validUntil : Nat]]
  BY DEF MarketInit, NoListing
<1>5. /\ proceeds \in [Addresses -> Nat] /\ frame \in Contracts \cup {Zero}
      /\ listedIn \in [Names -> Nat] /\ moved \in [Names -> BOOLEAN]
  BY DEF MarketInit
<1> QED
  BY <1>1, <1>2, <1>3, <1>4, <1>5 DEF MarketTypeOK

\* What a purchase does, apart from the registrar's part.
LEMMA Purchase ==
  ASSUME MarketTypeOK, NEW caller \in Users, NEW id \in Names, NEW fee \in TransferFees,
         Buy(caller, id, fee)
  PROVE  LET l == listings[id]
             net == l.price - MarketFee(l.price)
         IN /\ l.seller \in Users /\ l.price \in Nat /\ net \in Nat /\ net <= l.price
            /\ wallet' \in [Addresses -> Nat]
            /\ wallet'[Market] = wallet[Market] + l.price
            /\ wallet'[caller] = wallet[caller] - l.price
            /\ \A a \in Users : wallet'[a] < wallet[a] => a = caller
            /\ proceeds' = [proceeds EXCEPT ![l.seller] = @ + net]
            /\ totalSellerLiability' = totalSellerLiability + net
<1> DEFINE l == listings[id]
           net == l.price - MarketFee(l.price)
<1>1. l.seller \in Users /\ l.price \in Nat
  <2>1. l \in [seller : Users \cup {Zero}, price : Nat, validUntil : Nat]
    BY DEF MarketTypeOK
  <2>2. l.seller # Zero
    BY DEF Buy, IsLive
  <2> QED
    BY <2>1, <2>2
<1>2. MarketFee(l.price) \in Nat /\ net \in Nat
  BY <1>1, FeeBounded
<1>3. net <= l.price
  BY <1>1, <1>2
<1>4. /\ wallet' \in [Addresses -> Nat]
      /\ wallet'[Market] = wallet[Market] + l.price
      /\ wallet'[caller] = wallet[caller] - l.price
      /\ \A a \in Users : wallet'[a] < wallet[a] => a = caller
  <2>1. CollectExact(caller, l.price, fee) /\ wallet \in [Addresses -> Nat]
    BY DEF Buy, MarketTypeOK
  <2> HIDE DEF l
  <2> QED
    BY <1>1, <2>1, CollectMoves
<1>5. /\ proceeds' = [proceeds EXCEPT ![l.seller] = @ + net]
      /\ totalSellerLiability' = totalSellerLiability + net
  BY DEF Buy, CreditSeller
<1> QED
  BY <1>1, <1>2, <1>3, <1>4, <1>5

LEMMA BuyKeepsTypes ==
  ASSUME MarketTypeOK, NEW caller \in Users, NEW id \in Names, NEW fee \in TransferFees,
         Buy(caller, id, fee)
  PROVE  MarketTypeOK'
<1> DEFINE l == listings[id]
           net == l.price - MarketFee(l.price)
<1>1. /\ l.seller \in Addresses /\ net \in Nat /\ wallet' \in [Addresses -> Nat]
      /\ proceeds' = [proceeds EXCEPT ![l.seller] = @ + net]
      /\ totalSellerLiability' = totalSellerLiability + net
  BY Purchase, Accounts
<1>2. proceeds' \in [Addresses -> Nat] /\ totalSellerLiability' \in Nat
  <2> HIDE DEF l, net
  <2>1. proceeds \in [Addresses -> Nat] /\ totalSellerLiability \in Nat
    BY DEF MarketTypeOK
  <2> QED
    BY <1>1, <2>1
<1>3. listings' \in [Names -> [seller : Users \cup {Zero}, price : Nat, validUntil : Nat]]
  <2>1. NoListing \in [seller : Users \cup {Zero}, price : Nat, validUntil : Nat]
    BY DEF NoListing
  <2>2. listings' = [listings EXCEPT ![id] = NoListing]
    BY DEF Buy
  <2> QED
    BY <2>1, <2>2 DEF MarketTypeOK
<1>4. frame' \in Contracts \cup {Zero}
  BY DEF Buy, MarketTypeOK
<1>5. moved' \in [Names -> BOOLEAN]
  BY DEF Buy, MarketTypeOK
<1>6. UNCHANGED <<marketPolicyVars, listedIn>>
  BY DEF Buy
<1> QED
  BY <1>1, <1>2, <1>3, <1>4, <1>5, <1>6 DEF MarketTypeOK, marketPolicyVars

LEMMA ListingKeepsTypes ==
  ASSUME MarketTypeOK, RegistrarTypes, NEW caller \in Users, NEW id \in Names,
         ListingCall(caller, id)
  PROVE  MarketTypeOK'
<1> DEFINE Listing == [seller : Users \cup {Zero}, price : Nat, validUntil : Nat]
<1>1. ASSUME NEW price \in Prices, NEW validUntil \in (now + 1)..MaxExpiry,
             List(caller, id, price, validUntil)
      PROVE  MarketTypeOK'
  <2>1. listings' \in [Names -> Listing]
    <3>1. validUntil \in Nat /\ price \in Nat
      BY RegistrarAssumption, MarketAssumption DEF RegistrarTypes
    <3>2. [seller |-> caller, price |-> price, validUntil |-> validUntil] \in Listing
      BY <3>1
    <3> QED
      BY <1>1, <3>2 DEF List, MarketTypeOK
  <2>2. listedIn' \in [Names -> Nat]
    BY <1>1, RegistrarAssumption DEF List, MarketTypeOK, RegistrarTypes
  <2>3. moved' \in [Names -> BOOLEAN]
    BY <1>1 DEF List, MarketTypeOK
  <2>4. UNCHANGED <<ledgerVars, marketPolicyVars, frame>>
    BY <1>1 DEF List
  <2> QED
    BY <2>1, <2>2, <2>3, <2>4 DEF MarketTypeOK, ledgerVars, marketPolicyVars
<1>2. ASSUME Cancel(caller, id) \/ InvalidateListing(caller, id)
      PROVE  MarketTypeOK'
  <2>1. NoListing \in Listing
    BY DEF NoListing
  <2>2. /\ listings' = [listings EXCEPT ![id] = NoListing]
        /\ UNCHANGED <<listedIn, moved, ledgerVars, marketPolicyVars, frame>>
    BY <1>2 DEF Cancel, InvalidateListing, Delist
  <2>3. listings' \in [Names -> Listing]
    BY <2>1, <2>2 DEF MarketTypeOK
  <2> QED
    BY <2>2, <2>3 DEF MarketTypeOK, ledgerVars, marketPolicyVars
<1> QED
  BY <1>1, <1>2 DEF ListingCall

LEMMA ClaimKeepsTypes ==
  ASSUME MarketTypeOK, NEW caller \in Users, NEW fee \in TransferFees,
         ClaimProceeds(caller, fee)
  PROVE  MarketTypeOK'
<1>1. /\ caller \in Addresses /\ wallet \in [Addresses -> Nat]
      /\ proceeds[caller] \in Nat /\ PayExact(caller, proceeds[caller], fee)
  BY Accounts DEF MarketTypeOK, ClaimProceeds
<1>2. wallet' \in [Addresses -> Nat]
  BY <1>1, PayMoves
<1>3. proceeds' \in [Addresses -> Nat] /\ totalSellerLiability' \in Nat
  BY <1>1 DEF MarketTypeOK, ClaimProceeds, Discharge
<1>4. UNCHANGED <<marketPolicyVars, listingVars, frame>>
  BY DEF ClaimProceeds
<1> QED
  BY <1>2, <1>3, <1>4 DEF MarketTypeOK, marketPolicyVars, listingVars

LEMMA OwnerKeepsTypes ==
  ASSUME MarketTypeOK, NEW fee \in TransferFees, OwnerCall(fee)
  PROVE  MarketTypeOK'
<1>1. ASSUME NEW amount \in Withdrawals, WithdrawFeeSurplus(amount, fee)
      PROVE  MarketTypeOK'
  <2>1. /\ wallet \in [Addresses -> Nat] /\ amount \in Nat /\ treasury \in Addresses
        /\ PayExact(treasury, amount, fee)
    BY <1>1, MarketAssumption DEF MarketTypeOK, WithdrawFeeSurplus
  <2>2. wallet' \in [Addresses -> Nat]
    BY <2>1, PayMoves
  <2>3. UNCHANGED <<proceeds, totalSellerLiability, marketPolicyVars, listingVars, frame>>
    BY <1>1 DEF WithdrawFeeSurplus
  <2> QED
    BY <2>2, <2>3 DEF MarketTypeOK, marketPolicyVars, listingVars
<1>2. ASSUME NEW bps \in FeeRates, SetFeeBps(bps)
      PROVE  MarketTypeOK'
  <2>1. feeBps' \in 0..MAX_FEE_BPS
    BY <1>2, MarketAssumption DEF SetFeeBps
  <2>2. UNCHANGED <<treasury, paused, ledgerVars, listingVars, frame>>
    BY <1>2 DEF SetFeeBps
  <2> QED
    BY <2>1, <2>2 DEF MarketTypeOK, ledgerVars, listingVars
<1>3. ASSUME NEW t \in Treasuries, SetTreasury(t)
      PROVE  MarketTypeOK'
  BY <1>3 DEF MarketTypeOK, SetTreasury, ledgerVars, listingVars
<1>4. ASSUME NEW p \in BOOLEAN, SetPaused(p)
      PROVE  MarketTypeOK'
  BY <1>4 DEF MarketTypeOK, SetPaused, ledgerVars, listingVars
<1> QED
  BY <1>1, <1>2, <1>3, <1>4 DEF OwnerCall

\* The steps of the rest of the chain write the history of a listing at most.
LEMMA ChainKeepsTypes ==
  ASSUME MarketTypeOK,
         \/ \E id \in Names : TokenStep(id) \/ LeaseStep(id)
         \/ \E owner \in Users : OperatorStep(owner)
         \/ TimeStep
  PROVE  MarketTypeOK'
<1>1. /\ UNCHANGED <<ledgerVars, marketPolicyVars, listings, listedIn, frame>>
      /\ moved' \in [Names -> BOOLEAN]
  BY DEF TokenStep, LeaseStep, OperatorStep, TimeStep, marketVars, listingVars, MarketTypeOK
<1> QED
  BY <1>1 DEF MarketTypeOK, ledgerVars, marketPolicyVars

LEMMA MarketNextTypes ==
  MarketTypeOK /\ RegistrarTypes /\ [MarketNext]_vars => MarketTypeOK'
<1> SUFFICES ASSUME MarketTypeOK, RegistrarTypes, [MarketNext]_vars
             PROVE  MarketTypeOK'
  OBVIOUS
<1>1. CASE BuyReturn
  BY <1>1 DEF BuyReturn, MarketTypeOK, ledgerVars, marketPolicyVars, listingVars
<1>2. CASE Donate
  BY <1>2, Accounts DEF Donate, MarketTypeOK, marketPolicyVars, listingVars
<1>3. CASE UNCHANGED vars
  BY <1>3 DEF vars, marketVars, MarketTypeOK, ledgerVars, marketPolicyVars, listingVars
<1> QED
  BY <1>1, <1>2, <1>3, BuyKeepsTypes, ListingKeepsTypes, ClaimKeepsTypes, OwnerKeepsTypes,
     ChainKeepsTypes DEF MarketNext

\* The market's variables keep their types: what a seller gets of a price is never
\* negative, and no claim takes the liability below zero.
THEOREM MarketTypeCorrect == MarketSpec => []MarketTypeOK
<1>1. MarketInit => MarketTypeOK
  BY MarketInitTypes
<1>2. MarketTypeOK /\ RegistrarTypes /\ [MarketNext]_vars => MarketTypeOK'
  BY MarketNextTypes
<1>3. RegistrarSpec => []RegistrarTypes
  BY InitTypes, NextTypes, PTL DEF RegistrarSpec
<1> QED
  BY <1>1, <1>2, <1>3, MarketUsesRegistrar, PTL DEF MarketSpec

(***************************************************************************)
(* The market as a vault of its sellers.  A purchase is a receipt that     *)
(* credits the seller with what is left after the fee, which ShareBounded  *)
(* keeps within the price; the solvency invariant is what makes a          *)
(* withdrawal leave the debts covered.                                     *)
(***************************************************************************)
VaultStep == Vault!VaultNext \/ UNCHANGED Vault!vaultVars

LEMMA VaultUnchanged ==
  ASSUME UNCHANGED <<wallet, proceeds, totalSellerLiability>>
  PROVE  VaultStep
  BY DEF VaultStep, Vault!vaultVars

LEMMA BuyIsReceive ==
  ASSUME MarketTypeOK, NEW caller \in Users, NEW id \in Names, NEW fee \in TransferFees,
         Buy(caller, id, fee)
  PROVE  VaultStep
<1> DEFINE l == listings[id]
           net == l.price - MarketFee(l.price)
<1>1. /\ l.seller \in Users /\ l.price \in Nat /\ net \in Nat /\ net <= l.price
      /\ wallet'[Market] = wallet[Market] + l.price
      /\ proceeds' = [proceeds EXCEPT ![l.seller] = @ + net]
      /\ totalSellerLiability' = totalSellerLiability + net
  BY Purchase
<1>2. /\ wallet[Market] \in Nat /\ proceeds \in [Addresses -> Nat] /\ l.seller \in Addresses
      /\ totalSellerLiability \in Nat
  BY <1>1, Accounts DEF MarketTypeOK
<1> HIDE DEF l, net
<1>3. CASE l.price = 0
  <2>1. net = 0
    BY <1>1, <1>3
  <2>2. proceeds' = proceeds
    BY <1>1, <1>2, <2>1
  <2>3. wallet'[Market] = wallet[Market] /\ totalSellerLiability' = totalSellerLiability
    BY <1>1, <1>2, <1>3, <2>1
  <2> QED
    BY <2>2, <2>3 DEF VaultStep, Vault!vaultVars
<1>4. CASE l.price # 0
  <2>1. wallet'[Market] > wallet[Market] /\ net \in 0 .. wallet'[Market] - wallet[Market]
    BY <1>1, <1>2, <1>4
  <2>2. Vault!Receive
    BY <1>1, <1>2, <2>1 DEF Vault!Receive
  <2> QED
    BY <2>2 DEF VaultStep, Vault!VaultNext
<1> QED
  BY <1>3, <1>4

LEMMA ClaimIsClaim ==
  ASSUME MarketTypeOK, NEW caller \in Users, NEW fee \in TransferFees,
         ClaimProceeds(caller, fee)
  PROVE  VaultStep
<1>1. /\ wallet[Market] \in Nat /\ wallet \in [Addresses -> Nat] /\ caller \in Addresses
      /\ proceeds[caller] \in Nat /\ proceeds[caller] # 0
  BY Accounts DEF MarketTypeOK, ClaimProceeds, HasProceeds
<1>2. wallet'[Market] = wallet[Market] - proceeds[caller]
  <2>1. /\ caller # Market
        /\ wallet' = [wallet EXCEPT ![Market] = @ - proceeds[caller],
                                    ![caller] = @ + proceeds[caller] - fee]
    BY DEF ClaimProceeds, PayExact
  <2> QED
    BY <1>1, <2>1, Accounts
<1>3. /\ proceeds' = [proceeds EXCEPT ![caller] = 0]
      /\ totalSellerLiability' = totalSellerLiability - proceeds[caller]
  BY DEF ClaimProceeds, Discharge
<1>4. Vault!Claim(caller)
  BY <1>1, <1>2, <1>3 DEF Vault!Claim
<1> QED
  BY <1>1, <1>4 DEF VaultStep, Vault!VaultNext

LEMMA WithdrawIsWithdraw ==
  ASSUME MarketTypeOK, NEW amount \in Withdrawals, NEW fee \in TransferFees,
         WithdrawFeeSurplus(amount, fee)
  PROVE  VaultStep
<1>1. /\ wallet[Market] \in Nat /\ wallet \in [Addresses -> Nat] /\ treasury \in Addresses
      /\ amount \in Nat \ {0}
  BY Accounts, MarketAssumption DEF MarketTypeOK
<1>2. wallet'[Market] = wallet[Market] - amount
  <2>1. /\ treasury # Market
        /\ wallet' = [wallet EXCEPT ![Market] = @ - amount, ![treasury] = @ + amount - fee]
    BY DEF WithdrawFeeSurplus, PayExact
  <2> QED
    BY <1>1, <2>1, Accounts
<1>3. /\ UNCHANGED <<proceeds, totalSellerLiability>>
      /\ wallet'[Market] >= totalSellerLiability
  BY DEF WithdrawFeeSurplus, RequireSolvent
<1>4. Vault!Withdraw
  BY <1>1, <1>2, <1>3 DEF Vault!Withdraw
<1> QED
  BY <1>4 DEF VaultStep, Vault!VaultNext

LEMMA DonateIsReceive ==
  ASSUME MarketTypeOK, Donate
  PROVE  VaultStep
<1>1. /\ wallet[Market] \in Nat /\ proceeds \in [Addresses -> Nat]
      /\ totalSellerLiability \in Nat /\ Market \in Addresses
      /\ wallet'[Market] = wallet[Market] + 1
      /\ proceeds' = proceeds /\ totalSellerLiability' = totalSellerLiability
  BY Accounts DEF MarketTypeOK, Donate
<1>2. proceeds' = [proceeds EXCEPT ![Market] = @ + 0] /\ 0 \in 0 .. wallet'[Market] - wallet[Market]
  BY <1>1
<1>3. Vault!Receive
  BY <1>1, <1>2 DEF Vault!Receive
<1> QED
  BY <1>3 DEF VaultStep, Vault!VaultNext

LEMMA StepIsVaultStep ==
  MarketTypeOK /\ [MarketNext]_vars => VaultStep
<1> SUFFICES ASSUME MarketTypeOK, [MarketNext]_vars
             PROVE  VaultStep
  OBVIOUS
<1>1. ASSUME NEW fee \in TransferFees, OwnerCall(fee)
      PROVE  VaultStep
  BY <1>1, WithdrawIsWithdraw, VaultUnchanged
  DEF OwnerCall, SetFeeBps, SetTreasury, SetPaused, ledgerVars
<1>2. ASSUME NEW caller, NEW id, ListingCall(caller, id)
      PROVE  VaultStep
  BY <1>2, VaultUnchanged DEF ListingCall, List, Cancel, InvalidateListing, ledgerVars
<1>3. CASE \/ \E id \in Names : TokenStep(id) \/ LeaseStep(id)
           \/ \E owner \in Users : OperatorStep(owner)
           \/ TimeStep \/ BuyReturn \/ UNCHANGED vars
  BY <1>3, VaultUnchanged
  DEF TokenStep, LeaseStep, OperatorStep, TimeStep, BuyReturn, vars, marketVars, ledgerVars
<1> QED
  BY <1>1, <1>2, <1>3, BuyIsReceive, ClaimIsClaim, DonateIsReceive DEF MarketNext

\* The market implements PullPaymentVault for any prices, rates and transfer fees: a
\* sale credits at most what came in, only the seller takes it out, in full, and a
\* withdrawal of fees leaves every seller's money there.
THEOREM MarketKeepsVaultPromise == MarketSpec => KeepsVaultPromise
<1>1. MarketInit => Vault!VaultInit
  BY Accounts DEF MarketInit, Vault!VaultInit
<1>2. MarketTypeOK /\ [MarketNext]_vars => [Vault!VaultNext]_Vault!vaultVars
  BY StepIsVaultStep DEF VaultStep
<1> QED
  BY <1>1, <1>2, MarketTypeCorrect, PTL DEF MarketSpec, KeepsVaultPromise, Vault!VaultSpec

\* What is owed is a ledger: the liability counts the units of the debts, and the
\* balance covers it.  Every step of a vault keeps it so.
LedgerInv == Ledger(Addresses, proceeds, totalSellerLiability, wallet[Market])

LEMMA VaultStepKeepsLedger ==
  ASSUME MarketTypeOK, MarketTypeOK', LedgerInv, VaultStep
  PROVE  LedgerInv'
<1>1. /\ wallet[Market] \in Nat /\ wallet'[Market] \in Nat
      /\ proceeds \in [Addresses -> Nat] /\ totalSellerLiability \in Nat
  BY Accounts DEF MarketTypeOK
<1>2. Ledger(Addresses, proceeds, totalSellerLiability, wallet[Market])
  BY DEF LedgerInv
<1>3. CASE Vault!Receive
  <2>1. PICK a \in Addresses, credit \in 0..(wallet'[Market] - wallet[Market]) :
          /\ proceeds' = [proceeds EXCEPT ![a] = @ + credit]
          /\ totalSellerLiability' = totalSellerLiability + credit
    BY <1>3 DEF Vault!Receive
  <2>2. credit \in Nat /\ wallet'[Market] >= wallet[Market] + credit
    BY <1>1, <2>1
  <2>3. Ledger(Addresses, [proceeds EXCEPT ![a] = @ + credit],
               totalSellerLiability + credit, wallet'[Market])
    BY <1>1, <1>2, <2>2, LedgerCredited
  <2> QED
    BY <2>1, <2>3, Zenon DEF LedgerInv
<1>4. ASSUME NEW a \in Addresses, Vault!Claim(a)
      PROVE  LedgerInv'
  <2>1. /\ proceeds' = [proceeds EXCEPT ![a] = 0]
        /\ totalSellerLiability' = totalSellerLiability - proceeds[a]
        /\ wallet'[Market] = wallet[Market] - proceeds[a]
    BY <1>4 DEF Vault!Claim
  <2>2. Ledger(Addresses, [proceeds EXCEPT ![a] = 0],
               totalSellerLiability - proceeds[a],
               wallet[Market] - proceeds[a])
    BY <1>1, <1>2, LedgerPaid
  <2> QED
    BY <2>1, <2>2, Zenon DEF LedgerInv
<1>5. CASE Vault!Withdraw
  BY <1>2, <1>5 DEF Vault!Withdraw, Ledger, LedgerInv
<1>6. CASE UNCHANGED Vault!vaultVars
  BY <1>2, <1>6 DEF Vault!vaultVars, LedgerInv
<1> QED
  BY <1>3, <1>4, <1>5, <1>6 DEF VaultStep, Vault!VaultNext

LEMMA LedgerInvariance == MarketSpec => []LedgerInv
<1>1. MarketInit => LedgerInv
  <2> SUFFICES ASSUME MarketInit PROVE LedgerInv
    OBVIOUS
  <2>1. /\ proceeds \in [Addresses -> Nat] /\ \A a \in Addresses : proceeds[a] = 0
        /\ totalSellerLiability = 0 /\ wallet[Market] >= 0
    BY Accounts DEF MarketInit
  <2>2. /\ IsFiniteSet(Units(Addresses, proceeds))
        /\ Cardinality(Units(Addresses, proceeds)) = 0
    BY <2>1, NoUnits
  <2> QED
    BY <2>1, <2>2 DEF LedgerInv, Ledger
<1>2. MarketTypeOK /\ MarketTypeOK' /\ LedgerInv /\ [MarketNext]_vars => LedgerInv'
  BY StepIsVaultStep, VaultStepKeepsLedger
<1> QED
  BY <1>1, <1>2, MarketTypeCorrect, PTL DEF MarketSpec

\* The liability of the market is the sum of its sellers' proceeds, and it holds that
\* much, also while a buyer's callback runs, where the code's own check has not been made.
THEOREM MarketSolventCorrect == MarketSpec => []MarketSolvent
<1>1. LedgerInv => MarketSolvent
  <2>1. Vault!Debts = Units(Addresses, proceeds)
    BY DEF Vault!Debts, Units
  <2> QED
    BY <2>1
    DEF LedgerInv, Ledger, MarketSolvent, Vault!Solvent, Cardinality, Vault!Cardinality
<1> QED
  BY <1>1, LedgerInvariance, PTL

(***************************************************************************)
(* Calls that never revert.  The prover has no ENABLED: what stands for    *)
(* it is that the values the code assigns, from any state the market can   *)
(* be in, pass every check of the call.                                    *)
(***************************************************************************)
ReachableInv == MarketTypeOK /\ LedgerInv

LEMMA Reachable == MarketSpec => []ReachableInv
  BY MarketTypeCorrect, LedgerInvariance, PTL DEF ReachableInv

\* What claimProceeds does to the state when the settlement asset keeps fee of the transfer.
ClaimEffect(caller, fee) ==
  LET amount == proceeds[caller]
  IN /\ proceeds' = [proceeds EXCEPT ![caller] = 0]
     /\ totalSellerLiability' = totalSellerLiability - amount
     /\ wallet' = [wallet EXCEPT ![Market] = @ - amount, ![caller] = @ + amount - fee]
     /\ UNCHANGED <<marketPolicyVars, listingVars, frame, nameVars>>

\* Whoever has proceeds can claim them whenever no purchase is being made: neither the
\* checked subtraction from the liability, nor the transfer, nor the solvency check that
\* follows it reverts, whatever was paused, withdrawn, claimed or bought before.
THEOREM ClaimNeverReverts ==
  ASSUME ReachableInv, NEW caller \in Users, NotEntered, proceeds[caller] > 0,
         NEW fee \in 0..proceeds[caller], ClaimEffect(caller, fee)
  PROVE  ClaimProceeds(caller, fee)
<1> DEFINE amount == proceeds[caller]
<1>1. /\ wallet \in [Addresses -> Nat] /\ proceeds \in [Addresses -> Nat]
      /\ totalSellerLiability \in Nat /\ amount \in Nat /\ wallet[Market] \in Nat
      /\ caller \in Addresses /\ Market \in Addresses /\ caller # Market
  BY Accounts DEF ReachableInv, MarketTypeOK
<1>2. /\ Ledger(Addresses, proceeds, totalSellerLiability, wallet[Market])
      /\ wallet[Market] >= totalSellerLiability
  BY DEF ReachableInv, LedgerInv, Ledger
<1>3. amount <= totalSellerLiability
  BY <1>1, <1>2, LedgerPaid
<1>4. HasProceeds(caller) /\ Discharge(caller)
  BY <1>1, <1>3 DEF HasProceeds, Discharge, ClaimEffect
<1>5. wallet[Market] >= amount
  BY <1>1, <1>2, <1>3
<1>6. PayExact(caller, amount, fee)
  BY <1>1, <1>5 DEF PayExact, ClaimEffect
<1>7. /\ wallet'[Market] = wallet[Market] - amount
      /\ totalSellerLiability' = totalSellerLiability - amount
  BY <1>1 DEF ClaimEffect
<1>8. RequireSolvent
  BY <1>1, <1>2, <1>7 DEF RequireSolvent
<1> QED
  BY <1>4, <1>6, <1>8 DEF ClaimProceeds, ClaimEffect

\* Once the buyer's callback has returned, the solvency check at the end of buy passes,
\* whatever other contracts listed, moved or sent to the market in the meantime: only the
\* callback itself can make the purchase fail.
THEOREM PurchaseCompletes ==
  ASSUME ReachableInv, frame # Zero, frame' = Zero,
         UNCHANGED <<ledgerVars, marketPolicyVars, listingVars, nameVars>>
  PROVE  BuyReturn
  BY DEF ReachableInv, LedgerInv, Ledger, BuyReturn

\* No account pays but the buyer of a live listing, and the buyer gets the token and
\* its registry node in the step that takes the price.
THEOREM DeliveryVersusPaymentCorrect == MarketSpec => DeliveryVersusPayment
<1> DEFINE Delivered(a, id) == LET l == listings[id] IN
             /\ IsLive(id)
             /\ wallet'[a] = wallet[a] - l.price
             /\ tokenOwner'[id] = a /\ nodeOwner'[id] = a
             /\ listings'[id] = NoListing
             /\ proceeds'[l.seller] = proceeds[l.seller] + l.price - MarketFee(l.price)
<1>1. MarketTypeOK /\ RegistrarTypes /\ [MarketNext]_vars
        => [\A a \in Users : wallet'[a] < wallet[a] =>
              \E id \in Names : Delivered(a, id)]_vars
  <2> SUFFICES ASSUME MarketTypeOK, RegistrarTypes, MarketNext,
                      NEW a \in Users, wallet'[a] < wallet[a]
               PROVE  \E id \in Names : Delivered(a, id)
    OBVIOUS
  <2>1. wallet[a] \in Nat /\ wallet \in [Addresses -> Nat] /\ a \in Addresses /\ a # Market
    BY Accounts DEF MarketTypeOK
  <2>2. wallet' # wallet
    BY <2>1
  <2>3. ASSUME NEW caller \in Users, NEW id \in Names, NEW fee \in TransferFees,
               Buy(caller, id, fee)
        PROVE  Delivered(a, id)
    <3> DEFINE l == listings[id]
               net == l.price - MarketFee(l.price)
    <3>1. /\ l.seller \in Users /\ l.price \in Nat /\ net \in Nat
          /\ wallet'[caller] = wallet[caller] - l.price
          /\ proceeds' = [proceeds EXCEPT ![l.seller] = @ + net]
          /\ a = caller
      BY <2>1, <2>3, Purchase
    <3>2. IsLive(id)
      BY <2>3 DEF Buy
    <3>3. tokenOwner'[id] = a /\ nodeOwner'[id] = a
      BY <2>3, <3>1, RegistrarAssumption DEF Buy, TransferFrom, RegistrarTypes
    <3>4. listings'[id] = NoListing
      BY <2>3 DEF Buy, MarketTypeOK
    <3>5. proceeds'[l.seller] = proceeds[l.seller] + net /\ proceeds[l.seller] \in Nat
      <4> HIDE DEF l, net
      <4> QED
        BY <3>1, Accounts DEF MarketTypeOK
    <3>6. MarketFee(l.price) \in Nat
      BY <3>1, FeeBounded
    <3>7. proceeds'[l.seller] = proceeds[l.seller] + l.price - MarketFee(l.price)
      BY <3>1, <3>5, <3>6
    <3> QED
      BY <3>1, <3>2, <3>3, <3>4, <3>7
  <2>4. ASSUME NEW caller \in Users, NEW fee \in TransferFees, ClaimProceeds(caller, fee)
        PROVE  FALSE
    <3>1. PayExact(caller, proceeds[caller], fee) /\ proceeds[caller] \in Nat /\ caller \in Addresses
      BY <2>4, Accounts DEF ClaimProceeds, MarketTypeOK
    <3>2. wallet'[a] >= wallet[a] /\ wallet' \in [Addresses -> Nat]
      BY <2>1, <3>1, PayMoves
    <3> QED
      BY <2>1, <3>2
  <2>5. ASSUME NEW amount \in Withdrawals, NEW fee \in TransferFees,
               WithdrawFeeSurplus(amount, fee)
        PROVE  FALSE
    <3>1. PayExact(treasury, amount, fee) /\ amount \in Nat /\ treasury \in Addresses
      BY <2>5, MarketAssumption DEF WithdrawFeeSurplus, MarketTypeOK
    <3>2. wallet'[a] >= wallet[a] /\ wallet' \in [Addresses -> Nat]
      BY <2>1, <3>1, PayMoves
    <3> QED
      BY <2>1, <3>2
  <2>6. ASSUME NEW fee \in TransferFees, OwnerCall(fee)
        PROVE  FALSE
    BY <2>2, <2>5, <2>6 DEF OwnerCall, SetFeeBps, SetTreasury, SetPaused, ledgerVars
  <2>7. ASSUME NEW caller, NEW id, ListingCall(caller, id)
        PROVE  FALSE
    BY <2>2, <2>7 DEF ListingCall, List, Cancel, InvalidateListing, ledgerVars
  <2>8. CASE Donate
    BY <2>1, <2>8 DEF Donate
  <2>9. CASE \/ \E id \in Names : TokenStep(id) \/ LeaseStep(id)
             \/ \E owner \in Users : OperatorStep(owner)
             \/ TimeStep \/ BuyReturn
    BY <2>2, <2>9 DEF TokenStep, LeaseStep, OperatorStep, TimeStep, BuyReturn, marketVars,
                      ledgerVars
  <2> HIDE DEF Delivered
  <2> QED
    BY <2>3, <2>4, <2>6, <2>7, <2>8, <2>9 DEF MarketNext
<1>2. RegistrarSpec => []RegistrarTypes
  BY InitTypes, NextTypes, PTL DEF RegistrarSpec
<1> QED
  BY <1>1, <1>2, MarketTypeCorrect, MarketUsesRegistrar, PTL
  DEF MarketSpec, DeliveryVersusPayment

(***************************************************************************)
(* What a seller can rely on when she lists.                               *)
(***************************************************************************)
\* A share of at most m in d leaves the rest.
LEMMA RestBounded ==
  ASSUME NEW x \in Nat, NEW d \in Nat \ {0}, NEW m \in 0..d, NEW b \in 0..m
  PROVE  d * (x - (x * b) \div d) >= (d - m) * x
<1> DEFINE q == (x * b) \div d
<1>1. x * b \in Nat /\ b \in Nat /\ x * m \in Nat
  OBVIOUS
<1>2. ASSUME NEW y \in Nat
      PROVE  y \div d \in Nat /\ d * (y \div d) <= y
  OBVIOUS
<1>3. q \in Nat /\ d * q <= x * b
  BY <1>1, <1>2
<1> HIDE DEF q
<1>4. x * b <= x * m
  OBVIOUS
<1>5. d * q <= x * m
  BY <1>1, <1>3, <1>4
<1>6. d * (x - q) = d * x - d * q /\ (d - m) * x = d * x - x * m
  BY <1>3
<1> QED
  BY <1>1, <1>3, <1>5, <1>6 DEF q

\* What buy does to the state when the settlement asset keeps nothing of the transfer.
PurchaseEffect(caller, id) ==
  LET l == listings[id]
      net == l.price - MarketFee(l.price)
  IN /\ wallet' = [wallet EXCEPT ![caller] = @ - l.price, ![Market] = @ + l.price - 0]
     /\ proceeds' = [proceeds EXCEPT ![l.seller] = @ + net]
     /\ totalSellerLiability' = totalSellerLiability + net
     /\ listings' = [listings EXCEPT ![id] = NoListing]
     /\ moved' = [moved EXCEPT ![id] = TRUE]
     /\ frame' = IF caller \in Contracts THEN caller ELSE Zero
     /\ tokenApprovals' = [tokenApprovals EXCEPT ![id] = Zero]
     /\ balances' = MoveBalance(tokenOwner[id], caller)
     /\ tokenOwner' = [tokenOwner EXCEPT ![id] = caller]
     /\ nodeOwner' = [nodeOwner EXCEPT ![id] = caller]
     /\ delegated' = [delegated EXCEPT ![id] = FALSE]
     /\ UNCHANGED <<now, nameExpires, operatorApprovals, controllers, leaseNo, approvedIn,
                    nodeResolver, nodeTTL, nodeOperators, resolverVars, marketPolicyVars, listedIn>>

\* Whoever has the price of a listing that isLive can buy it while the market is neither
\* paused nor inside a purchase: the token moves with the approval that isLive saw, and
\* what the seller is credited with never makes the solvency check at the end of buy fail.
THEOREM LiveListingSells ==
  ASSUME ReachableInv, NEW id \in Names, NEW caller \in Users, NotEntered, ~paused,
         IsLive(id), caller # listings[id].seller, wallet[caller] >= listings[id].price,
         PurchaseEffect(caller, id)
  PROVE  Buy(caller, id, 0)
<1> DEFINE l == listings[id]
           net == l.price - MarketFee(l.price)
<1>1. l \in [seller : Users \cup {Zero}, price : Nat, validUntil : Nat]
  BY DEF ReachableInv, MarketTypeOK
<1>2. l.price \in Nat
  BY <1>1
<1>3. MarketFee(l.price) \in Nat /\ net \in Nat /\ net <= l.price
  <2>1. MarketTypeOK
    BY DEF ReachableInv
  <2>2. PICK price \in Nat : price = l.price
    BY <1>2
  <2>3. MarketFee(price) \in Nat /\ price - MarketFee(price) \in Nat
    BY <2>1, FeeBounded
  <2> QED
    BY <2>2, <2>3
<1>4. /\ wallet \in [Addresses -> Nat] /\ wallet[Market] \in Nat /\ totalSellerLiability \in Nat
      /\ caller \in Addresses /\ Market \in Addresses /\ caller # Market
      /\ wallet[Market] >= totalSellerLiability
  <2>1. /\ wallet \in [Addresses -> Nat] /\ totalSellerLiability \in Nat
        /\ caller \in Addresses /\ Market \in Addresses /\ caller # Market
    BY Accounts DEF ReachableInv, MarketTypeOK
  <2>2. wallet[Market] >= totalSellerLiability
    BY DEF ReachableInv, LedgerInv, Ledger
  <2> QED
    BY <2>1, <2>2
<1>5. /\ wallet' = [wallet EXCEPT ![caller] = @ - l.price, ![Market] = @ + l.price - 0]
      /\ totalSellerLiability' = totalSellerLiability + net
      /\ wallet[caller] >= l.price
  BY DEF PurchaseEffect
<1>6. CollectExact(caller, l.price, 0) /\ RequireSolvent
  <2> HIDE DEF l, net
  <2>1. wallet'[Market] = wallet[Market] + l.price
    BY <1>2, <1>4, <1>5
  <2> QED
    BY <1>2, <1>3, <1>4, <1>5, <2>1 DEF CollectExact, RequireSolvent
<1>7. CreditSeller(l.seller, l.price)
  BY DEF PurchaseEffect, CreditSeller
<1>8. Exists(id) /\ IsActive(id) /\ ApprovedOrOwner(Market, id)
  BY DEF IsLive, IsApproved, ApprovedOrOwner, OwnerOrOperator
<1>9. TransferFrom(Market, caller, id)
  BY <1>8 DEF TransferFrom, PurchaseEffect
<1>10. IF caller \in Contracts THEN frame' = caller ELSE RequireSolvent /\ UNCHANGED frame
  BY <1>6 DEF PurchaseEffect, NotEntered
<1>11. /\ listings' = [listings EXCEPT ![id] = NoListing] /\ moved' = [moved EXCEPT ![id] = TRUE]
       /\ UNCHANGED <<marketPolicyVars, listedIn>>
  BY DEF PurchaseEffect
<1> QED
  BY <1>6, <1>7, <1>9, <1>10, <1>11 DEF Buy

\* Proceeds grow only by the sale of a listing of their own, which takes the token away
\* from the seller, and never by less than the price without the highest fee there is.
SellersShare ==
  [][\A a \in Addresses : proceeds'[a] > proceeds[a] =>
       \E id \in Names :
         /\ IsLive(id) /\ listings[id].seller = a
         /\ tokenOwner[id] = a /\ tokenOwner'[id] # a
         /\ BPS_DENOMINATOR * (proceeds'[a] - proceeds[a])
              >= (BPS_DENOMINATOR - MAX_FEE_BPS) * listings[id].price]_vars

\* Whatever the owner does to the fee after a listing was made, the seller gets her share
\* of its price, and nobody is credited for a token of another account.  (buy, setFeeBps)
THEOREM SellersShareCorrect == MarketSpec => SellersShare
<1> DEFINE Sold(a, id) ==
             /\ IsLive(id) /\ listings[id].seller = a
             /\ tokenOwner[id] = a /\ tokenOwner'[id] # a
             /\ BPS_DENOMINATOR * (proceeds'[a] - proceeds[a])
                  >= (BPS_DENOMINATOR - MAX_FEE_BPS) * listings[id].price
<1>1. MarketTypeOK /\ RegistrarTypes /\ [MarketNext]_vars
        => [\A a \in Addresses : proceeds'[a] > proceeds[a] =>
              \E id \in Names : Sold(a, id)]_vars
  <2> SUFFICES ASSUME MarketTypeOK, RegistrarTypes, MarketNext,
                      NEW a \in Addresses, proceeds'[a] > proceeds[a]
               PROVE  \E id \in Names : Sold(a, id)
    OBVIOUS
  <2>1. proceeds \in [Addresses -> Nat] /\ proceeds[a] \in Nat
    BY DEF MarketTypeOK
  <2>2. proceeds' # proceeds
    BY <2>1
  <2>3. ASSUME NEW caller \in Users, NEW id \in Names, NEW fee \in TransferFees,
               Buy(caller, id, fee)
        PROVE  Sold(a, id)
    <3> DEFINE l == listings[id]
               net == l.price - MarketFee(l.price)
    <3>1. /\ l.seller \in Users /\ l.price \in Nat /\ net \in Nat
          /\ proceeds' = [proceeds EXCEPT ![l.seller] = @ + net]
      BY <2>3, Purchase
    <3>2. IsLive(id) /\ caller # l.seller /\ tokenOwner[id] = l.seller
      BY <2>3 DEF Buy, IsLive
    <3>3. tokenOwner'[id] = caller
      BY <2>3 DEF Buy, TransferFrom, RegistrarTypes
    <3>4. BPS_DENOMINATOR * net >= (BPS_DENOMINATOR - MAX_FEE_BPS) * l.price
      <4>1. /\ BPS_DENOMINATOR \in Nat \ {0} /\ MAX_FEE_BPS \in 0..BPS_DENOMINATOR
            /\ feeBps \in 0..MAX_FEE_BPS
        BY MarketAssumption DEF MarketTypeOK
      <4> HIDE DEF l
      <4> QED
        BY <3>1, <4>1, RestBounded DEF MarketFee
    <3>5. a = l.seller /\ proceeds'[a] - proceeds[a] = net
      <4> HIDE DEF l, net
      <4> QED
        BY <2>1, <2>3, <3>1
    <3> QED
      BY <3>2, <3>3, <3>4, <3>5
  <2>4. ASSUME NEW caller \in Users, NEW fee \in TransferFees, ClaimProceeds(caller, fee)
        PROVE  FALSE
    <3>1. proceeds' = [proceeds EXCEPT ![caller] = 0]
      BY <2>4 DEF ClaimProceeds, Discharge
    <3> QED
      BY <2>1, <3>1
  <2>5. ASSUME NEW fee \in TransferFees, OwnerCall(fee)
        PROVE  FALSE
    BY <2>2, <2>5 DEF OwnerCall, WithdrawFeeSurplus, SetFeeBps, SetTreasury, SetPaused, ledgerVars
  <2>6. ASSUME NEW caller, NEW id, ListingCall(caller, id)
        PROVE  FALSE
    BY <2>2, <2>6 DEF ListingCall, List, Cancel, InvalidateListing, ledgerVars
  <2>7. ~(\/ \E id \in Names : TokenStep(id) \/ LeaseStep(id)
          \/ \E owner \in Users : OperatorStep(owner)
          \/ TimeStep \/ BuyReturn \/ Donate)
    BY <2>2 DEF TokenStep, LeaseStep, OperatorStep, TimeStep, BuyReturn, Donate, marketVars,
                ledgerVars
  <2> HIDE DEF Sold
  <2> QED
    BY <2>3, <2>4, <2>5, <2>6, <2>7 DEF MarketNext
<1>2. RegistrarSpec => []RegistrarTypes
  BY InitTypes, NextTypes, PTL DEF RegistrarSpec
<1> QED
  BY <1>1, <1>2, MarketTypeCorrect, MarketUsesRegistrar, PTL DEF MarketSpec, SellersShare

(***************************************************************************)
(* Listings.  The market never hears of a new lease; a listing dies first, *)
(* since list keeps its deadline within the paid time and a name is free   *)
(* only when that time is over.                                            *)
(***************************************************************************)
Timely(id) ==
  /\ nameExpires[id] # 0
  /\ \/ listings[id].validUntil < now
     \/ listedIn[id] = leaseNo[id] /\ listings[id].validUntil <= nameExpires[id]

ListingInv == \A id \in Names : listings[id].seller # Zero => Timely(id)

LEMMA ListingInvOfList ==
  ASSUME MarketTypeOK, RegistrarTypes, ListingInv, NEW caller \in Users, NEW n \in Names,
         ListingCall(caller, n)
  PROVE  ListingInv'
<1> SUFFICES ASSUME NEW id \in Names, listings'[id].seller # Zero
             PROVE  Timely(id)'
  BY DEF ListingInv
<1>1. UNCHANGED <<now, nameExpires, leaseNo>>
  BY DEF ListingCall, List, Cancel, InvalidateListing, nameVars, registrarVars, tokenVars,
         historyVars
<1>2. ASSUME NEW price, NEW validUntil, List(caller, n, price, validUntil)
      PROVE  Timely(id)'
  <2>1. /\ listings' = [listings EXCEPT ![n] =
                          [seller |-> caller, price |-> price, validUntil |-> validUntil]]
        /\ listedIn' = [listedIn EXCEPT ![n] = leaseNo[n]]
        /\ validUntil <= nameExpires[n] /\ nameExpires[n] # 0
    BY <1>2 DEF List, MayList, IsActive
  <2>2. CASE id = n
    <3>1. listings'[id].validUntil = validUntil /\ listedIn'[id] = leaseNo[n]
      BY <2>1, <2>2 DEF MarketTypeOK
    <3> QED
      BY <1>1, <2>1, <2>2, <3>1 DEF Timely
  <2>3. CASE id # n
    <3>1. listings'[id] = listings[id] /\ listedIn'[id] = listedIn[id]
      BY <2>1, <2>3 DEF MarketTypeOK
    <3> QED
      BY <1>1, <3>1 DEF ListingInv, Timely
  <2> QED
    BY <2>2, <2>3
<1>3. ASSUME Cancel(caller, n) \/ InvalidateListing(caller, n)
      PROVE  Timely(id)'
  <2>1. listings' = [listings EXCEPT ![n] = NoListing] /\ UNCHANGED listedIn
    BY <1>3 DEF Cancel, InvalidateListing, Delist
  <2>2. listings'[id] = listings[id]
    BY <2>1 DEF MarketTypeOK, NoListing
  <2> QED
    BY <1>1, <2>1, <2>2 DEF ListingInv, Timely
<1> QED
  BY <1>2, <1>3 DEF ListingCall

LEMMA ListingInvOfLease ==
  ASSUME MarketTypeOK, RegistrarTypes, ListingInv, NEW n \in Names, LeaseStep(n)
  PROVE  ListingInv'
<1> SUFFICES ASSUME NEW id \in Names, listings[id].seller # Zero, Timely(id)
             PROVE  Timely(id)'
  BY DEF ListingInv, LeaseStep
<1>1. PICK d \in Durations :
        \/ \E owner \in Users : Register(Controller, n, owner, d, PublicResolver, FALSE)
        \/ Renew(Controller, n, d)
  BY DEF LeaseStep
<1>2. /\ UNCHANGED <<listings, listedIn>> /\ now' = now /\ now \in Nat /\ d \in Nat \ {0}
      /\ nameExpires \in [Names -> Nat] /\ leaseNo \in [Nodes -> Nat] /\ GRACE \in Nat
      /\ listings[id].validUntil \in Nat
  <2>1. listings[id] \in [seller : Users \cup {Zero}, price : Nat, validUntil : Nat]
    BY DEF MarketTypeOK
  <2>2. UNCHANGED <<listings, listedIn>> /\ now' = now
    BY <1>1 DEF LeaseStep, Register, Renew
  <2> QED
    BY <2>1, <2>2, RegistrarAssumption DEF RegistrarTypes
<1>3. CASE \E owner \in Users : Register(Controller, n, owner, d, PublicResolver, FALSE)
  <2>1. /\ Available(n) /\ nameExpires' = [nameExpires EXCEPT ![n] = now + d]
        /\ leaseNo' = [leaseNo EXCEPT ![n] = @ + 1]
    BY <1>3 DEF Register, ReplaceToken
  <2>2. CASE id = n
    <3>1. nameExpires'[id] = now + d /\ nameExpires'[id] # 0
      BY <1>2, <2>1, <2>2
    <3>2. now > nameExpires[id]
      BY <1>2, <2>1, <2>2 DEF Available, Timely
    <3>3. listings[id].validUntil < now
      BY <1>2, <3>2 DEF Timely
    <3> QED
      BY <1>2, <3>1, <3>3 DEF Timely
  <2>3. CASE id # n
    <3>1. nameExpires'[id] = nameExpires[id] /\ leaseNo'[id] = leaseNo[id]
      BY <1>2, <2>1, <2>3, RegistrarAssumption
    <3> QED
      BY <1>2, <3>1 DEF Timely
  <2> QED
    BY <2>2, <2>3
<1>4. CASE Renew(Controller, n, d)
  <2>1. nameExpires' = [nameExpires EXCEPT ![n] = @ + d] /\ leaseNo' = leaseNo
    BY <1>4 DEF Renew, historyVars
  <2>2. nameExpires'[id] \in Nat /\ nameExpires'[id] >= nameExpires[id] /\ nameExpires[id] \in Nat
    BY <1>2, <2>1
  <2> QED
    BY <1>2, <2>1, <2>2 DEF Timely
<1> QED
  BY <1>1, <1>3, <1>4

LEMMA ListingInvKept ==
  MarketTypeOK /\ RegistrarTypes /\ ListingInv /\ [MarketNext]_vars => ListingInv'
<1> SUFFICES ASSUME MarketTypeOK, RegistrarTypes, ListingInv, [MarketNext]_vars
             PROVE  ListingInv'
  OBVIOUS
<1>1. CASE UNCHANGED <<listings, listedIn, now, nameExpires, leaseNo>>
  BY <1>1 DEF ListingInv, Timely
<1>2. ASSUME NEW caller \in Users, NEW id \in Names, NEW fee, Buy(caller, id, fee)
      PROVE  ListingInv'
  <2>1. /\ listings' = [listings EXCEPT ![id] = NoListing]
        /\ UNCHANGED <<listedIn, now, nameExpires, leaseNo>>
    BY <1>2 DEF Buy, TransferFrom
  <2>2. ASSUME NEW n \in Names, listings'[n].seller # Zero
        PROVE  listings'[n] = listings[n]
    BY <2>1, <2>2 DEF MarketTypeOK, NoListing
  <2> QED
    BY <2>1, <2>2 DEF ListingInv, Timely
<1>3. CASE TimeStep
  <2>1. /\ now' = now + 1 /\ now \in Nat
        /\ UNCHANGED <<listings, listedIn, nameExpires, leaseNo>>
    BY <1>3 DEF TimeStep, Tick, RegistrarTypes, marketVars, listingVars, tokenVars, historyVars
  <2>2. \A n \in Names : listings[n].validUntil \in Nat
    BY DEF MarketTypeOK
  <2> QED
    BY <2>1, <2>2 DEF ListingInv, Timely
<1>4. ASSUME NEW id \in Names, TokenStep(id)
      PROVE  UNCHANGED <<listings, listedIn, now, nameExpires, leaseNo>>
  BY <1>4 DEF TokenStep, TransferFrom, Approve
<1>5. ASSUME NEW owner, OperatorStep(owner)
      PROVE  UNCHANGED <<listings, listedIn, now, nameExpires, leaseNo>>
  BY <1>5 DEF OperatorStep, SetApprovalForAll, marketVars, listingVars, historyVars
<1>6. ASSUME NEW caller, NEW fee, ClaimProceeds(caller, fee)
      PROVE  UNCHANGED <<listings, listedIn, now, nameExpires, leaseNo>>
  BY <1>6 DEF ClaimProceeds, listingVars, nameVars, registrarVars, tokenVars, historyVars
<1>7. ASSUME NEW fee \in TransferFees, OwnerCall(fee)
      PROVE  UNCHANGED <<listings, listedIn, now, nameExpires, leaseNo>>
  BY <1>7 DEF OwnerCall, WithdrawFeeSurplus, SetFeeBps, SetTreasury, SetPaused,
              listingVars, nameVars, registrarVars, tokenVars, historyVars
<1>8. CASE BuyReturn \/ Donate \/ UNCHANGED vars
  BY <1>1, <1>8 DEF BuyReturn, Donate, vars, marketVars, listingVars, nameVars, registrarVars,
                    tokenVars, historyVars
<1> QED
  BY <1>1, <1>2, <1>3, <1>4, <1>5, <1>6, <1>7, <1>8, ListingInvOfList, ListingInvOfLease
  DEF MarketNext

\* A listing never reaches into a later lease of its name, for any durations, grace
\* period and renewals: whoever buys a name buys it from the lease it was listed in.
THEOREM ListingWithinLeaseCorrect == MarketSpec => []ListingWithinLease
<1>1. MarketInit => ListingInv
  BY DEF MarketInit, ListingInv, NoListing
<1>2. MarketTypeOK /\ RegistrarTypes /\ ListingInv /\ [MarketNext]_vars => ListingInv'
  BY ListingInvKept
<1>3. MarketTypeOK /\ RegistrarTypes /\ ListingInv => ListingWithinLease
  <2> SUFFICES ASSUME MarketTypeOK, RegistrarTypes, ListingInv, NEW id \in Names, IsLive(id)
               PROVE  listedIn[id] = leaseNo[id]
    BY DEF ListingWithinLease
  <2>1. listings[id].seller # Zero /\ now <= listings[id].validUntil
    BY DEF IsLive
  <2>2. listings[id].validUntil \in Nat /\ now \in Nat
    BY DEF MarketTypeOK, RegistrarTypes
  <2> QED
    BY <2>1, <2>2 DEF ListingInv, Timely
<1>4. RegistrarSpec => []RegistrarTypes
  BY InitTypes, NextTypes, PTL DEF RegistrarSpec
<1> QED
  BY <1>1, <1>2, <1>3, <1>4, MarketTypeCorrect, MarketUsesRegistrar, PTL DEF MarketSpec

=============================================================================
