-------------------- MODULE ArcRegistrarController_proofs --------------------
(***************************************************************************)
(* Proofs about ArcRegistrarController, for any set of permits, accounts,  *)
(* signers and names, and any prices, fees and delays.                     *)
(***************************************************************************)
EXTENDS ArcRegistrarController, ArcBaseRegistrar_proofs

(***************************************************************************)
(* To the registrar the controller is one of its callers: what is proved   *)
(* of RegistrarSpec holds here.                                            *)
(***************************************************************************)
LEMMA PermitFields ==
  ASSUME NEW p \in Permits
  PROVE  /\ p.name \in Names /\ p.requester \in Addresses /\ p.recipient \in Addresses
         /\ p.payer \in Addresses /\ p.referrer \in Addresses \cup {Zero}
         /\ p.years \in Nat /\ p.withData \in BOOLEAN /\ p.amount \in Nat /\ p.bps \in Nat
         /\ p.permitId \in Nat /\ p.nonce \in Nat /\ p.signer \in Signers
  BY ControllerAssumption DEF Permit

LEMMA RegisterIsRegistrarStep ==
  ASSUME NEW caller \in Users, NEW p \in Permits, NEW fee,
         now + p.years * YEAR <= MaxExpiry, ControllerRegister(caller, p, fee)
  PROVE  RegistrarNext
<1>1. /\ p.name \in Names /\ p.recipient \in Addresses /\ p.withData \in BOOLEAN
      /\ p.years * YEAR \in Durations
      /\ PublicResolver \in RegisterResolvers /\ Controller \in Addresses
  BY PermitFields, ControllerAssumption, RegistrarAssumption
  DEF ControllerRegister, PermitTerms, ValidYears
<1>2. Register(Controller, p.name, p.recipient, p.years * YEAR, PublicResolver, p.withData)
  BY DEF ControllerRegister
<1>3. ControllerCall(Controller, p.name)
  BY <1>1, <1>2 DEF ControllerCall
<1> QED
  BY <1>1, <1>3 DEF RegistrarNext

LEMMA RenewIsRegistrarStep ==
  ASSUME NEW caller, NEW id \in Names, NEW years \in RenewalYears, NEW fee,
         nameExpires[id] + years * YEAR <= MaxExpiry, ControllerRenew(caller, id, years, fee)
  PROVE  RegistrarNext
<1>1. years * YEAR \in Durations /\ Controller \in Addresses
  BY ControllerAssumption, RegistrarAssumption DEF ControllerRenew, ValidYears
<1>2. Renew(Controller, id, years * YEAR)
  BY DEF ControllerRenew
<1>3. ControllerCall(Controller, id)
  BY <1>1, <1>2 DEF ControllerCall
<1> QED
  BY <1>1, <1>3 DEF RegistrarNext

LEMMA StepIsRegistrarStep ==
  RegistrarTypes /\ [ControllerNext]_vars => [RegistrarNext]_nameVars
<1> SUFFICES ASSUME RegistrarTypes, [ControllerNext]_vars
             PROVE  RegistrarNext \/ UNCHANGED nameVars
  OBVIOUS
<1>1. ASSUME NEW caller \in Users, NEW fee \in TransferFees, UserCall(caller, fee)
      PROVE  RegistrarNext \/ UNCHANGED nameVars
  <2>1. ASSUME ClaimReferral(caller, fee)
        PROVE  UNCHANGED nameVars
    BY <2>1 DEF ClaimReferral
  <2> QED
    BY <1>1, <2>1, RegisterIsRegistrarStep, RenewIsRegistrarStep DEF UserCall
<1>2. ASSUME NEW fee \in TransferFees, OwnerCall(fee)
      PROVE  UNCHANGED nameVars
  BY <1>2 DEF OwnerCall, WithdrawTreasurySurplus, ProposePermitSigner, RevokePermitSigner,
              SetTreasury, SetReferralBps, SetRegistrationsPaused
<1>3. CASE RegistrarStep
  <2>1. ASSUME NEW id \in Names, NEW to \in Recipients, TransferFrom(tokenOwner[id], to, id)
        PROVE  RegistrarNext
    <3>1. tokenOwner[id] \in Addresses /\ to \in Addresses
      BY <2>1, ControllerAssumption DEF TransferFrom, Exists, RegistrarTypes
    <3>2. TokenCall(tokenOwner[id], id)
      BY <2>1, <3>1 DEF TokenCall
    <3> QED
      BY <3>1, <3>2 DEF RegistrarNext
  <2> QED
    BY <1>3, <2>1 DEF RegistrarStep, RegistrarNext
<1>4. CASE ActivatePermitSigner \/ Donate \/ UNCHANGED vars
  BY <1>4 DEF ActivatePermitSigner, Donate, vars
<1> QED
  BY <1>1, <1>2, <1>3, <1>4 DEF ControllerNext

\* The controller together with the registrar is a registrar: what TypeCorrect,
\* RecordsCorrect and Refinement say of the registrar's names also holds of those
\* the controller sells.
THEOREM ControllerUsesRegistrar == ControllerSpec => RegistrarSpec
<1>1. ControllerInit => RegistrarInit
  BY DEF ControllerInit
<1>2. RegistrarTypes /\ [ControllerNext]_vars => [RegistrarNext]_nameVars
  BY StepIsRegistrarStep
<1>3. RegistrarTypes /\ [RegistrarNext]_nameVars => RegistrarTypes'
  BY NextTypes
<1> QED
  BY <1>1, <1>2, <1>3, InitTypes, PTL DEF ControllerSpec, RegistrarSpec

(***************************************************************************)
(* Types of the controller's variables, one group of them per lemma.       *)
(***************************************************************************)
LEMMA UsersHaveWallets ==
  /\ Controller \in Addresses /\ Controller \notin Users /\ Users \subseteq Addresses
  BY RegistrarAssumption DEF Users

LEMMA QuoteType ==
  ASSUME NEW id \in Names, NEW years \in Nat
  PROVE  AnnualPrice(id) \in Nat /\ Quote(id, years) \in Nat
<1>1. AnnualPrice(id) \in Nat
  BY ControllerAssumption DEF AnnualPrice
<1> QED
  BY <1>1 DEF Quote

\* What a collection does to the wallets, whoever pays.
LEMMA CollectMoves ==
  ASSUME wallet \in [Addresses -> Nat], NEW payer \in Users, NEW amount \in Nat,
         NEW fee \in TransferFees, CollectExact(payer, amount, fee)
  PROVE  /\ wallet' \in [Addresses -> Nat]
         /\ wallet'[Controller] = wallet[Controller] + amount
         /\ \A a \in Users : wallet'[a] < wallet[a] => a = payer
<1>1. /\ payer \in Addresses /\ payer # Controller /\ Controller \in Addresses
      /\ fee \in Nat /\ Users \subseteq Addresses /\ Controller \notin Users
  BY UsersHaveWallets, ControllerAssumption
<1> QED
  BY <1>1 DEF CollectExact

LEMMA PayMoves ==
  ASSUME wallet \in [Addresses -> Nat], NEW recipient \in Addresses, NEW amount \in Nat,
         NEW fee \in TransferFees, PayExact(recipient, amount, fee)
  PROVE  /\ wallet' \in [Addresses -> Nat]
         /\ \A a \in Users : wallet'[a] >= wallet[a]
<1>1. /\ Controller \in Addresses /\ fee \in Nat
      /\ Users \subseteq Addresses /\ Controller \notin Users
  BY UsersHaveWallets, ControllerAssumption
<1> QED
  BY <1>1 DEF PayExact

LEMMA AccrueTypes ==
  ASSUME referralCredits \in [Addresses -> Nat], totalReferralLiability \in Nat,
         NEW referrer \in Addresses \cup {Zero}, NEW amount \in Nat, NEW bps \in Nat,
         AccrueReferral(referrer, amount, bps)
  PROVE  referralCredits' \in [Addresses -> Nat] /\ totalReferralLiability' \in Nat
<1> DEFINE credit == (amount * bps) \div BPS_DENOMINATOR
<1>1. credit \in Nat
  <2>1. amount * bps \in Nat
    OBVIOUS
  <2>2. BPS_DENOMINATOR \in Nat \ {0}
    BY ControllerAssumption
  <2> HIDE DEF credit
  <2>3. ASSUME NEW x \in Nat, NEW y \in Nat \ {0}
        PROVE  x \div y \in Nat
    BY <2>3
  <2> QED
    BY <2>1, <2>2, <2>3 DEF credit
<1>2. CASE referrer = Zero
  BY <1>2 DEF AccrueReferral, creditVars
<1>3. CASE referrer # Zero
  <2>1. referralCredits' = [referralCredits EXCEPT ![referrer] = @ + credit]
    BY <1>3 DEF AccrueReferral
  <2>2. totalReferralLiability' = totalReferralLiability + credit
    BY <1>3 DEF AccrueReferral
  <2> HIDE DEF credit
  <2> QED
    BY <1>1, <1>3, <2>1, <2>2
<1> QED
  BY <1>2, <1>3

LEMMA ControllerInitTypes == ControllerInit => ControllerTypeOK
<1> SUFFICES ASSUME ControllerInit PROVE ControllerTypeOK
  OBVIOUS
<1>1. wallet \in [Addresses -> Nat]
  BY UsersHaveWallets, ControllerAssumption DEF ControllerInit, Users
<1>2. /\ permitSigner \in Signers \cup {Zero} /\ pendingPermitSigner \in Signers \cup {Zero}
      /\ pendingPermitSignerValidAfter \in Nat /\ treasury \in Treasuries
      /\ registrationsPaused \in BOOLEAN /\ usedPermit \subseteq Nat
  BY DEF ControllerInit
<1>3. referralBps \in 0..MAX_REFERRAL_BPS
  BY ControllerAssumption DEF ControllerInit
<1>4. nonces \in [Addresses -> Nat] /\ referralCredits \in [Addresses -> Nat]
      /\ totalReferralLiability \in Nat
  BY DEF ControllerInit
<1>5. redeemed \in Seq([permit : Permits, caller : Addresses, at : Nat])
  BY DEF ControllerInit
<1>6. revoked \in [Signers -> [at : Nat, after : Nat, ever : BOOLEAN]]
  BY DEF ControllerInit, NeverRevoked
<1> QED
  BY <1>1, <1>2, <1>3, <1>4, <1>5, <1>6 DEF ControllerTypeOK

LEMMA RegisterKeepsTypes ==
  ASSUME ControllerTypeOK, RegistrarTypes, NEW caller \in Users, NEW p \in Permits,
         NEW fee \in TransferFees, ControllerRegister(caller, p, fee)
  PROVE  ControllerTypeOK'
<1>1. /\ p.requester \in Addresses /\ p.payer = caller /\ p.requester = caller
      /\ p.amount \in Nat /\ p.bps \in Nat /\ p.permitId \in Nat /\ p.nonce \in Nat
      /\ p.referrer \in Addresses \cup {Zero} /\ caller \in Addresses
  BY PermitFields DEF ControllerRegister, PermitParties, Users
<1>2. wallet' \in [Addresses -> Nat]
  <2>1. wallet \in [Addresses -> Nat] /\ CollectExact(caller, p.amount, fee)
    BY <1>1 DEF ControllerTypeOK, ControllerRegister
  <2> QED
    BY <1>1, <2>1, CollectMoves
<1>3. referralCredits' \in [Addresses -> Nat] /\ totalReferralLiability' \in Nat
  <2>1. /\ referralCredits \in [Addresses -> Nat] /\ totalReferralLiability \in Nat
        /\ AccrueReferral(p.referrer, p.amount, p.bps)
    BY DEF ControllerTypeOK, ControllerRegister
  <2> QED
    BY <1>1, <2>1, AccrueTypes
<1>4. usedPermit' \subseteq Nat /\ nonces' \in [Addresses -> Nat]
  <2>1. /\ usedPermit' = usedPermit \cup {p.permitId}
        /\ nonces' = [nonces EXCEPT ![p.requester] = p.nonce + 1]
    BY DEF ControllerRegister
  <2>2. usedPermit \subseteq Nat /\ nonces \in [Addresses -> Nat]
    BY DEF ControllerTypeOK
  <2>3. p.nonce + 1 \in Nat
    BY <1>1
  <2>4. usedPermit' \subseteq Nat
    BY <1>1, <2>1, <2>2
  <2>5. nonces' \in [Addresses -> Nat]
    BY <1>1, <2>1, <2>2, <2>3, Zenon
  <2> QED
    BY <2>4, <2>5
<1>5. redeemed' \in Seq([permit : Permits, caller : Addresses, at : Nat])
  <2> DEFINE entry == [permit |-> p, caller |-> caller, at |-> now]
             Entries == [permit : Permits, caller : Addresses, at : Nat]
  <2>1. entry \in Entries
    BY <1>1 DEF RegistrarTypes
  <2>2. redeemed \in Seq(Entries) /\ redeemed' = Append(redeemed, entry)
    BY DEF ControllerTypeOK, ControllerRegister
  <2> HIDE DEF entry, Entries
  <2>3. redeemed' \in Seq(Entries)
    BY <2>1, <2>2
  <2> QED
    BY <2>3 DEF Entries
<1>6. UNCHANGED <<signerVars, policyVars, revoked>>
  BY DEF ControllerRegister
<1> QED
  BY <1>2, <1>3, <1>4, <1>5, <1>6 DEF ControllerTypeOK, signerVars, policyVars

LEMMA RenewKeepsTypes ==
  ASSUME ControllerTypeOK, NEW caller \in Users, NEW id \in Names, NEW years \in Nat,
         NEW fee \in TransferFees, ControllerRenew(caller, id, years, fee)
  PROVE  ControllerTypeOK'
<1>1. /\ wallet \in [Addresses -> Nat] /\ CollectExact(caller, Quote(id, years), fee)
      /\ Quote(id, years) \in Nat
  BY QuoteType DEF ControllerTypeOK, ControllerRenew
<1>2. wallet' \in [Addresses -> Nat]
  BY <1>1, CollectMoves
<1>3. UNCHANGED <<creditVars, signerVars, policyVars, permitVars, revoked>>
  BY DEF ControllerRenew
<1> QED
  BY <1>2, <1>3 DEF ControllerTypeOK, creditVars, signerVars, policyVars, permitVars

LEMMA ClaimKeepsTypes ==
  ASSUME ControllerTypeOK, NEW caller \in Users, NEW fee \in TransferFees,
         ClaimReferral(caller, fee)
  PROVE  ControllerTypeOK'
<1>1. /\ caller \in Addresses /\ wallet \in [Addresses -> Nat]
      /\ referralCredits[caller] \in Nat /\ PayExact(caller, referralCredits[caller], fee)
  BY UsersHaveWallets DEF ControllerTypeOK, ClaimReferral
<1>2. wallet' \in [Addresses -> Nat]
  BY <1>1, PayMoves
<1>3. referralCredits' \in [Addresses -> Nat] /\ totalReferralLiability' \in Nat
  BY <1>1 DEF ControllerTypeOK, ClaimReferral, Discharge
<1>4. UNCHANGED <<signerVars, policyVars, permitVars, revoked>>
  BY DEF ClaimReferral
<1> QED
  BY <1>2, <1>3, <1>4 DEF ControllerTypeOK, signerVars, policyVars, permitVars

LEMMA OwnerKeepsTypes ==
  ASSUME ControllerTypeOK, RegistrarTypes, NEW fee \in TransferFees, OwnerCall(fee)
  PROVE  ControllerTypeOK'
<1>1. ASSUME NEW amount \in Withdrawals, WithdrawTreasurySurplus(amount, fee)
      PROVE  ControllerTypeOK'
  <2>1. /\ wallet \in [Addresses -> Nat] /\ amount \in Nat /\ treasury \in Addresses
        /\ PayExact(treasury, amount, fee)
    BY <1>1, ControllerAssumption DEF ControllerTypeOK, WithdrawTreasurySurplus
  <2>2. wallet' \in [Addresses -> Nat]
    BY <2>1, PayMoves
  <2>3. UNCHANGED <<creditVars, signerVars, policyVars, permitVars, revoked>>
    BY <1>1 DEF WithdrawTreasurySurplus
  <2> QED
    BY <2>2, <2>3 DEF ControllerTypeOK, creditVars, signerVars, policyVars, permitVars
<1>2. ASSUME NEW s \in Proposals, ProposePermitSigner(s)
      PROVE  ControllerTypeOK'
  <2>1. pendingPermitSigner' \in Signers \cup {Zero} /\ pendingPermitSignerValidAfter' \in Nat
    BY <1>2, ControllerAssumption DEF RegistrarTypes, ProposePermitSigner
  <2>2. UNCHANGED <<permitSigner, wallet, policyVars, permitVars, creditVars, revoked>>
    BY <1>2 DEF ProposePermitSigner
  <2> QED
    BY <2>1, <2>2 DEF ControllerTypeOK, policyVars, permitVars, creditVars
<1>3. CASE RevokePermitSigner
  <2>1. /\ permitSigner' = Zero /\ pendingPermitSigner' = Zero
        /\ pendingPermitSignerValidAfter' = 0
    BY <1>3 DEF RevokePermitSigner, RemoveSigners
  <2>2. revoked' \in [Signers -> [at : Nat, after : Nat, ever : BOOLEAN]]
    <3> DEFINE entry == [at |-> now, after |-> Len(redeemed), ever |-> TRUE]
    <3>1. entry \in [at : Nat, after : Nat, ever : BOOLEAN]
      BY DEF RegistrarTypes, ControllerTypeOK
    <3>2. revoked' = [s \in Signers |->
            IF s \in {permitSigner, pendingPermitSigner} THEN entry ELSE revoked[s]]
      BY <1>3 DEF RevokePermitSigner
    <3> HIDE DEF entry
    <3> QED
      BY <3>1, <3>2 DEF ControllerTypeOK
  <2>3. UNCHANGED <<wallet, policyVars, permitVars, creditVars>>
    BY <1>3 DEF RevokePermitSigner
  <2> QED
    BY <2>1, <2>2, <2>3 DEF ControllerTypeOK, policyVars, permitVars, creditVars
<1>4. ASSUME NEW t \in Treasuries, SetTreasury(t)
      PROVE  ControllerTypeOK'
  BY <1>4 DEF ControllerTypeOK, SetTreasury, signerVars, permitVars, creditVars
<1>5. ASSUME NEW bps \in ReferralRates, SetReferralBps(bps)
      PROVE  ControllerTypeOK'
  <2>1. referralBps' \in 0..MAX_REFERRAL_BPS
    BY <1>5, ControllerAssumption DEF SetReferralBps
  <2>2. UNCHANGED <<treasury, registrationsPaused, wallet, signerVars, permitVars, creditVars,
                    revoked>>
    BY <1>5 DEF SetReferralBps
  <2> QED
    BY <2>1, <2>2 DEF ControllerTypeOK, signerVars, permitVars, creditVars
<1>6. ASSUME NEW paused \in BOOLEAN, SetRegistrationsPaused(paused)
      PROVE  ControllerTypeOK'
  BY <1>6 DEF ControllerTypeOK, SetRegistrationsPaused, signerVars, permitVars, creditVars
<1> QED
  BY <1>1, <1>2, <1>3, <1>4, <1>5, <1>6 DEF OwnerCall

LEMMA ControllerNextTypes ==
  ControllerTypeOK /\ RegistrarTypes /\ [ControllerNext]_vars => ControllerTypeOK'
<1> SUFFICES ASSUME ControllerTypeOK, RegistrarTypes, [ControllerNext]_vars
             PROVE  ControllerTypeOK'
  OBVIOUS
<1>1. ASSUME NEW caller \in Users, NEW fee \in TransferFees, UserCall(caller, fee)
      PROVE  ControllerTypeOK'
  BY <1>1, ControllerAssumption, RegisterKeepsTypes, RenewKeepsTypes, ClaimKeepsTypes DEF UserCall
<1>2. CASE ActivatePermitSigner
  BY <1>2 DEF ControllerTypeOK, ActivatePermitSigner, policyVars, permitVars, creditVars
<1>3. CASE RegistrarStep \/ UNCHANGED vars
  <2>1. UNCHANGED controllerVars
    BY <1>3 DEF RegistrarStep, vars
  <2> QED
    BY <2>1 DEF ControllerTypeOK, controllerVars, signerVars, policyVars, permitVars, creditVars
<1>4. CASE Donate
  BY <1>4, UsersHaveWallets
  DEF ControllerTypeOK, Donate, signerVars, policyVars, permitVars, creditVars
<1> QED
  BY <1>1, <1>2, <1>3, <1>4, OwnerKeepsTypes DEF ControllerNext

\* The controller's variables keep their types: no subtraction the code makes on
\* credits, liability or wallets passes below zero, and the rate keeps its maximum.
THEOREM ControllerTypeCorrect == ControllerSpec => []ControllerTypeOK
<1>1. ControllerInit => ControllerTypeOK
  BY ControllerInitTypes
<1>2. ControllerTypeOK /\ RegistrarTypes /\ [ControllerNext]_vars => ControllerTypeOK'
  BY ControllerNextTypes
<1>3. RegistrarSpec => []RegistrarTypes
  BY InitTypes, NextTypes, PTL DEF RegistrarSpec
<1> QED
  BY <1>1, <1>2, <1>3, ControllerUsesRegistrar, PTL DEF ControllerSpec

(***************************************************************************)
(* The controller as a vault of its referrers.  A registration is a        *)
(* receipt: the credit is at most the price, because the rate of a permit  *)
(* is the controller's or zero and the maximum is at most one.             *)
(***************************************************************************)
VaultStep == Vault!VaultNext \/ UNCHANGED Vault!vaultVars

LEMMA VaultUnchanged ==
  ASSUME UNCHANGED <<wallet, creditVars>>
  PROVE  VaultStep
  BY DEF VaultStep, Vault!vaultVars, creditVars

\* Money that comes in for a price, of which one account is credited a part.
LEMMA ReceiptIsReceive ==
  ASSUME ControllerTypeOK, NEW a \in Addresses, NEW amount \in Nat, NEW credit \in 0..amount,
         wallet'[Controller] = wallet[Controller] + amount,
         referralCredits' = [referralCredits EXCEPT ![a] = @ + credit],
         totalReferralLiability' = totalReferralLiability + credit
  PROVE  VaultStep
<1>1. /\ wallet[Controller] \in Nat /\ referralCredits \in [Addresses -> Nat]
      /\ totalReferralLiability \in Nat /\ credit \in Nat
  BY UsersHaveWallets DEF ControllerTypeOK
<1>2. CASE amount = 0
  <2>1. credit = 0 /\ wallet'[Controller] = wallet[Controller]
    BY <1>1, <1>2
  <2>2. referralCredits' = referralCredits /\ totalReferralLiability' = totalReferralLiability
    BY <1>1, <2>1
  <2> QED
    BY <2>1, <2>2 DEF VaultStep, Vault!vaultVars
<1>3. CASE amount # 0
  <2>1. /\ wallet'[Controller] > wallet[Controller]
        /\ credit \in 0 .. wallet'[Controller] - wallet[Controller]
    BY <1>1, <1>3
  <2>2. Vault!Receive
    BY <2>1 DEF Vault!Receive
  <2> QED
    BY <2>2 DEF VaultStep, Vault!VaultNext
<1> QED
  BY <1>2, <1>3

LEMMA ShareBounded ==
  ASSUME NEW x \in Nat, NEW d \in Nat \ {0}, NEW b \in 0..d
  PROVE  (x * b) \div d \in 0..x
<1> DEFINE q == (x * b) \div d
<1>1. x * b \in Nat /\ b \in Nat
  OBVIOUS
<1>2. ASSUME NEW y \in Nat
      PROVE  y \div d \in Nat /\ d * (y \div d) <= y
  OBVIOUS
<1>3. q \in Nat /\ d * q <= x * b
  BY <1>1, <1>2
<1> HIDE DEF q
<1>4. x * b <= d * x
  OBVIOUS
<1>5. d * q <= d * x
  BY <1>1, <1>3, <1>4
<1>6. q <= x
  BY <1>3, <1>5
<1> QED
  BY <1>3, <1>6 DEF q

LEMMA RegisterIsReceive ==
  ASSUME ControllerTypeOK, NEW caller \in Users, NEW p \in Permits, NEW fee \in TransferFees,
         ControllerRegister(caller, p, fee)
  PROVE  VaultStep
<1> DEFINE credit == (p.amount * p.bps) \div BPS_DENOMINATOR
<1>1. p.amount \in Nat /\ wallet'[Controller] = wallet[Controller] + p.amount
  <2>1. /\ CollectExact(caller, p.amount, fee) /\ wallet \in [Addresses -> Nat]
        /\ p.amount \in Nat
    BY PermitFields DEF ControllerRegister, PermitParties, ControllerTypeOK
  <2> QED
    BY <2>1, CollectMoves
<1>2. AccrueReferral(p.referrer, p.amount, p.bps)
  BY DEF ControllerRegister
<1>3. CASE p.referrer = Zero
  <2>1. referralCredits' = referralCredits /\ totalReferralLiability' = totalReferralLiability
    BY <1>2, <1>3 DEF AccrueReferral, creditVars
  <2>2. /\ referralCredits' = [referralCredits EXCEPT ![Controller] = @ + 0]
        /\ totalReferralLiability' = totalReferralLiability + 0
        /\ 0 \in 0..p.amount /\ Controller \in Addresses
    BY <1>1, <2>1, UsersHaveWallets DEF ControllerTypeOK
  <2> QED
    BY <1>1, <2>2, ReceiptIsReceive
<1>4. CASE p.referrer # Zero
  <2>1. p.referrer \in Addresses
    BY <1>4, PermitFields
  <2>2. credit \in 0..p.amount
    <3>1. p.bps \in 0..BPS_DENOMINATOR /\ BPS_DENOMINATOR \in Nat \ {0}
      BY <1>4, ControllerAssumption DEF ControllerRegister, PermitTerms, ControllerTypeOK
    <3> QED
      BY <1>1, <3>1, ShareBounded
  <2>3. /\ referralCredits' = [referralCredits EXCEPT ![p.referrer] = @ + credit]
        /\ totalReferralLiability' = totalReferralLiability + credit
    BY <1>2, <1>4 DEF AccrueReferral
  <2> HIDE DEF credit
  <2> QED
    BY <1>1, <2>1, <2>2, <2>3, ReceiptIsReceive
<1> QED
  BY <1>3, <1>4

\* A payment without a credit: a renewal, or money from a stranger.
LEMMA UncreditedIsReceive ==
  ASSUME ControllerTypeOK, NEW amount \in Nat, UNCHANGED creditVars,
         wallet'[Controller] = wallet[Controller] + amount
  PROVE  VaultStep
<1>1. /\ referralCredits' = [referralCredits EXCEPT ![Controller] = @ + 0]
      /\ totalReferralLiability' = totalReferralLiability + 0
      /\ 0 \in 0..amount /\ Controller \in Addresses
  BY UsersHaveWallets DEF ControllerTypeOK, creditVars
<1> QED
  BY <1>1, ReceiptIsReceive

LEMMA RenewIsReceive ==
  ASSUME ControllerTypeOK, NEW caller \in Users, NEW id \in Names, NEW years \in Nat,
         NEW fee \in TransferFees, ControllerRenew(caller, id, years, fee)
  PROVE  VaultStep
<1>1. /\ CollectExact(caller, Quote(id, years), fee) /\ wallet \in [Addresses -> Nat]
      /\ Quote(id, years) \in Nat /\ UNCHANGED creditVars
  BY QuoteType DEF ControllerRenew, ControllerTypeOK
<1>2. wallet'[Controller] = wallet[Controller] + Quote(id, years)
  BY <1>1, CollectMoves
<1> QED
  BY <1>1, <1>2, UncreditedIsReceive

LEMMA ClaimIsClaim ==
  ASSUME ControllerTypeOK, NEW caller \in Users, NEW fee \in TransferFees,
         ClaimReferral(caller, fee)
  PROVE  VaultStep
<1>1. /\ wallet[Controller] \in Nat /\ wallet \in [Addresses -> Nat] /\ caller \in Addresses
      /\ referralCredits[caller] \in Nat /\ referralCredits[caller] # 0
  BY UsersHaveWallets DEF ControllerTypeOK, ClaimReferral, HasCredit
<1>2. wallet'[Controller] = wallet[Controller] - referralCredits[caller]
  <2>1. /\ caller # Controller
        /\ wallet' = [wallet EXCEPT ![Controller] = @ - referralCredits[caller],
                                    ![caller] = @ + referralCredits[caller] - fee]
    BY DEF ClaimReferral, PayExact
  <2> QED
    BY <1>1, <2>1, UsersHaveWallets
<1>3. /\ referralCredits' = [referralCredits EXCEPT ![caller] = 0]
      /\ totalReferralLiability' = totalReferralLiability - referralCredits[caller]
  BY DEF ClaimReferral, Discharge
<1>4. Vault!Claim(caller)
  BY <1>1, <1>2, <1>3 DEF Vault!Claim
<1> QED
  BY <1>1, <1>4 DEF VaultStep, Vault!VaultNext

LEMMA WithdrawIsWithdraw ==
  ASSUME ControllerTypeOK, NEW amount \in Withdrawals, NEW fee \in TransferFees,
         WithdrawTreasurySurplus(amount, fee)
  PROVE  VaultStep
<1>1. /\ wallet[Controller] \in Nat /\ wallet \in [Addresses -> Nat] /\ treasury \in Addresses
      /\ amount \in Nat \ {0} /\ Controller \in Addresses
  BY UsersHaveWallets, ControllerAssumption DEF ControllerTypeOK
<1>2. wallet'[Controller] = wallet[Controller] - amount
  <2>1. /\ treasury # Controller
        /\ wallet' = [wallet EXCEPT ![Controller] = @ - amount, ![treasury] = @ + amount - fee]
    BY DEF WithdrawTreasurySurplus, PayExact
  <2> QED
    BY <1>1, <2>1
<1>3. /\ UNCHANGED <<referralCredits, totalReferralLiability>>
      /\ wallet'[Controller] >= totalReferralLiability
  BY DEF WithdrawTreasurySurplus, RequireSolvent, creditVars
<1>4. Vault!Withdraw
  BY <1>1, <1>2, <1>3 DEF Vault!Withdraw
<1> QED
  BY <1>4 DEF VaultStep, Vault!VaultNext

LEMMA StepIsVaultStep ==
  ControllerTypeOK /\ [ControllerNext]_vars => VaultStep
<1> SUFFICES ASSUME ControllerTypeOK, [ControllerNext]_vars
             PROVE  VaultStep
  OBVIOUS
<1>1. ASSUME NEW caller \in Users, NEW fee \in TransferFees, UserCall(caller, fee)
      PROVE  VaultStep
  BY <1>1, ControllerAssumption, RegisterIsReceive, RenewIsReceive, ClaimIsClaim DEF UserCall
<1>2. ASSUME NEW fee \in TransferFees, OwnerCall(fee)
      PROVE  VaultStep
  BY <1>2, WithdrawIsWithdraw, VaultUnchanged
  DEF OwnerCall, ProposePermitSigner, RevokePermitSigner, SetTreasury, SetReferralBps,
      SetRegistrationsPaused
<1>3. CASE Donate
  <2>1. wallet'[Controller] = wallet[Controller] + 1 /\ UNCHANGED creditVars
    BY <1>3, UsersHaveWallets DEF Donate, ControllerTypeOK
  <2> QED
    BY <2>1, UncreditedIsReceive
<1>4. CASE ActivatePermitSigner \/ RegistrarStep \/ UNCHANGED vars
  BY <1>4, VaultUnchanged DEF ActivatePermitSigner, RegistrarStep, vars, controllerVars
<1> QED
  BY <1>1, <1>2, <1>3, <1>4 DEF ControllerNext

\* The controller implements PullPaymentVault for any permits, prices, rates and
\* transfer fees: a credit never exceeds the price that came in for it, only the
\* referrer takes it out, in full, and the treasury gets what is left over.
THEOREM ControllerKeepsVaultPromise == ControllerSpec => KeepsVaultPromise
<1>1. ControllerInit => Vault!VaultInit
  BY UsersHaveWallets DEF ControllerInit, Vault!VaultInit
<1>2. ControllerTypeOK /\ [ControllerNext]_vars => [Vault!VaultNext]_Vault!vaultVars
  BY StepIsVaultStep DEF VaultStep
<1> QED
  BY <1>1, <1>2, ControllerTypeCorrect, PTL DEF ControllerSpec, KeepsVaultPromise, Vault!VaultSpec

\* What is owed is a ledger: the liability counts the units of the debts, and the
\* balance covers it.  Every step of a vault keeps it so.
LedgerInv == Ledger(Addresses, referralCredits, totalReferralLiability, wallet[Controller])

LEMMA VaultStepKeepsLedger ==
  ASSUME ControllerTypeOK, ControllerTypeOK', LedgerInv, VaultStep
  PROVE  LedgerInv'
<1>1. /\ wallet[Controller] \in Nat /\ wallet'[Controller] \in Nat
      /\ referralCredits \in [Addresses -> Nat] /\ totalReferralLiability \in Nat
  BY UsersHaveWallets DEF ControllerTypeOK
<1>2. Ledger(Addresses, referralCredits, totalReferralLiability, wallet[Controller])
  BY DEF LedgerInv
<1>3. CASE Vault!Receive
  <2>1. PICK a \in Addresses, credit \in 0..(wallet'[Controller] - wallet[Controller]) :
          /\ referralCredits' = [referralCredits EXCEPT ![a] = @ + credit]
          /\ totalReferralLiability' = totalReferralLiability + credit
    BY <1>3 DEF Vault!Receive
  <2>2. credit \in Nat /\ wallet'[Controller] >= wallet[Controller] + credit
    BY <1>1, <2>1
  <2>3. Ledger(Addresses, [referralCredits EXCEPT ![a] = @ + credit],
               totalReferralLiability + credit, wallet'[Controller])
    BY <1>1, <1>2, <2>2, LedgerCredited
  <2> QED
    BY <2>1, <2>3, Zenon DEF LedgerInv
<1>4. ASSUME NEW a \in Addresses, Vault!Claim(a)
      PROVE  LedgerInv'
  <2>1. /\ referralCredits' = [referralCredits EXCEPT ![a] = 0]
        /\ totalReferralLiability' = totalReferralLiability - referralCredits[a]
        /\ wallet'[Controller] = wallet[Controller] - referralCredits[a]
    BY <1>4 DEF Vault!Claim
  <2>2. Ledger(Addresses, [referralCredits EXCEPT ![a] = 0],
               totalReferralLiability - referralCredits[a],
               wallet[Controller] - referralCredits[a])
    BY <1>1, <1>2, LedgerPaid
  <2> QED
    BY <2>1, <2>2, Zenon DEF LedgerInv
<1>5. CASE Vault!Withdraw
  BY <1>2, <1>5 DEF Vault!Withdraw, Ledger, LedgerInv
<1>6. CASE UNCHANGED Vault!vaultVars
  BY <1>2, <1>6 DEF Vault!vaultVars, LedgerInv
<1> QED
  BY <1>3, <1>4, <1>5, <1>6 DEF VaultStep, Vault!VaultNext

LEMMA LedgerInvariance == ControllerSpec => []LedgerInv
<1>1. ControllerInit => LedgerInv
  <2> SUFFICES ASSUME ControllerInit PROVE LedgerInv
    OBVIOUS
  <2>1. /\ referralCredits \in [Addresses -> Nat] /\ \A a \in Addresses : referralCredits[a] = 0
        /\ totalReferralLiability = 0 /\ wallet[Controller] >= 0
    BY UsersHaveWallets DEF ControllerInit
  <2>2. /\ IsFiniteSet(Units(Addresses, referralCredits))
        /\ Cardinality(Units(Addresses, referralCredits)) = 0
    BY <2>1, NoUnits
  <2> QED
    BY <2>1, <2>2 DEF LedgerInv, Ledger
<1>2. ControllerTypeOK /\ ControllerTypeOK' /\ LedgerInv /\ [ControllerNext]_vars => LedgerInv'
  BY StepIsVaultStep, VaultStepKeepsLedger
<1> QED
  BY <1>1, <1>2, ControllerTypeCorrect, PTL DEF ControllerSpec

\* The liability of the controller is the sum of its referrers' credits, and it holds
\* that much, for any number of referrers, prices, rates and transfer fees, and whatever
\* amounts the owner tries to withdraw.
THEOREM ControllerSolventCorrect == ControllerSpec => []ControllerSolvent
<1>1. LedgerInv => ControllerSolvent
  <2>1. Vault!Debts = Units(Addresses, referralCredits)
    BY DEF Vault!Debts, Units
  <2> QED
    BY <2>1
    DEF LedgerInv, Ledger, ControllerSolvent, Vault!Solvent, Cardinality, Vault!Cardinality
<1> QED
  BY <1>1, LedgerInvariance, PTL

(***************************************************************************)
(* Calls that never revert.  The prover has no ENABLED: what stands for    *)
(* it is that the values the code assigns, from any state the controller   *)
(* can be in, pass every check of the call.                                *)
(***************************************************************************)
ReachableInv == ControllerTypeOK /\ RegistrarTypes /\ LedgerInv

LEMMA Reachable == ControllerSpec => []ReachableInv
<1>1. RegistrarSpec => []RegistrarTypes
  BY InitTypes, NextTypes, PTL DEF RegistrarSpec
<1> QED
  BY <1>1, ControllerTypeCorrect, ControllerUsesRegistrar, LedgerInvariance, PTL
  DEF ReachableInv

\* What claimReferral does to the state when the settlement asset keeps fee of the transfer.
ClaimEffect(caller, fee) ==
  LET credit == referralCredits[caller]
  IN /\ referralCredits' = [referralCredits EXCEPT ![caller] = 0]
     /\ totalReferralLiability' = totalReferralLiability - credit
     /\ wallet' = [wallet EXCEPT ![Controller] = @ - credit, ![caller] = @ + credit - fee]
     /\ UNCHANGED <<signerVars, policyVars, permitVars, revoked, nameVars>>

\* Whoever has a credit can claim it, in every state: neither the checked subtraction
\* from the liability, nor the transfer, nor the solvency check that follows it reverts,
\* whatever was paused, withdrawn, claimed or renewed before.
THEOREM ClaimNeverReverts ==
  ASSUME ReachableInv, NEW caller \in Users, referralCredits[caller] > 0,
         NEW fee \in 0..referralCredits[caller], ClaimEffect(caller, fee)
  PROVE  ClaimReferral(caller, fee)
<1> DEFINE credit == referralCredits[caller]
<1>1. /\ wallet \in [Addresses -> Nat] /\ referralCredits \in [Addresses -> Nat]
      /\ totalReferralLiability \in Nat /\ credit \in Nat /\ wallet[Controller] \in Nat
      /\ caller \in Addresses /\ Controller \in Addresses /\ caller # Controller
  BY UsersHaveWallets DEF ReachableInv, ControllerTypeOK
<1>2. /\ Ledger(Addresses, referralCredits, totalReferralLiability, wallet[Controller])
      /\ wallet[Controller] >= totalReferralLiability
  BY DEF ReachableInv, LedgerInv, Ledger
<1>3. credit <= totalReferralLiability
  BY <1>1, <1>2, LedgerPaid
<1>4. HasCredit(caller) /\ Discharge(caller)
  BY <1>1, <1>3 DEF HasCredit, Discharge, ClaimEffect
<1>5. wallet[Controller] >= credit
  BY <1>1, <1>2, <1>3
<1>6. PayExact(caller, credit, fee)
  BY <1>1, <1>5 DEF PayExact, ClaimEffect
<1>7. /\ wallet'[Controller] = wallet[Controller] - credit
      /\ totalReferralLiability' = totalReferralLiability - credit
  BY <1>1 DEF ClaimEffect
<1>8. RequireSolvent
  BY <1>1, <1>2, <1>7 DEF RequireSolvent
<1> QED
  BY <1>4, <1>6, <1>8 DEF ClaimReferral, ClaimEffect

\* What renew does to the state when the settlement asset keeps fee of the transfer.
RenewalEffect(caller, id, years, fee) ==
  /\ wallet' = [wallet EXCEPT ![caller] = @ - Quote(id, years),
                              ![Controller] = @ + Quote(id, years) - fee]
  /\ nameExpires' = [nameExpires EXCEPT ![id] = @ + years * YEAR]
  /\ UNCHANGED <<now, tokenOwner, balances, tokenApprovals, operatorApprovals, controllers,
                 historyVars, registryVars, resolverVars, creditVars, signerVars, policyVars,
                 permitVars, revoked>>

\* The owner of a name that is not yet available again, who has the price, can renew it for
\* any number of years the code allows: no pause, revoked signer, credit or withdrawal is in
\* the way, and so neither is the solvency check at the end of renew.
THEOREM RenewalNeverReverts ==
  ASSUME ReachableInv, NEW id \in Names, NEW years \in Nat, ValidYears(years),
         tokenOwner[id] \in Users, ~Available(id), Controller \in controllers,
         wallet[tokenOwner[id]] >= Quote(id, years),
         RenewalEffect(tokenOwner[id], id, years, 0)
  PROVE  ControllerRenew(tokenOwner[id], id, years, 0)
<1> DEFINE u == tokenOwner[id]
           price == Quote(id, years)
<1>1. /\ wallet \in [Addresses -> Nat] /\ totalReferralLiability \in Nat
      /\ wallet[Controller] \in Nat /\ wallet[u] \in Nat /\ price \in Nat
      /\ u \in Addresses /\ Controller \in Addresses /\ u # Controller
      /\ now \in Nat /\ nameExpires[id] \in Nat /\ GRACE \in Nat
  BY UsersHaveWallets, QuoteType, RegistrarAssumption
  DEF ReachableInv, ControllerTypeOK, RegistrarTypes
<1>2. wallet[Controller] >= totalReferralLiability
  BY DEF ReachableInv, LedgerInv, Ledger
<1>3. MayRenew(u, id)
  BY <1>1, ZeroAssumption DEF MayRenew, Exists
<1>4. nameExpires[id] # 0 /\ now <= nameExpires[id] + GRACE
  BY <1>1 DEF Available
<1>5. Renew(Controller, id, years * YEAR)
  BY <1>4 DEF Renew, RenewalEffect
<1>6. wallet' = [wallet EXCEPT ![u] = @ - price, ![Controller] = @ + price - 0]
  BY DEF RenewalEffect
<1> HIDE DEF u, price
<1>7. wallet'[Controller] = wallet[Controller] + price
  BY <1>1, <1>6
<1>8. wallet[u] >= price
  BY DEF u, price
<1>9. CollectExact(u, price, 0)
  BY <1>1, <1>6, <1>7, <1>8 DEF CollectExact
<1>10. UNCHANGED <<creditVars, signerVars, policyVars, permitVars, revoked>>
  BY DEF RenewalEffect
<1>11. RequireSolvent
  BY <1>1, <1>2, <1>7, <1>10 DEF RequireSolvent, creditVars
<1> QED
  BY <1>3, <1>5, <1>9, <1>10, <1>11 DEF ControllerRenew, u, price

\* What register does to the state when the settlement asset keeps nothing of the transfer.
RegistrationEffect(caller, p) ==
  /\ wallet' = [wallet EXCEPT ![p.payer] = @ - p.amount, ![Controller] = @ + p.amount - 0]
  /\ AccrueReferral(p.referrer, p.amount, p.bps)
  /\ usedPermit' = usedPermit \cup {p.permitId}
  /\ nonces' = [nonces EXCEPT ![p.requester] = p.nonce + 1]
  /\ redeemed' = Append(redeemed, [permit |-> p, caller |-> caller, at |-> now])
  /\ ReplaceToken(p.name, p.recipient, now + p.years * YEAR)
  /\ ResetNode(p.name, p.recipient, PublicResolver, p.withData)
  /\ leaseNo' = [leaseNo EXCEPT ![p.name] = @ + 1]
  /\ delegated' = [delegated EXCEPT ![p.name] = FALSE]
  /\ UNCHANGED <<now, controllers, approvedIn, signerVars, policyVars, revoked>>

\* A permit that passes _validateRegistration for a name that is available, with the price
\* in its payer's wallet, is redeemed: whatever credit it promises the referrer and whatever
\* was claimed and withdrawn before, the solvency check behind the credit holds.
THEOREM RegistrationNeverReverts ==
  ASSUME ReachableInv, NEW caller \in Users, NEW p \in Permits, ~registrationsPaused,
         PermitParties(p, caller), PermitTerms(p), PermitUnused(p), PermitInWindow(p),
         p.signer = permitSigner, Available(p.name), Controller \in controllers,
         wallet[p.payer] >= p.amount, RegistrationEffect(caller, p)
  PROVE  ControllerRegister(caller, p, 0)
<1>1. /\ p.amount \in Nat /\ p.referrer \in Addresses \cup {Zero} /\ p.payer = caller
  BY PermitFields DEF PermitParties
<1>2. /\ wallet \in [Addresses -> Nat] /\ totalReferralLiability \in Nat
      /\ wallet[Controller] \in Nat /\ caller \in Addresses /\ Controller \in Addresses
      /\ caller # Controller
  BY UsersHaveWallets DEF ReachableInv, ControllerTypeOK
<1>3. wallet[Controller] >= totalReferralLiability
  BY DEF ReachableInv, LedgerInv, Ledger
<1>4. /\ wallet' = [wallet EXCEPT ![caller] = @ - p.amount, ![Controller] = @ + p.amount - 0]
      /\ AccrueReferral(p.referrer, p.amount, p.bps)
  BY <1>1 DEF RegistrationEffect
<1>5. wallet'[Controller] = wallet[Controller] + p.amount
  BY <1>1, <1>2, <1>4
<1>6. CollectExact(p.payer, p.amount, 0)
  BY <1>1, <1>2, <1>4, <1>5 DEF CollectExact
<1>7. RequireSolvent
  <2>1. CASE p.referrer = Zero
    BY <1>1, <1>2, <1>3, <1>4, <1>5, <2>1 DEF RequireSolvent, AccrueReferral, creditVars
  <2>2. CASE p.referrer # Zero
    <3> DEFINE credit == (p.amount * p.bps) \div BPS_DENOMINATOR
    <3>1. p.bps \in 0..BPS_DENOMINATOR /\ BPS_DENOMINATOR \in Nat \ {0}
      BY <2>2, ControllerAssumption DEF PermitTerms, ReachableInv, ControllerTypeOK
    <3>2. credit \in 0..p.amount
      BY <1>1, <3>1, ShareBounded
    <3>3. totalReferralLiability' = totalReferralLiability + credit
      BY <1>4, <2>2 DEF AccrueReferral
    <3> HIDE DEF credit
    <3> QED
      BY <1>1, <1>2, <1>3, <1>5, <3>2, <3>3 DEF RequireSolvent
  <2> QED
    BY <2>1, <2>2
<1>8. Register(Controller, p.name, p.recipient, p.years * YEAR, PublicResolver, p.withData)
  BY DEF Register, RegistrationEffect
<1>9. /\ usedPermit' = usedPermit \cup {p.permitId}
      /\ nonces' = [nonces EXCEPT ![p.requester] = p.nonce + 1]
      /\ redeemed' = Append(redeemed, [permit |-> p, caller |-> caller, at |-> now])
      /\ UNCHANGED <<signerVars, policyVars, revoked>>
  BY DEF RegistrationEffect
<1> QED
  BY <1>4, <1>6, <1>7, <1>8, <1>9 DEF ControllerRegister

LEMMA RegisterPaysFromCaller ==
  ASSUME ControllerTypeOK, NEW caller \in Users, NEW p \in Permits, NEW fee \in TransferFees,
         ControllerRegister(caller, p, fee), NEW a \in Users, wallet'[a] < wallet[a]
  PROVE  Len(redeemed') > Len(redeemed) /\ redeemed'[Len(redeemed')].caller = a
<1>1. /\ CollectExact(caller, p.amount, fee) /\ wallet \in [Addresses -> Nat]
      /\ p.amount \in Nat
  BY PermitFields DEF ControllerRegister, PermitParties, ControllerTypeOK
<1>2. a = caller
  BY <1>1, CollectMoves
<1> DEFINE entry == [permit |-> p, caller |-> caller, at |-> now]
           Entries == [permit : Permits, caller : Addresses, at : Nat]
<1>3. redeemed' = Append(redeemed, entry) /\ entry.caller = caller
  BY DEF ControllerRegister
<1>4. redeemed \in Seq(Entries)
  BY DEF ControllerTypeOK
<1> HIDE DEF entry, Entries
<1>5. Len(redeemed') = Len(redeemed) + 1 /\ redeemed'[Len(redeemed) + 1] = entry
  BY <1>3, <1>4
<1>6. Len(redeemed) \in Nat
  BY <1>4
<1> QED
  BY <1>2, <1>3, <1>5, <1>6

LEMMA RenewPaysFromOwner ==
  ASSUME ControllerTypeOK, RegistrarTypes, NEW caller \in Users, NEW id \in Names,
         NEW years \in Nat, NEW fee \in TransferFees, ControllerRenew(caller, id, years, fee),
         NEW a \in Users, wallet'[a] < wallet[a]
  PROVE  nameExpires'[id] > nameExpires[id] /\ tokenOwner[id] = a
<1>1. /\ CollectExact(caller, Quote(id, years), fee) /\ wallet \in [Addresses -> Nat]
      /\ Quote(id, years) \in Nat
  BY QuoteType DEF ControllerRenew, ControllerTypeOK
<1>2. a = caller
  BY <1>1, CollectMoves
<1>3. tokenOwner[id] = caller
  BY DEF ControllerRenew, MayRenew
<1>4. years * YEAR \in Nat \ {0}
  BY ControllerAssumption, RegistrarAssumption DEF ControllerRenew, ValidYears
<1>5. nameExpires' = [nameExpires EXCEPT ![id] = @ + years * YEAR] /\ nameExpires[id] \in Nat
  BY DEF ControllerRenew, Renew, RegistrarTypes
<1>6. nameExpires'[id] = nameExpires[id] + years * YEAR
  BY <1>5 DEF RegistrarTypes
<1> QED
  BY <1>2, <1>3, <1>4, <1>5, <1>6

\* No permit, whoever signed it, and no owner operation takes money from an account
\* that did not send the transaction.
THEOREM OnlyTheCallerPaysCorrect == ControllerSpec => OnlyTheCallerPays
<1> DEFINE Paid(a) ==
      \/ Len(redeemed') > Len(redeemed) /\ redeemed'[Len(redeemed')].caller = a
      \/ \E id \in Names : nameExpires'[id] > nameExpires[id] /\ tokenOwner[id] = a
<1>1. ControllerTypeOK /\ RegistrarTypes /\ [ControllerNext]_vars
        => [\A a \in Users : wallet'[a] < wallet[a] => Paid(a)]_vars
  <2> SUFFICES ASSUME ControllerTypeOK, RegistrarTypes, ControllerNext,
                      NEW a \in Users, wallet'[a] < wallet[a]
               PROVE  Paid(a)
    OBVIOUS
  <2>1. wallet[a] \in Nat /\ wallet \in [Addresses -> Nat] /\ a \in Addresses /\ a # Controller
    BY UsersHaveWallets DEF ControllerTypeOK
  <2>2. wallet' # wallet
    BY <2>1
  <2>3. ASSUME NEW caller \in Users, NEW fee \in TransferFees, UserCall(caller, fee)
        PROVE  Paid(a)
    <3>1. ASSUME ClaimReferral(caller, fee)
          PROVE  FALSE
      <4>1. /\ PayExact(caller, referralCredits[caller], fee)
            /\ referralCredits[caller] \in Nat /\ caller \in Addresses
        BY <3>1, UsersHaveWallets DEF ClaimReferral, ControllerTypeOK
      <4>2. wallet'[a] >= wallet[a] /\ wallet' \in [Addresses -> Nat]
        BY <2>1, <4>1, PayMoves
      <4> QED
        BY <2>1, <4>2
    <3> QED
      BY <2>3, <3>1, RegisterPaysFromCaller, RenewPaysFromOwner, ControllerAssumption DEF UserCall
  <2>4. ASSUME NEW fee \in TransferFees, OwnerCall(fee)
        PROVE  FALSE
    <3>1. ASSUME NEW amount \in Withdrawals, WithdrawTreasurySurplus(amount, fee)
          PROVE  FALSE
      <4>1. PayExact(treasury, amount, fee) /\ amount \in Nat /\ treasury \in Addresses
        BY <3>1, ControllerAssumption DEF WithdrawTreasurySurplus, ControllerTypeOK
      <4>2. wallet'[a] >= wallet[a] /\ wallet' \in [Addresses -> Nat]
        BY <2>1, <4>1, PayMoves
      <4> QED
        BY <2>1, <4>2
    <3> QED
      BY <2>2, <2>4, <3>1
      DEF OwnerCall, ProposePermitSigner, RevokePermitSigner, SetTreasury, SetReferralBps,
          SetRegistrationsPaused
  <2>5. CASE ActivatePermitSigner \/ RegistrarStep
    BY <2>2, <2>5 DEF ActivatePermitSigner, RegistrarStep, controllerVars
  <2>6. CASE Donate
    BY <2>1, <2>6 DEF Donate
  <2> QED
    BY <2>3, <2>4, <2>5, <2>6 DEF ControllerNext
<1>2. RegistrarSpec => []RegistrarTypes
  BY InitTypes, NextTypes, PTL DEF RegistrarSpec
<1> QED
  BY <1>1, <1>2, ControllerTypeCorrect, ControllerUsesRegistrar, PTL
  DEF ControllerSpec, OnlyTheCallerPays

(***************************************************************************)
(* Permits.  Every step but register leaves what register consumed alone.  *)
(***************************************************************************)
Redemption == [permit : Permits, caller : Addresses, at : Nat]

\* What register consumes, as facts about the sequence of redemptions.
LEMMA Redeems ==
  ASSUME ControllerTypeOK, RegistrarTypes, NEW caller \in Users, NEW p \in Permits, NEW fee,
         ControllerRegister(caller, p, fee)
  PROVE  /\ Len(redeemed) \in Nat /\ Len(redeemed') = Len(redeemed) + 1
         /\ DOMAIN redeemed = 1..Len(redeemed) /\ DOMAIN redeemed' = 1..(Len(redeemed) + 1)
         /\ \A i \in 1..Len(redeemed) : redeemed'[i] = redeemed[i]
         /\ redeemed'[Len(redeemed) + 1].permit = p
         /\ redeemed'[Len(redeemed) + 1].at = now
<1> DEFINE entry == [permit |-> p, caller |-> caller, at |-> now]
<1>1. redeemed' = Append(redeemed, entry) /\ entry.permit = p /\ entry.at = now
  BY DEF ControllerRegister
<1>2. entry \in Redemption
  BY UsersHaveWallets DEF RegistrarTypes, Redemption
<1>3. redeemed \in Seq(Redemption)
  BY DEF ControllerTypeOK, Redemption
<1> HIDE DEF entry
<1> QED
  BY <1>1, <1>2, <1>3

LEMMA OtherwiseNothingRedeemed ==
  ASSUME [ControllerNext]_vars,
         \A caller \in Users, p \in Permits, fee \in TransferFees :
            ~ControllerRegister(caller, p, fee)
  PROVE  UNCHANGED permitVars
<1>1. CASE UNCHANGED vars
  BY <1>1 DEF vars, controllerVars
<1>2. ASSUME NEW caller \in Users, NEW fee \in TransferFees, UserCall(caller, fee)
      PROVE  UNCHANGED permitVars
  BY <1>2 DEF UserCall, ControllerRenew, ClaimReferral
<1>3. ASSUME NEW fee \in TransferFees, OwnerCall(fee)
      PROVE  UNCHANGED permitVars
  BY <1>3 DEF OwnerCall, WithdrawTreasurySurplus, ProposePermitSigner, RevokePermitSigner,
              SetTreasury, SetReferralBps, SetRegistrationsPaused
<1>4. CASE ActivatePermitSigner \/ RegistrarStep \/ Donate
  BY <1>4 DEF ActivatePermitSigner, RegistrarStep, Donate, controllerVars
<1> QED
  BY <1>1, <1>2, <1>3, <1>4 DEF ControllerNext

\* Single use needs the link between the history and usedPermit.
PermitInv ==
  /\ \A i \in DOMAIN redeemed : redeemed[i].permit.permitId \in usedPermit
  /\ PermitIdRedeemedOnce

LEMMA PermitInvKept ==
  ControllerTypeOK /\ RegistrarTypes /\ PermitInv /\ [ControllerNext]_vars => PermitInv'
<1> SUFFICES ASSUME ControllerTypeOK, RegistrarTypes, PermitInv, [ControllerNext]_vars
             PROVE  PermitInv'
  OBVIOUS
<1>1. CASE UNCHANGED permitVars
  BY <1>1 DEF PermitInv, PermitIdRedeemedOnce, permitVars
<1>2. ASSUME NEW caller \in Users, NEW p \in Permits, NEW fee \in TransferFees,
             ControllerRegister(caller, p, fee)
      PROVE  PermitInv'
  <2>1. /\ p.permitId \notin usedPermit
        /\ usedPermit' = usedPermit \cup {p.permitId}
    BY <1>2 DEF ControllerRegister, PermitUnused
  <2>2. /\ Len(redeemed) \in Nat
        /\ DOMAIN redeemed = 1..Len(redeemed) /\ DOMAIN redeemed' = 1..(Len(redeemed) + 1)
        /\ \A i \in 1..Len(redeemed) : redeemed'[i] = redeemed[i]
        /\ redeemed'[Len(redeemed) + 1].permit = p
    BY <1>2, Redeems
  <2>3. ASSUME NEW i \in DOMAIN redeemed'
        PROVE  \/ i \in DOMAIN redeemed /\ redeemed'[i] = redeemed[i]
               \/ i = Len(redeemed) + 1 /\ redeemed'[i].permit = p
    BY <2>2
  <2>4. ASSUME NEW i \in DOMAIN redeemed'
        PROVE  redeemed'[i].permit.permitId \in usedPermit'
    BY <2>1, <2>3 DEF PermitInv
  <2>5. ASSUME NEW i \in DOMAIN redeemed', NEW j \in DOMAIN redeemed', i # j
        PROVE  redeemed'[i].permit.permitId # redeemed'[j].permit.permitId
    BY <2>1, <2>3, <2>5 DEF PermitInv, PermitIdRedeemedOnce
  <2> QED
    BY <2>4, <2>5 DEF PermitInv, PermitIdRedeemedOnce
<1> QED
  BY <1>1, <1>2, OtherwiseNothingRedeemed

\* A permit id is redeemed at most once, whoever signed, sends or pays.
THEOREM PermitIdRedeemedOnceCorrect == ControllerSpec => []PermitIdRedeemedOnce
<1>1. ControllerInit => PermitInv
  BY DEF ControllerInit, PermitInv, PermitIdRedeemedOnce
<1>2. ControllerTypeOK /\ RegistrarTypes /\ PermitInv /\ [ControllerNext]_vars => PermitInv'
  BY PermitInvKept
<1>3. PermitInv => PermitIdRedeemedOnce
  BY DEF PermitInv
<1>4. RegistrarSpec => []RegistrarTypes
  BY InitTypes, NextTypes, PTL DEF RegistrarSpec
<1> QED
  BY <1>1, <1>2, <1>3, <1>4, ControllerTypeCorrect, ControllerUsesRegistrar, PTL
  DEF ControllerSpec

\* A revoked signer can hold office, or wait for it, only with the delay counted from
\* the revocation, because a revocation also removes the proposal in flight.
SignerInv ==
  \A s \in Signers : revoked[s].ever =>
    /\ revoked[s].after <= Len(redeemed) /\ revoked[s].at <= now
    /\ permitSigner = s => now >= revoked[s].at + SIGNER_ACTIVATION_DELAY
    /\ pendingPermitSigner = s =>
         pendingPermitSignerValidAfter >= revoked[s].at + SIGNER_ACTIVATION_DELAY
    /\ \A i \in (revoked[s].after + 1)..Len(redeemed) :
         redeemed[i].permit.signer = s =>
           redeemed[i].at >= revoked[s].at + SIGNER_ACTIVATION_DELAY

LEMMA ClockRuns == RegistrarTypes /\ [ControllerNext]_vars => now' \in Nat /\ now' >= now
<1> SUFFICES ASSUME RegistrarTypes, [RegistrarNext]_nameVars
             PROVE  now' \in Nat /\ now' >= now
  BY StepIsRegistrarStep
<1>1. now \in Nat
  BY DEF RegistrarTypes
<1>2. now' = now \/ now' = now + 1
  BY DEF RegistrarNext, ControllerCall, TokenCall, NodeCall, OperatorCall, Register, Renew,
         TransferFrom, Approve, Reclaim, SetNodeOwner, SetApprovalForAll, RegistryOperatorCall,
         SetController, Tick, registrarVars, nameVars
<1> QED
  BY <1>1, <1>2

LEMMA RegisterKeepsSigners ==
  ASSUME ControllerTypeOK, RegistrarTypes, SignerInv, NEW caller \in Users, NEW p \in Permits,
         NEW fee, ControllerRegister(caller, p, fee)
  PROVE  SignerInv'
<1>1. /\ Len(redeemed) \in Nat /\ Len(redeemed') = Len(redeemed) + 1
      /\ \A i \in 1..Len(redeemed) : redeemed'[i] = redeemed[i]
      /\ redeemed'[Len(redeemed) + 1].permit = p
      /\ redeemed'[Len(redeemed) + 1].at = now
  BY Redeems
<1>2. /\ UNCHANGED <<permitSigner, pendingPermitSigner, pendingPermitSignerValidAfter, revoked, now>>
      /\ p.signer = permitSigner
  BY DEF ControllerRegister, Register, signerVars
<1> SUFFICES ASSUME NEW s \in Signers, revoked[s].ever
             PROVE  /\ revoked[s].after <= Len(redeemed')
                    /\ \A i \in (revoked[s].after + 1)..Len(redeemed') :
                         redeemed'[i].permit.signer = s =>
                           redeemed'[i].at >= revoked[s].at + SIGNER_ACTIVATION_DELAY
  BY <1>2 DEF SignerInv
<1>3. revoked[s].after \in Nat /\ revoked[s].after <= Len(redeemed)
  BY DEF ControllerTypeOK, SignerInv
<1>4. ASSUME NEW i \in (revoked[s].after + 1)..Len(redeemed'), redeemed'[i].permit.signer = s
      PROVE  redeemed'[i].at >= revoked[s].at + SIGNER_ACTIVATION_DELAY
  <2>1. CASE i = Len(redeemed) + 1
    BY <1>1, <1>2, <1>4, <2>1 DEF SignerInv
  <2>2. CASE i # Len(redeemed) + 1
    <3>1. i \in (revoked[s].after + 1)..Len(redeemed) /\ i \in 1..Len(redeemed)
      BY <1>1, <1>3, <2>2
    <3>2. redeemed'[i] = redeemed[i]
      BY <1>1, <3>1
    <3> QED
      BY <1>4, <3>1, <3>2 DEF SignerInv
  <2> QED
    BY <2>1, <2>2
<1> QED
  BY <1>1, <1>3, <1>4

LEMMA SignerInvKept ==
  ControllerTypeOK /\ RegistrarTypes /\ SignerInv /\ [ControllerNext]_vars => SignerInv'
<1> SUFFICES ASSUME ControllerTypeOK, RegistrarTypes, SignerInv, [ControllerNext]_vars
             PROVE  SignerInv'
  OBVIOUS
<1>1. /\ now \in Nat /\ now' \in Nat /\ now' >= now /\ SIGNER_ACTIVATION_DELAY \in Nat
      /\ \A s \in Signers : revoked[s].at \in Nat /\ revoked[s].after \in Nat
      /\ pendingPermitSignerValidAfter \in Nat /\ Zero \notin Signers /\ Len(redeemed) \in Nat
  <2>1. now \in Nat /\ now' \in Nat /\ now' >= now
    BY ClockRuns DEF RegistrarTypes
  <2>2. SIGNER_ACTIVATION_DELAY \in Nat /\ Zero \notin Signers
    BY ControllerAssumption
  <2>3. /\ \A s \in Signers : revoked[s].at \in Nat /\ revoked[s].after \in Nat
        /\ pendingPermitSignerValidAfter \in Nat /\ Len(redeemed) \in Nat
    BY DEF ControllerTypeOK
  <2> QED
    BY <2>1, <2>2, <2>3
<1>2. CASE UNCHANGED <<signerVars, revoked, redeemed>>
  BY <1>1, <1>2 DEF SignerInv, signerVars
<1>3. ASSUME NEW s \in Proposals, ProposePermitSigner(s)
      PROVE  SignerInv'
  <2>1. /\ pendingPermitSignerValidAfter' = now + SIGNER_ACTIVATION_DELAY
        /\ UNCHANGED <<permitSigner, revoked, redeemed>>
    BY <1>3 DEF ProposePermitSigner, permitVars
  <2> QED
    BY <1>1, <2>1 DEF SignerInv
<1>4. CASE ActivatePermitSigner
  <2>1. /\ permitSigner' = pendingPermitSigner /\ pendingPermitSigner' = Zero
        /\ now >= pendingPermitSignerValidAfter /\ UNCHANGED <<revoked, redeemed, now>>
    BY <1>4 DEF ActivatePermitSigner, permitVars, nameVars, registrarVars
  <2> QED
    BY <1>1, <2>1 DEF SignerInv
<1>5. CASE RevokePermitSigner
  <2>1. /\ permitSigner' = Zero /\ pendingPermitSigner' = Zero
        /\ UNCHANGED <<redeemed, now>>
    BY <1>5 DEF RevokePermitSigner, RemoveSigners, permitVars, nameVars, registrarVars
  <2>2. ASSUME NEW s \in Signers
        PROVE  \/ revoked'[s] = revoked[s]
               \/ revoked'[s].at = now /\ revoked'[s].after = Len(redeemed)
    BY <1>5 DEF RevokePermitSigner
  <2> SUFFICES ASSUME NEW s \in Signers, revoked'[s].ever
               PROVE  /\ revoked'[s].after <= Len(redeemed) /\ revoked'[s].at <= now
                      /\ \A i \in (revoked'[s].after + 1)..Len(redeemed) :
                           redeemed[i].permit.signer = s =>
                             redeemed[i].at >= revoked'[s].at + SIGNER_ACTIVATION_DELAY
    BY <1>1, <2>1 DEF SignerInv
  <2>3. CASE revoked'[s] = revoked[s]
    BY <2>3 DEF SignerInv
  <2>4. CASE revoked'[s].at = now /\ revoked'[s].after = Len(redeemed)
    BY <1>1, <2>4
  <2> QED
    BY <2>2, <2>3, <2>4
<1>6. ASSUME NEW caller \in Users, NEW fee \in TransferFees, UserCall(caller, fee)
      PROVE  SignerInv'
  BY <1>2, <1>6, RegisterKeepsSigners
  DEF UserCall, ControllerRenew, ClaimReferral, permitVars
<1>7. ASSUME NEW fee \in TransferFees, OwnerCall(fee)
      PROVE  SignerInv'
  BY <1>2, <1>3, <1>5, <1>7
  DEF OwnerCall, WithdrawTreasurySurplus, SetTreasury, SetReferralBps, SetRegistrationsPaused,
      permitVars
<1>8. CASE RegistrarStep \/ Donate \/ UNCHANGED vars
  BY <1>2, <1>8 DEF RegistrarStep, Donate, vars, controllerVars, permitVars
<1> QED
  BY <1>4, <1>6, <1>7, <1>8 DEF ControllerNext

\* A revoked signer, active or pending, authorises nothing until the activation delay
\* has passed, however the owner proposes, revokes and activates signers meanwhile.
THEOREM RevokedSignerWaitsCorrect == ControllerSpec => []RevokedSignerWaits
<1>1. ControllerInit => SignerInv
  BY DEF ControllerInit, SignerInv, NeverRevoked
<1>2. ControllerTypeOK /\ RegistrarTypes /\ SignerInv /\ [ControllerNext]_vars => SignerInv'
  BY SignerInvKept
<1>3. SignerInv => RevokedSignerWaits
  BY DEF SignerInv, RevokedSignerWaits
<1>4. RegistrarSpec => []RegistrarTypes
  BY InitTypes, NextTypes, PTL DEF RegistrarSpec
<1> QED
  BY <1>1, <1>2, <1>3, <1>4, ControllerTypeCorrect, ControllerUsesRegistrar, PTL
  DEF ControllerSpec

LEMMA RedeemedBeforeFinite ==
  ASSUME ControllerTypeOK, NEW i, NEW a
  PROVE  IsFiniteSet(RedeemedBefore(i, a))
<1>1. DOMAIN redeemed = 1..Len(redeemed) /\ Len(redeemed) \in Nat
  BY DEF ControllerTypeOK
<1>2. RedeemedBefore(i, a) \subseteq 1..Len(redeemed)
  BY <1>1 DEF RedeemedBefore
<1>3. IsFiniteSet(1..Len(redeemed))
  BY <1>1, FS_Interval
<1> QED
  BY <1>2, <1>3, FS_Subset

LEMMA RegisterKeepsNonces ==
  ASSUME ControllerTypeOK, RegistrarTypes, NoncesInOrder, NEW caller \in Users,
         NEW p \in Permits, NEW fee, ControllerRegister(caller, p, fee)
  PROVE  NoncesInOrder'
<1> DEFINE n == Len(redeemed)
<1>1. /\ n \in Nat /\ Len(redeemed') = n + 1
      /\ DOMAIN redeemed = 1..n /\ DOMAIN redeemed' = 1..(n + 1)
      /\ \A i \in 1..n : redeemed'[i] = redeemed[i]
      /\ redeemed'[n + 1].permit = p
  BY Redeems
<1>2. /\ p.nonce = nonces[p.requester] /\ p.requester \in Addresses /\ p.nonce \in Nat
      /\ nonces' = [nonces EXCEPT ![p.requester] = p.nonce + 1]
      /\ nonces \in [Addresses -> Nat]
  BY PermitFields DEF ControllerRegister, PermitUnused, ControllerTypeOK
<1> HIDE DEF n
<1>3. ASSUME NEW i \in 1..(n + 1), NEW a
      PROVE  RedeemedBefore(i, a)' = RedeemedBefore(i, a)
  BY <1>1 DEF RedeemedBefore
<1>4. ASSUME NEW i \in DOMAIN redeemed'
      PROVE  redeemed'[i].permit.nonce
               = Cardinality(RedeemedBefore(i, redeemed[i].permit.requester)')
  <2>1. CASE i \in 1..n
    <3>1. redeemed'[i] = redeemed[i] /\ i \in DOMAIN redeemed /\ i \in 1..(n + 1)
      BY <1>1, <2>1
    <3>2. RedeemedBefore(i, redeemed[i].permit.requester)'
            = RedeemedBefore(i, redeemed[i].permit.requester)
      BY <1>3, <3>1
    <3> QED
      BY <3>1, <3>2 DEF NoncesInOrder
  <2>2. CASE i = n + 1
    <3>1. redeemed'[i].permit = p /\ i \in 1..(n + 1)
      BY <1>1, <2>2
    <3>2. RedeemedBefore(i, redeemed[i].permit.requester)'
            = RedeemedBefore(n + 1, p.requester)
      BY <1>3, <2>2, <3>1
    <3> QED
      BY <1>2, <3>1, <3>2 DEF NoncesInOrder, n
  <2> QED
    BY <1>1, <2>1, <2>2
<1>5. ASSUME NEW a \in Addresses, NEW k, k = n + 2
      PROVE  nonces'[a] = Cardinality(RedeemedBefore(k, a)')
  <2> DEFINE before == RedeemedBefore(n + 1, a)
  <2>1. IsFiniteSet(before) /\ nonces[a] = Cardinality(before) /\ n + 1 \notin before
    <3>1. IsFiniteSet(before)
      BY RedeemedBeforeFinite
    <3>2. nonces[a] = Cardinality(before)
      BY DEF NoncesInOrder, n
    <3>3. n + 1 \notin before
      BY <1>1 DEF RedeemedBefore
    <3> QED
      BY <3>1, <3>2, <3>3
  <2>2. CASE a = p.requester
    <3>1. RedeemedBefore(k, a)' = before \cup {n + 1}
      BY <1>1, <1>5, <2>2 DEF RedeemedBefore
    <3> HIDE DEF before
    <3>2. Cardinality(before \cup {n + 1}) = Cardinality(before) + 1
      BY <2>1, FS_AddElement
    <3> QED
      BY <1>2, <2>1, <2>2, <3>1, <3>2
  <2>3. CASE a # p.requester
    <3>1. RedeemedBefore(k, a)' = before
      BY <1>1, <1>5, <2>3 DEF RedeemedBefore
    <3> QED
      BY <1>2, <2>1, <2>3, <3>1
  <2> QED
    BY <2>2, <2>3
<1>6. Len(redeemed') + 1 = n + 2
  BY <1>1
<1> QED
  BY <1>4, <1>5, <1>6 DEF NoncesInOrder, RedeemedBefore

\* The permits of each requester are redeemed in nonce order, each nonce once.
THEOREM NoncesInOrderCorrect == ControllerSpec => []NoncesInOrder
<1>1. ControllerInit => NoncesInOrder
  <2> SUFFICES ASSUME ControllerInit PROVE NoncesInOrder
    OBVIOUS
  <2>1. redeemed = <<>> /\ DOMAIN redeemed = {} /\ \A a \in Addresses : nonces[a] = 0
    BY DEF ControllerInit
  <2>2. ASSUME NEW a PROVE RedeemedBefore(Len(redeemed) + 1, a) = {}
    BY <2>1 DEF RedeemedBefore
  <2> QED
    BY <2>1, <2>2, FS_EmptySet DEF NoncesInOrder
<1>2. ControllerTypeOK /\ RegistrarTypes /\ NoncesInOrder /\ [ControllerNext]_vars
        => NoncesInOrder'
  <2> SUFFICES ASSUME ControllerTypeOK, RegistrarTypes, NoncesInOrder, [ControllerNext]_vars
               PROVE  NoncesInOrder'
    OBVIOUS
  <2>1. CASE UNCHANGED permitVars
    BY <2>1 DEF NoncesInOrder, RedeemedBefore, permitVars
  <2> QED
    BY <2>1, RegisterKeepsNonces, OtherwiseNothingRedeemed
<1>3. RegistrarSpec => []RegistrarTypes
  BY InitTypes, NextTypes, PTL DEF RegistrarSpec
<1> QED
  BY <1>1, <1>2, <1>3, ControllerTypeCorrect, ControllerUsesRegistrar, PTL DEF ControllerSpec

(***************************************************************************)
(* Paid time.                                                              *)
(***************************************************************************)
LEMMA PriceOfTime ==
  ASSUME NEW price \in Nat, NEW years \in Nat, NEW year \in Nat, NEW start \in Nat
  PROVE  year * (price * years) = price * ((start + years * year) - start)
<1>1. (start + years * year) - start = years * year
  OBVIOUS
<1>2. year * (price * years) = price * (years * year)
  OBVIOUS
<1> QED
  BY <1>1, <1>2

\* Money and time go together in every step that changes an expiry, whatever the
\* settlement asset keeps of a transfer: a transfer with a fee fails.
THEOREM TimeIsPaidForCorrect == ControllerSpec => TimeIsPaidFor
<1> DEFINE Start(id) == IF leaseNo'[id] # leaseNo[id] THEN now ELSE nameExpires[id]
           Paid(id) == YEAR * (wallet'[Controller] - wallet[Controller])
                         = AnnualPrice(id) * (nameExpires'[id] - Start(id))
<1>1. ControllerTypeOK /\ RegistrarTypes /\ [ControllerNext]_vars
        => [\A id \in Names : nameExpires'[id] # nameExpires[id] => Paid(id)]_vars
  <2> SUFFICES ASSUME ControllerTypeOK, RegistrarTypes, ControllerNext,
                      NEW id \in Names, nameExpires'[id] # nameExpires[id]
               PROVE  Paid(id)
    OBVIOUS
  <2>1. /\ wallet \in [Addresses -> Nat] /\ wallet[Controller] \in Nat /\ now \in Nat
        /\ nameExpires[id] \in Nat /\ nameExpires \in [Names -> Nat]
        /\ leaseNo \in [Nodes -> Nat] /\ id \in Nodes
    BY UsersHaveWallets, RegistrarAssumption DEF ControllerTypeOK, RegistrarTypes
  <2>2. YEAR \in Nat /\ AnnualPrice(id) \in Nat
    BY ControllerAssumption, QuoteType
  <2>3. ASSUME NEW caller \in Users, NEW p \in Permits, NEW fee \in TransferFees,
               ControllerRegister(caller, p, fee)
        PROVE  Paid(id)
    <3>1. /\ CollectExact(caller, p.amount, fee) /\ p.amount = Quote(p.name, p.years)
          /\ p.amount \in Nat /\ p.years \in Nat /\ p.name \in Names
      BY <2>3, PermitFields DEF ControllerRegister, PermitParties, PermitTerms
    <3>2. wallet'[Controller] = wallet[Controller] + p.amount
      BY <2>1, <3>1, CollectMoves
    <3>3. /\ nameExpires' = [nameExpires EXCEPT ![p.name] = now + p.years * YEAR]
          /\ leaseNo' = [leaseNo EXCEPT ![p.name] = @ + 1]
      BY <2>3 DEF ControllerRegister, Register, ReplaceToken
    <3>4. id = p.name
      BY <2>1, <3>3
    <3>5. nameExpires'[id] = now + p.years * YEAR /\ leaseNo'[id] # leaseNo[id]
      BY <2>1, <3>3, <3>4
    <3>6. wallet'[Controller] - wallet[Controller] = AnnualPrice(id) * p.years
      <4>1. p.amount = AnnualPrice(id) * p.years
        BY <3>1, <3>4 DEF Quote
      <4> QED
        BY <2>1, <3>1, <3>2, <4>1
    <3>7. YEAR * (AnnualPrice(id) * p.years)
            = AnnualPrice(id) * ((now + p.years * YEAR) - now)
      BY <2>1, <2>2, <3>1, PriceOfTime
    <3> QED
      BY <3>5, <3>6, <3>7
  <2>4. ASSUME NEW caller \in Users, NEW n \in Names, NEW years \in RenewalYears,
               NEW fee \in TransferFees, ControllerRenew(caller, n, years, fee)
        PROVE  Paid(id)
    <3>1. /\ CollectExact(caller, Quote(n, years), fee)
          /\ Quote(n, years) \in Nat /\ years \in Nat
      BY <2>4, QuoteType, ControllerAssumption DEF ControllerRenew
    <3>2. wallet'[Controller] = wallet[Controller] + Quote(n, years)
      BY <2>1, <3>1, CollectMoves
    <3>3. /\ nameExpires' = [nameExpires EXCEPT ![n] = @ + years * YEAR]
          /\ leaseNo' = leaseNo
      BY <2>4 DEF ControllerRenew, Renew, historyVars
    <3>4. id = n
      BY <2>1, <3>3
    <3>5. nameExpires'[id] = nameExpires[id] + years * YEAR /\ leaseNo'[id] = leaseNo[id]
      BY <2>1, <3>3, <3>4
    <3>6. wallet'[Controller] - wallet[Controller] = AnnualPrice(id) * years
      <4>1. Quote(n, years) = AnnualPrice(id) * years
        BY <3>4 DEF Quote
      <4> QED
        BY <2>1, <3>1, <3>2, <4>1
    <3>7. YEAR * (AnnualPrice(id) * years)
            = AnnualPrice(id) * ((nameExpires[id] + years * YEAR) - nameExpires[id])
      BY <2>1, <2>2, <3>1, PriceOfTime
    <3> QED
      BY <3>5, <3>6, <3>7
  <2>5. CASE \E fee \in TransferFees : OwnerCall(fee)
    BY <2>5 DEF OwnerCall, WithdrawTreasurySurplus, ProposePermitSigner, RevokePermitSigner,
                SetTreasury, SetReferralBps, SetRegistrationsPaused, nameVars, registrarVars,
                tokenVars
  <2>6. CASE ActivatePermitSigner \/ Donate \/ RegistrarStep
    BY <2>6 DEF ActivatePermitSigner, Donate, RegistrarStep, TransferFrom, SetController, Tick,
                nameVars, registrarVars, tokenVars
  <2>7. ASSUME NEW caller \in Users, NEW fee \in TransferFees, ClaimReferral(caller, fee)
        PROVE  FALSE
    BY <2>7 DEF ClaimReferral, nameVars, registrarVars, tokenVars
  <2> HIDE DEF Paid
  <2> QED
    BY <2>3, <2>4, <2>5, <2>6, <2>7 DEF ControllerNext, UserCall
<1>2. RegistrarSpec => []RegistrarTypes
  BY InitTypes, NextTypes, PTL DEF RegistrarSpec
<1> QED
  BY <1>1, <1>2, ControllerTypeCorrect, ControllerUsesRegistrar, PTL
  DEF ControllerSpec, TimeIsPaidFor

=============================================================================
