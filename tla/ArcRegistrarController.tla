----------------------- MODULE ArcRegistrarController -----------------------
(***************************************************************************)
(* contracts/src/ArcRegistrarController.sol over the base registrar and    *)
(* the settlement asset: registration against a signed permit, renewal,    *)
(* referral credits that their owners pull, treasury withdrawals, and the  *)
(* two-step change of the permit signer.                                   *)
(*                                                                         *)
(* Every external function is one action.  It fires when the transaction   *)
(* succeeds; a reverted transaction changes nothing.  The settlement asset *)
(* is external: it may keep a fee of a transfer, and it fails a transfer   *)
(* the sender has no balance for; every account has approved the           *)
(* controller for all it has.                                              *)
(***************************************************************************)
EXTENDS ArcBaseRegistrar, Sequences

CONSTANTS
  Signers,                  \* addresses that sign permits
  Permits,                  \* the permits somebody may have signed
  CodePoints,               \* code points of a name's label
  PRICE_ONE_CODEPOINT, PRICE_TWO_CODEPOINTS,
  PRICE_THREE_CODEPOINTS, PRICE_FOUR_PLUS_CODEPOINTS,
  BPS_DENOMINATOR, MAX_REFERRAL_BPS,
  YEAR, MAX_PERMIT_VALIDITY, MAX_PERMIT_CLOCK_SKEW, SIGNER_ACTIVATION_DELAY,
  InitialWallet,            \* settlement asset of an account at the start
  TransferFees,             \* bound: fees the asset may keep of a transfer
  ReferralRates,            \* bound: values the owner gives referralBps
  Treasuries,               \* bound: accounts the owner makes the treasury
  Withdrawals,              \* bound: amounts the owner withdraws
  Proposals,                \* bound: signers the owner proposes
  Recipients,               \* bound: accounts a token is transferred to
  RenewalYears,             \* bound: years a renewal asks for
  MaxPool                   \* bound: the balance up to which strangers send money

MIN_DURATION_YEARS == 1
MAX_DURATION_YEARS == 10

Users == Addresses \ {Controller}

Permit == [name : Names, requester : Addresses, recipient : Addresses, payer : Addresses,
           executor : Addresses, years : Nat, withData : BOOLEAN, referrer : Addresses \cup {Zero},
           amount : Nat, bps : Nat, permitId : Nat, nonce : Nat,
           issuedAt : Nat, validAfter : Nat, validUntil : Nat,
           bound : BOOLEAN,    \* to this chain, contract, release, profile, label, data and asset
           signer : Signers]

ASSUME ControllerAssumption ==
  /\ Zero \notin Signers /\ Signers # {}
  /\ Permits \subseteq Permit
  /\ CodePoints \in [Names -> Nat \ {0}]
  /\ {PRICE_ONE_CODEPOINT, PRICE_TWO_CODEPOINTS, PRICE_THREE_CODEPOINTS,
      PRICE_FOUR_PLUS_CODEPOINTS} \subseteq Nat \ {0}
  /\ BPS_DENOMINATOR \in Nat \ {0}
  /\ MAX_REFERRAL_BPS \in 0..BPS_DENOMINATOR
  /\ {YEAR, SIGNER_ACTIVATION_DELAY} \subseteq Nat \ {0}
  /\ {years * YEAR : years \in MIN_DURATION_YEARS..MAX_DURATION_YEARS} \subseteq Durations
  /\ PublicResolver \in RegisterResolvers
  /\ {MAX_PERMIT_VALIDITY, MAX_PERMIT_CLOCK_SKEW, MaxPool} \subseteq Nat
  /\ InitialWallet \in [Users -> Nat]
  /\ TransferFees \subseteq Nat
  /\ ReferralRates \subseteq Nat
  /\ Treasuries \subseteq Addresses
  /\ Withdrawals \subseteq Nat \ {0}
  /\ Proposals \subseteq Signers
  /\ Recipients \subseteq Addresses
  /\ RenewalYears \subseteq Nat

VARIABLES
  wallet,                   \* settlementAsset.balanceOf
  permitSigner,
  pendingPermitSigner,
  pendingPermitSignerValidAfter,
  treasury,
  referralBps,
  registrationsPaused,
  usedPermit,               \* the permit ids with usedPermit[permitId]
  nonces,
  referralCredits,
  totalReferralLiability,
  \* History: what the properties compare with; no action reads them.
  redeemed,                 \* the permits register consumed, with caller and time
  revoked                   \* per signer: time and Len(redeemed) of its last revocation

signerVars == <<permitSigner, pendingPermitSigner, pendingPermitSignerValidAfter>>
policyVars == <<treasury, referralBps, registrationsPaused>>
permitVars == <<usedPermit, nonces, redeemed>>
creditVars == <<referralCredits, totalReferralLiability>>
controllerVars == <<wallet, signerVars, policyVars, permitVars, creditVars, revoked>>
vars == <<nameVars, controllerVars>>

NeverRevoked == [at |-> 0, after |-> 0, ever |-> FALSE]

ControllerInit ==
  /\ RegistrarInit
  /\ wallet = [a \in Addresses |-> IF a = Controller THEN 0 ELSE InitialWallet[a]]
  /\ permitSigner \in Signers
  /\ pendingPermitSigner = Zero
  /\ pendingPermitSignerValidAfter = 0
  /\ treasury \in Treasuries \ {Controller}
  /\ referralBps \in {bps \in ReferralRates : bps <= MAX_REFERRAL_BPS}
  /\ registrationsPaused = FALSE
  /\ usedPermit = {}
  /\ nonces = [a \in Addresses |-> 0]
  /\ referralCredits = [a \in Addresses |-> 0]
  /\ totalReferralLiability = 0
  /\ redeemed = <<>>
  /\ revoked = [s \in Signers |-> NeverRevoked]

(***************************************************************************)
(* Prices and the settlement asset.                                        *)
(***************************************************************************)
AnnualPrice(id) ==
  CASE CodePoints[id] = 1 -> PRICE_ONE_CODEPOINT
    [] CodePoints[id] = 2 -> PRICE_TWO_CODEPOINTS
    [] CodePoints[id] = 3 -> PRICE_THREE_CODEPOINTS
    [] OTHER -> PRICE_FOUR_PLUS_CODEPOINTS

ValidYears(years) == years \in MIN_DURATION_YEARS..MAX_DURATION_YEARS

Quote(id, years) == AnnualPrice(id) * years

\* Mutant: the controller takes what arrives for the price.
CollectExact_AnyDelta(payer, amount, fee) ==
  /\ wallet[payer] >= amount /\ fee <= amount
  /\ wallet' = [wallet EXCEPT ![payer] = @ - amount, ![Controller] = @ + amount - fee]

\* safeTransferFrom, then the balance must have grown by exactly amount.
CollectExact(payer, amount, fee) ==
  /\ wallet[payer] >= amount /\ fee <= amount
  /\ wallet' = [wallet EXCEPT ![payer] = @ - amount, ![Controller] = @ + amount - fee]
  /\ wallet'[Controller] - wallet[Controller] = amount

\* safeTransfer, then the balance must have shrunk by exactly amount: it does
\* not when the controller pays itself.
PayExact(recipient, amount, fee) ==
  /\ wallet[Controller] >= amount /\ fee <= amount
  /\ recipient # Controller
  /\ wallet' = [wallet EXCEPT ![Controller] = @ - amount, ![recipient] = @ + amount - fee]

RequireSolvent == wallet'[Controller] >= totalReferralLiability'

\* Mutant: the credit is not added to the liability.
AccrueReferral_NoLiability(referrer, amount, bps) ==
  IF referrer = Zero
  THEN UNCHANGED creditVars
  ELSE /\ referralCredits' = [referralCredits EXCEPT ![referrer] =
                                @ + (amount * bps) \div BPS_DENOMINATOR]
       /\ UNCHANGED totalReferralLiability

AccrueReferral(referrer, amount, bps) ==
  LET credit == (amount * bps) \div BPS_DENOMINATOR
  IN IF referrer = Zero
     THEN UNCHANGED creditVars
     ELSE /\ referralCredits' = [referralCredits EXCEPT ![referrer] = @ + credit]
          /\ totalReferralLiability' = totalReferralLiability + credit

(***************************************************************************)
(* register: the checks of _validateRegistration, grouped by what they     *)
(* bind, and then the whole transaction.                                   *)
(***************************************************************************)

\* Mutant: the payer need not be the requester who sends the transaction.
PermitParties_AnyPayer(p, caller) ==
  /\ p.requester = p.executor
  /\ p.referrer # Zero => p.referrer \notin {p.payer, p.recipient}
  /\ caller = p.executor

PermitParties(p, caller) ==
  /\ p.requester = p.payer /\ p.requester = p.executor
  /\ p.referrer # Zero => p.referrer \notin {p.payer, p.recipient}
  /\ caller = p.executor

PermitTerms(p) ==
  /\ p.bound
  /\ ValidYears(p.years)
  /\ p.amount = Quote(p.name, p.years)
  /\ p.bps = IF p.referrer = Zero THEN 0 ELSE referralBps

\* Mutant: only the nonce is looked at.
PermitUnused_AnyId(p) == p.nonce = nonces[p.requester]

\* Mutant: only the permit id is looked at.
PermitUnused_AnyNonce(p) == p.permitId \notin usedPermit

PermitUnused(p) ==
  /\ p.permitId # 0 /\ p.permitId \notin usedPermit
  /\ p.nonce = nonces[p.requester]

PermitInWindow(p) ==
  /\ p.validAfter <= p.issuedAt /\ p.issuedAt <= p.validUntil
  /\ p.issuedAt - p.validAfter <= MAX_PERMIT_CLOCK_SKEW
  /\ p.validUntil - p.validAfter <= MAX_PERMIT_VALIDITY
  /\ p.validAfter <= now /\ now <= p.validUntil

ControllerRegister(caller, p, fee) ==
  /\ ~registrationsPaused
  /\ PermitParties(p, caller)
  /\ PermitTerms(p)
  /\ PermitUnused(p)
  /\ PermitInWindow(p)
  /\ p.signer = permitSigner
  /\ usedPermit' = usedPermit \cup {p.permitId}
  /\ nonces' = [nonces EXCEPT ![p.requester] = p.nonce + 1]
  /\ redeemed' = Append(redeemed, [permit |-> p, caller |-> caller, at |-> now])
  /\ CollectExact(p.payer, p.amount, fee)
  /\ AccrueReferral(p.referrer, p.amount, p.bps)
  /\ RequireSolvent
  /\ Register(Controller, p.name, p.recipient, p.years * YEAR, PublicResolver, p.withData)
  /\ UNCHANGED <<signerVars, policyVars, revoked>>

\* Mutant: renewals stop with the registrations.
MayRenew_WhenNotPaused(caller, id) ==
  ~registrationsPaused /\ Exists(id) /\ tokenOwner[id] = caller

MayRenew(caller, id) == Exists(id) /\ tokenOwner[id] = caller

\* renew with expectedAmount at the current price; a pause does not stop it.
ControllerRenew(caller, id, years, fee) ==
  /\ ValidYears(years)
  /\ MayRenew(caller, id)
  /\ CollectExact(caller, Quote(id, years), fee)
  /\ Renew(Controller, id, years * YEAR)
  /\ UNCHANGED creditVars
  /\ RequireSolvent
  /\ UNCHANGED <<signerVars, policyVars, permitVars, revoked>>

(***************************************************************************)
(* Referral credits and the treasury.                                      *)
(***************************************************************************)

\* The credit goes, from the liability too; a subtraction below zero reverts.
Discharge(caller) ==
  /\ referralCredits' = [referralCredits EXCEPT ![caller] = 0]
  /\ referralCredits[caller] <= totalReferralLiability
  /\ totalReferralLiability' = totalReferralLiability - referralCredits[caller]

\* Mutant: claims stop with the registrations.
HasCredit_WhenNotPaused(caller) == ~registrationsPaused /\ referralCredits[caller] # 0

HasCredit(caller) == referralCredits[caller] # 0

ClaimReferral(caller, fee) ==
  /\ HasCredit(caller)
  /\ Discharge(caller)
  /\ PayExact(caller, referralCredits[caller], fee)
  /\ RequireSolvent
  /\ UNCHANGED <<signerVars, policyVars, permitVars, revoked, nameVars>>

\* Mutant: the owner withdraws from the balance, not from the surplus.
WithdrawTreasurySurplus_Balance(amount, fee) ==
  /\ PayExact(treasury, amount, fee)
  /\ UNCHANGED <<creditVars, signerVars, policyVars, permitVars, revoked, nameVars>>

WithdrawTreasurySurplus(amount, fee) ==
  /\ wallet[Controller] >= totalReferralLiability
  /\ amount <= wallet[Controller] - totalReferralLiability
  /\ PayExact(treasury, amount, fee)
  /\ UNCHANGED creditVars
  /\ RequireSolvent
  /\ UNCHANGED <<signerVars, policyVars, permitVars, revoked, nameVars>>

(***************************************************************************)
(* The owner's other operations.  activatePermitSigner is open to anyone.  *)
(***************************************************************************)
ProposePermitSigner(newSigner) ==
  /\ pendingPermitSigner' = newSigner
  /\ pendingPermitSignerValidAfter' = now + SIGNER_ACTIVATION_DELAY
  /\ UNCHANGED <<permitSigner, wallet, policyVars, permitVars, creditVars, revoked, nameVars>>

ActivatePermitSigner ==
  /\ pendingPermitSigner # Zero
  /\ now >= pendingPermitSignerValidAfter
  /\ permitSigner' = pendingPermitSigner
  /\ pendingPermitSigner' = Zero
  /\ pendingPermitSignerValidAfter' = 0
  /\ UNCHANGED <<wallet, policyVars, permitVars, creditVars, revoked, nameVars>>

\* Mutant: the proposal in flight outlives the revocation.
RemoveSigners_KeepPending ==
  permitSigner' = Zero /\ UNCHANGED <<pendingPermitSigner, pendingPermitSignerValidAfter>>

RemoveSigners ==
  permitSigner' = Zero /\ pendingPermitSigner' = Zero /\ pendingPermitSignerValidAfter' = 0

RevokePermitSigner ==
  /\ RemoveSigners
  /\ revoked' = [s \in Signers |->
       IF s \in {permitSigner, pendingPermitSigner}
       THEN [at |-> now, after |-> Len(redeemed), ever |-> TRUE] ELSE revoked[s]]
  /\ UNCHANGED <<wallet, policyVars, permitVars, creditVars, nameVars>>

SetTreasury(newTreasury) ==
  /\ treasury' = newTreasury
  /\ UNCHANGED <<referralBps, registrationsPaused, wallet, signerVars, permitVars, creditVars,
                 revoked, nameVars>>

\* Mutant: the rate is not limited.
SetReferralBps_NoMaximum(newReferralBps) ==
  /\ referralBps' = newReferralBps
  /\ UNCHANGED <<treasury, registrationsPaused, wallet, signerVars, permitVars, creditVars,
                 revoked, nameVars>>

SetReferralBps(newReferralBps) ==
  /\ newReferralBps <= MAX_REFERRAL_BPS
  /\ referralBps' = newReferralBps
  /\ UNCHANGED <<treasury, registrationsPaused, wallet, signerVars, permitVars, creditVars,
                 revoked, nameVars>>

SetRegistrationsPaused(paused) ==
  /\ registrationsPaused' = paused
  /\ UNCHANGED <<treasury, referralBps, wallet, signerVars, permitVars, creditVars,
                 revoked, nameVars>>

(***************************************************************************)
(* The rest of the chain: tokens change hands, the registrar's owner       *)
(* enables and disables the controller, strangers send the contract        *)
(* settlement asset, and time passes.                                      *)
(***************************************************************************)
RegistrarStep ==
  /\ \/ \E id \in Names, to \in Recipients :
          tokenOwner[id] # to /\ TransferFrom(tokenOwner[id], to, id)
     \/ \E enabled \in BOOLEAN : SetController(Controller, enabled)
     \/ Tick
  /\ UNCHANGED controllerVars

Donate ==
  /\ wallet[Controller] < MaxPool
  /\ wallet' = [wallet EXCEPT ![Controller] = @ + 1]
  /\ UNCHANGED <<signerVars, policyVars, permitVars, creditVars, revoked, nameVars>>

UserCall(caller, fee) ==
  \/ \E p \in Permits : now + p.years * YEAR <= MaxExpiry /\ ControllerRegister(caller, p, fee)
  \/ \E id \in Names, years \in RenewalYears :
       nameExpires[id] + years * YEAR <= MaxExpiry /\ ControllerRenew(caller, id, years, fee)
  \/ ClaimReferral(caller, fee)

OwnerCall(fee) ==
  \/ \E amount \in Withdrawals : WithdrawTreasurySurplus(amount, fee)
  \/ \E s \in Proposals : ProposePermitSigner(s)
  \/ RevokePermitSigner
  \/ \E t \in Treasuries : SetTreasury(t)
  \/ \E bps \in ReferralRates : SetReferralBps(bps)
  \/ \E paused \in BOOLEAN : SetRegistrationsPaused(paused)

ControllerNext ==
  \/ \E caller \in Users, fee \in TransferFees : UserCall(caller, fee)
  \/ \E fee \in TransferFees : OwnerCall(fee)
  \/ ActivatePermitSigner
  \/ RegistrarStep
  \/ Donate

ControllerSpec == ControllerInit /\ [][ControllerNext]_vars

\* A referrer who is owed something sends claimReferral sooner or later.
ControllerFairSpec ==
  ControllerSpec /\ \A a \in Users : WF_vars(\E fee \in TransferFees : ClaimReferral(a, fee))

(***************************************************************************)
(* Properties.                                                             *)
(***************************************************************************)

\* Every variable of the controller has its type.
ControllerTypeOK ==
  /\ wallet \in [Addresses -> Nat]
  /\ permitSigner \in Signers \cup {Zero}
  /\ pendingPermitSigner \in Signers \cup {Zero}
  /\ pendingPermitSignerValidAfter \in Nat
  /\ treasury \in Treasuries
  /\ referralBps \in 0..MAX_REFERRAL_BPS
  /\ registrationsPaused \in BOOLEAN
  /\ usedPermit \subseteq Nat
  /\ nonces \in [Addresses -> Nat]
  /\ referralCredits \in [Addresses -> Nat]
  /\ totalReferralLiability \in Nat
  /\ redeemed \in Seq([permit : Permits, caller : Addresses, at : Nat])
  /\ revoked \in [Signers -> [at : Nat, after : Nat, ever : BOOLEAN]]

\* The controller is a vault of its referrers: a credit never exceeds the money that
\* came in for it, only its owner takes it out, the treasury never gets any of it, and
\* the liability that the solvency checks look at moves with every credit and claim.
Vault == INSTANCE PullPaymentVault WITH
  Accounts <- Addresses, pool <- wallet[Controller], owed <- referralCredits,
  total <- totalReferralLiability

KeepsVaultPromise == Vault!VaultSpec

\* The controller holds all the credits of its referrers together, whatever the owner
\* withdraws and whatever fee the settlement asset keeps, and the liability that register
\* and claimReferral keep by hand, one credit at a time, is their sum.
ControllerSolvent == Vault!Solvent

\* No two registrations used the same permit id, also under different nonces or signers.
PermitIdRedeemedOnce ==
  \A i, j \in DOMAIN redeemed :
     i # j => redeemed[i].permit.permitId # redeemed[j].permit.permitId

\* The redemptions of a's permits before the i-th one.
RedeemedBefore(i, a) == {j \in DOMAIN redeemed : j < i /\ redeemed[j].permit.requester = a}

\* The permits of a requester are redeemed in the order of their nonces, without a gap
\* and without one nonce twice, and nonces counts them.
NoncesInOrder ==
  /\ \A i \in DOMAIN redeemed :
       redeemed[i].permit.nonce = Cardinality(RedeemedBefore(i, redeemed[i].permit.requester))
  /\ \A a \in Addresses : nonces[a] = Cardinality(RedeemedBefore(Len(redeemed) + 1, a))

\* A wallet gets smaller only when its owner sent the transaction: a registration it
\* submitted itself, or the renewal of a name it owns.  A permit, whoever signed it,
\* cannot make the controller collect from another account that approved it.
OnlyTheCallerPays ==
  [][\A a \in Users : wallet'[a] < wallet[a] =>
       \/ Len(redeemed') > Len(redeemed) /\ redeemed'[Len(redeemed')].caller = a
       \/ \E id \in Names : nameExpires'[id] > nameExpires[id] /\ tokenOwner[id] = a]_vars

\* Whenever a name is paid up to a later time, exactly the price of the time added,
\* from now for a registration and from the old expiry for a renewal, arrived.
TimeIsPaidFor ==
  [][\A id \in Names : nameExpires'[id] # nameExpires[id] =>
       LET start == IF leaseNo'[id] # leaseNo[id] THEN now ELSE nameExpires[id]
       IN YEAR * (wallet'[Controller] - wallet[Controller])
            = AnnualPrice(id) * (nameExpires'[id] - start)]_vars

\* A signer that was revoked, in office or waiting for it, authorises no registration
\* until SIGNER_ACTIVATION_DELAY has passed since.
RevokedSignerWaits ==
  \A s \in Signers : revoked[s].ever =>
    \A i \in (revoked[s].after + 1)..Len(redeemed) :
       redeemed[i].permit.signer = s =>
         redeemed[i].at >= revoked[s].at + SIGNER_ACTIVATION_DELAY

\* The registrant of an active name, or of one in its grace period, can renew it if it
\* can pay: no pause, signer change or treasury withdrawal takes that away.
RenewalStaysOpen ==
  \A id \in Names : LET u == tokenOwner[id] IN
    /\ u \in Users /\ ~Available(id) /\ Controller \in controllers
    /\ wallet[u] >= Quote(id, 1)
    => ENABLED ControllerRenew(u, id, 1, 0)

\* Whoever is owed a referral credit is paid: the claim stays open through pauses,
\* withdrawals, signer changes and the claims of others.
ClaimServed == \A a \in Users : referralCredits[a] > 0 ~> referralCredits[a] = 0

=============================================================================
