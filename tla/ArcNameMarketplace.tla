------------------------- MODULE ArcNameMarketplace -------------------------
(***************************************************************************)
(* contracts/src/ArcNameMarketplace.sol over the base registrar and the    *)
(* settlement asset: fixed-price listings that hold no token, purchases,   *)
(* and proceeds that the sellers pull.                                     *)
(*                                                                         *)
(* Every external function is one action, except a purchase by a contract: *)
(* safeTransferFrom hands control to the buyer in the middle of buy, and   *)
(* until the buyer returns only contracts can make calls.  A purchase      *)
(* whose callback reverts leaves the state it began in, so the model has   *)
(* only callbacks that return.  The settlement asset is external: it may   *)
(* keep a fee of a transfer, and it fails a transfer the sender has no     *)
(* balance for; every account has approved the market for all it has.      *)
(***************************************************************************)
EXTENDS ArcBaseRegistrar

CONSTANTS
  Market,                   \* address(this)
  Contracts,                \* the accounts with code
  BPS_DENOMINATOR, MAX_FEE_BPS,
  InitialWallet,            \* settlement asset of an account at the start
  TransferFees,             \* bound: fees the asset may keep of a transfer
  Prices,                   \* bound: prices of listings
  FeeRates,                 \* bound: values the owner gives feeBps
  Treasuries,               \* bound: accounts the owner makes the treasury
  Withdrawals,              \* bound: amounts the owner withdraws
  Recipients,               \* bound: accounts a token is transferred to
  MaxPool                   \* bound: the balance up to which strangers send money

Users == Addresses \ {Controller, Market}

ASSUME MarketAssumption ==
  /\ Market \in Addresses \ {Controller}
  /\ Contracts \subseteq Users
  /\ Users \X {Market} \subseteq OperatorPairs
  /\ PublicResolver \in RegisterResolvers
  /\ BPS_DENOMINATOR \in Nat \ {0}
  /\ MAX_FEE_BPS \in 0..BPS_DENOMINATOR
  /\ InitialWallet \in [Users -> Nat]
  /\ TransferFees \subseteq Nat
  /\ Prices \subseteq Nat
  /\ FeeRates \subseteq Nat
  /\ Treasuries \subseteq Addresses
  /\ Withdrawals \subseteq Nat \ {0}
  /\ Recipients \subseteq Addresses
  /\ MaxPool \in Nat

VARIABLES
  wallet,                   \* settlementAsset.balanceOf
  treasury,
  feeBps,
  paused,
  listings,                 \* _listings[tokenId]
  proceeds,
  totalSellerLiability,
  frame,                    \* the contract that runs inside buy (_guard = 2), or Zero
  \* History: what the properties compare with; no action reads them.
  listedIn,                 \* leaseNo when the listing was made
  moved                     \* the token changed hands since the listing was made

marketPolicyVars == <<treasury, feeBps, paused>>
ledgerVars == <<wallet, proceeds, totalSellerLiability>>
listingVars == <<listings, listedIn, moved>>
marketVars == <<ledgerVars, marketPolicyVars, listingVars, frame>>
vars == <<nameVars, marketVars>>

NoListing == [seller |-> Zero, price |-> 0, validUntil |-> 0]

MarketInit ==
  /\ RegistrarInit
  /\ wallet = [a \in Addresses |-> IF a \in Users THEN InitialWallet[a] ELSE 0]
  /\ treasury \in Treasuries \ {Market}
  /\ feeBps \in {bps \in FeeRates : bps <= MAX_FEE_BPS}
  /\ paused = FALSE
  /\ listings = [id \in Names |-> NoListing]
  /\ proceeds = [a \in Addresses |-> 0]
  /\ totalSellerLiability = 0
  /\ frame = Zero
  /\ listedIn = [id \in Names |-> 0]
  /\ moved = [id \in Names |-> FALSE]

\* Who can be a msg.sender now: inside a purchase only code runs.
MayCall(caller) == frame # Zero => caller \in Contracts

NotEntered == frame = Zero

(***************************************************************************)
(* Listings.                                                               *)
(***************************************************************************)

\* _isApproved: getApproved fails for a token that does not exist.
IsApproved(owner, id) ==
  \/ <<owner, Market>> \in operatorApprovals
  \/ Exists(id) /\ tokenApprovals[id] = Market

IsLive(id) ==
  /\ listings[id].seller # Zero
  /\ now <= listings[id].validUntil
  /\ IsActive(id)
  /\ Exists(id) /\ tokenOwner[id] = listings[id].seller
  /\ IsApproved(tokenOwner[id], id)

\* Mutant: the listing may outlast the paid time.
MayList_AnyDeadline(caller, id, price, validUntil) ==
  /\ ~paused
  /\ price # 0 /\ validUntil > now
  /\ IsActive(id) /\ Exists(id) /\ tokenOwner[id] = caller
  /\ IsApproved(caller, id)

MayList(caller, id, price, validUntil) ==
  /\ ~paused
  /\ price # 0 /\ validUntil > now
  /\ IsActive(id) /\ Exists(id) /\ tokenOwner[id] = caller
  /\ validUntil <= nameExpires[id]
  /\ IsApproved(caller, id)

List(caller, id, price, validUntil) ==
  /\ MayCall(caller)
  /\ MayList(caller, id, price, validUntil)
  /\ listings' = [listings EXCEPT ![id] =
                    [seller |-> caller, price |-> price, validUntil |-> validUntil]]
  /\ listedIn' = [listedIn EXCEPT ![id] = leaseNo[id]]
  /\ moved' = [moved EXCEPT ![id] = FALSE]
  /\ UNCHANGED <<ledgerVars, marketPolicyVars, frame, nameVars>>

Delist(id) ==
  /\ listings' = [listings EXCEPT ![id] = NoListing]
  /\ UNCHANGED <<listedIn, moved>>

\* It returns false, and changes nothing, for a listing that is live or absent.
InvalidateListing(caller, id) ==
  /\ MayCall(caller)
  /\ listings[id].seller # Zero /\ ~IsLive(id)
  /\ Delist(id)
  /\ UNCHANGED <<ledgerVars, marketPolicyVars, frame, nameVars>>

MayCancel(caller, id) ==
  /\ listings[id].seller # Zero
  /\ caller = listings[id].seller \/ ~IsLive(id)

Cancel(caller, id) ==
  /\ MayCall(caller)
  /\ MayCancel(caller, id)
  /\ Delist(id)
  /\ UNCHANGED <<ledgerVars, marketPolicyVars, frame, nameVars>>

(***************************************************************************)
(* Purchases.                                                              *)
(***************************************************************************)

\* safeTransferFrom, then the balance must have grown by exactly amount.
CollectExact(payer, amount, fee) ==
  /\ wallet[payer] >= amount /\ fee <= amount
  /\ wallet' = [wallet EXCEPT ![payer] = @ - amount, ![Market] = @ + amount - fee]
  /\ wallet'[Market] - wallet[Market] = amount

\* safeTransfer, then the balance must have shrunk by exactly amount: it does
\* not when the market pays itself.
PayExact(recipient, amount, fee) ==
  /\ wallet[Market] >= amount /\ fee <= amount
  /\ recipient # Market
  /\ wallet' = [wallet EXCEPT ![Market] = @ - amount, ![recipient] = @ + amount - fee]

RequireSolvent == wallet'[Market] >= totalSellerLiability'

MarketFee(price) == (price * feeBps) \div BPS_DENOMINATOR

\* Mutant: the fee stays in what the seller may claim.
CreditSeller_WithFee(seller, price) ==
  /\ proceeds' = [proceeds EXCEPT ![seller] = @ + price]
  /\ totalSellerLiability' = totalSellerLiability + price

CreditSeller(seller, price) ==
  /\ proceeds' = [proceeds EXCEPT ![seller] = @ + (price - MarketFee(price))]
  /\ totalSellerLiability' = totalSellerLiability + (price - MarketFee(price))

\* buy, with the price and fee the caller expects; a caller with code is called back.
Buy(caller, id, fee) ==
  LET listing == listings[id]
  IN /\ NotEntered
     /\ ~paused
     /\ IsLive(id)
     /\ caller # listing.seller
     /\ listings' = [listings EXCEPT ![id] = NoListing]
     /\ CollectExact(caller, listing.price, fee)
     /\ CreditSeller(listing.seller, listing.price)
     /\ TransferFrom(Market, caller, id)
     /\ moved' = [moved EXCEPT ![id] = TRUE]
     /\ IF caller \in Contracts THEN frame' = caller ELSE RequireSolvent /\ UNCHANGED frame
     /\ UNCHANGED <<marketPolicyVars, listedIn>>

\* onERC721Received returned: the rest of buy.
BuyReturn ==
  /\ frame # Zero
  /\ wallet[Market] >= totalSellerLiability
  /\ frame' = Zero
  /\ UNCHANGED <<ledgerVars, marketPolicyVars, listingVars, nameVars>>

(***************************************************************************)
(* Proceeds and fees.                                                      *)
(***************************************************************************)

\* Mutant: a pause stops claims.
HasProceeds_WhenNotPaused(caller) == ~paused /\ proceeds[caller] # 0

HasProceeds(caller) == proceeds[caller] # 0

\* The proceeds go, from the liability too; a subtraction below zero reverts.
Discharge(caller) ==
  /\ proceeds' = [proceeds EXCEPT ![caller] = 0]
  /\ proceeds[caller] <= totalSellerLiability
  /\ totalSellerLiability' = totalSellerLiability - proceeds[caller]

ClaimProceeds(caller, fee) ==
  /\ NotEntered
  /\ HasProceeds(caller)
  /\ Discharge(caller)
  /\ PayExact(caller, proceeds[caller], fee)
  /\ RequireSolvent
  /\ UNCHANGED <<marketPolicyVars, listingVars, frame, nameVars>>

\* Mutant: the owner withdraws from the balance, not from the surplus.
WithdrawFeeSurplus_Balance(amount, fee) ==
  /\ NotEntered
  /\ PayExact(treasury, amount, fee)
  /\ UNCHANGED <<proceeds, totalSellerLiability, marketPolicyVars, listingVars, frame, nameVars>>

WithdrawFeeSurplus(amount, fee) ==
  /\ NotEntered
  /\ wallet[Market] >= totalSellerLiability
  /\ amount <= wallet[Market] - totalSellerLiability
  /\ PayExact(treasury, amount, fee)
  /\ UNCHANGED <<proceeds, totalSellerLiability>>
  /\ RequireSolvent
  /\ UNCHANGED <<marketPolicyVars, listingVars, frame, nameVars>>

\* Mutant: the fee is not limited.
SetFeeBps_NoMaximum(newFeeBps) ==
  /\ NotEntered
  /\ feeBps' = newFeeBps
  /\ UNCHANGED <<treasury, paused, ledgerVars, listingVars, frame, nameVars>>

SetFeeBps(newFeeBps) ==
  /\ NotEntered
  /\ newFeeBps <= MAX_FEE_BPS
  /\ feeBps' = newFeeBps
  /\ UNCHANGED <<treasury, paused, ledgerVars, listingVars, frame, nameVars>>

SetTreasury(newTreasury) ==
  /\ NotEntered
  /\ treasury' = newTreasury
  /\ UNCHANGED <<feeBps, paused, ledgerVars, listingVars, frame, nameVars>>

SetPaused(newPaused) ==
  /\ NotEntered
  /\ paused' = newPaused
  /\ UNCHANGED <<treasury, feeBps, ledgerVars, listingVars, frame, nameVars>>

(***************************************************************************)
(* The rest of the chain.  The token's owner can move and approve it from  *)
(* inside a purchase; controllers and the clock wait for its end.          *)
(***************************************************************************)
TokenStep(id) ==
  LET owner == tokenOwner[id]
  IN /\ MayCall(owner)
     /\ \/ \E to \in Recipients : /\ to # owner /\ TransferFrom(owner, to, id)
                                  /\ moved' = [moved EXCEPT ![id] = TRUE]
        \/ \E a \in {Market, Zero} : Approve(owner, a, id) /\ UNCHANGED moved
     /\ UNCHANGED <<ledgerVars, marketPolicyVars, listings, listedIn, frame>>

OperatorStep(owner) ==
  /\ MayCall(owner)
  /\ \E approved \in BOOLEAN : SetApprovalForAll(owner, Market, approved)
  /\ UNCHANGED marketVars

LeaseStep(id) ==
  /\ NotEntered
  /\ \E d \in Durations :
       \/ \E owner \in Users : /\ now + d <= MaxExpiry
                               /\ Register(Controller, id, owner, d, PublicResolver, FALSE)
                               /\ moved' = [moved EXCEPT ![id] = TRUE]
       \/ nameExpires[id] + d <= MaxExpiry /\ Renew(Controller, id, d) /\ UNCHANGED moved
  /\ UNCHANGED <<ledgerVars, marketPolicyVars, listings, listedIn, frame>>

TimeStep == NotEntered /\ Tick /\ UNCHANGED marketVars

Donate ==
  /\ wallet[Market] < MaxPool
  /\ wallet' = [wallet EXCEPT ![Market] = @ + 1]
  /\ UNCHANGED <<proceeds, totalSellerLiability, marketPolicyVars, listingVars, frame, nameVars>>

(***************************************************************************)
(* Next.                                                                   *)
(***************************************************************************)
ListingCall(caller, id) ==
  \/ \E price \in Prices, validUntil \in (now + 1)..MaxExpiry : List(caller, id, price, validUntil)
  \/ Cancel(caller, id)
  \/ InvalidateListing(caller, id)

OwnerCall(fee) ==
  \/ \E amount \in Withdrawals : WithdrawFeeSurplus(amount, fee)
  \/ \E bps \in FeeRates : SetFeeBps(bps)
  \/ \E t \in Treasuries : SetTreasury(t)
  \/ \E p \in BOOLEAN : SetPaused(p)

MarketNext ==
  \/ \E caller \in Users, id \in Names : ListingCall(caller, id)
  \/ \E caller \in Users, id \in Names, fee \in TransferFees : Buy(caller, id, fee)
  \/ \E caller \in Users, fee \in TransferFees : ClaimProceeds(caller, fee)
  \/ \E fee \in TransferFees : OwnerCall(fee)
  \/ \E id \in Names : TokenStep(id) \/ LeaseStep(id)
  \/ \E owner \in Users : OperatorStep(owner)
  \/ BuyReturn
  \/ TimeStep
  \/ Donate

MarketSpec == MarketInit /\ [][MarketNext]_vars

\* A transaction ends, and a seller who is owed something sends claimProceeds at a
\* time when nobody is inside a purchase, which the chain offers it again and again.
MarketFairSpec ==
  /\ MarketSpec
  /\ WF_vars(BuyReturn)
  /\ \A a \in Users : SF_vars(\E fee \in TransferFees : ClaimProceeds(a, fee))

(***************************************************************************)
(* Properties.                                                             *)
(***************************************************************************)

\* Every variable of the market has its type.
MarketTypeOK ==
  /\ wallet \in [Addresses -> Nat]
  /\ treasury \in Treasuries
  /\ feeBps \in 0..MAX_FEE_BPS
  /\ paused \in BOOLEAN
  /\ listings \in [Names -> [seller : Users \cup {Zero}, price : Nat, validUntil : Nat]]
  /\ proceeds \in [Addresses -> Nat]
  /\ totalSellerLiability \in Nat
  /\ frame \in Contracts \cup {Zero}
  /\ listedIn \in [Names -> Nat]
  /\ moved \in [Names -> BOOLEAN]

\* The market is a vault of its sellers: proceeds never exceed the money that came in
\* for them, only their owner takes them out, the treasury never gets any of them, and
\* the liability that the solvency checks look at moves with every sale and claim.
Vault == INSTANCE PullPaymentVault WITH
  Accounts <- Addresses, pool <- wallet[Market], owed <- proceeds,
  total <- totalSellerLiability

KeepsVaultPromise == Vault!VaultSpec

\* The market holds the proceeds of all its sellers together, also while a buyer's
\* callback runs, and the liability that buy and claimProceeds keep by hand is their sum.
MarketSolvent == Vault!Solvent

\* A listing that can be bought was made in the lease that runs now: a name that
\* lapsed and was registered again, even by the same seller, is not on sale.
ListingWithinLease == \A id \in Names : IsLive(id) => listedIn[id] = leaseNo[id]

\* A wallet gets smaller only by the price of a live listing, and in that same step the
\* payer becomes the owner of its token, the listing is gone, and the seller's proceeds
\* grow by the price less the fee.
DeliveryVersusPayment ==
  [][\A a \in Users : wallet'[a] < wallet[a] =>
       \E id \in Names : LET l == listings[id] IN
         /\ IsLive(id)
         /\ wallet'[a] = wallet[a] - l.price
         /\ tokenOwner'[id] = a /\ nodeOwner'[id] = a
         /\ listings'[id] = NoListing
         /\ proceeds'[l.seller] = proceeds[l.seller] + l.price - MarketFee(l.price)]_vars

\* Whoever has proceeds is paid: the claim stays open through pauses, withdrawals and
\* the purchases of others.
ProceedsServed == \A a \in Users : proceeds[a] > 0 ~> proceeds[a] = 0

\* README.md: "Automatic protection preventing stale listings when names change
\* ownership externally."  A listing that can be bought is one made by the account
\* that has owned the token ever since.
NoListingSurvivesATransfer == \A id \in Names : IsLive(id) => ~moved[id]

=============================================================================
