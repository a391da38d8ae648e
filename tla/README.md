# Contour Name Protocol: specifications, model checking and proofs

This directory holds TLA+ specifications of the Contour Name Protocol, the
TLC configurations that check them on small instances, and TLAPS proofs of
the properties that matter most, for every value of the constants. Every
definition is translated from the source; `PROJECT.json` maps it to its lines.
Paths below are relative to the repository root.

## 1. Inventory

| Component | State | Operations | Talks to | Hard behaviour | What makes it correct |
|---|---|---|---|---|---|
| Name registry `contracts/src/ArcNameRegistry.sol` | owner, resolver, TTL of a node; operators | setOwner, setSubnodeOwner, setResolver, setTTL, setApprovalForAll | called by the registrar inside its transactions, and by accounts | the holder of a lapsed name still controls its node | a node belongs to the holder of its token, or to whom the holder gave it |
| Public resolver `ArcPublicResolver.sol` | record version of a node; records per version | the setters, clearRecords, multicallWithNodeCheck | asks the registry who may write | records outlive leases | nothing of an earlier lease can be read |
| Base registrar `ArcBaseRegistrar.sol` | expiry, token owner, balances, approvals, controllers | register, renew, transfers, approvals, reclaim, setController | registry, resolver; called by controller and market | tokens of lapsed names are burnt only by the next registration; expiry and grace are two clocks | a paid name cannot be taken; approvals, balances, node and records stay with the lease |
| Registrar controller `ArcRegistrarController.sol` | permit signer and pending signer, used permits, nonces, referral credits and their total, treasury, rate, pause | register, renew, claimReferral, withdrawTreasurySurplus, propose/activate/revoke signer, setters | registrar, settlement asset, signed permits | replay, order, revocation against proposals, an asset with fees, the owner's withdrawals | permits are used once and in order; only the caller pays; time is paid for; credits stay covered and claimable |
| Marketplace `ArcNameMarketplace.sol` | listings, proceeds and their total, fee, treasury, pause, guard | list, cancel, invalidateListing, buy, claimProceeds, withdrawFeeSurplus, setters | registrar, settlement asset, the buyer's callback | reentrancy, listings over leases and transfers | delivery versus payment; solvency; a listing ends with its lease |
| Reverse registrar `ArcReverseRegistrar.sol` | none of its own: owner, resolver and name record of the reverse node of an account | claim, setName, name | registry, resolver, registrar | the forward record, resolver, owner and lease change after setName; a claimed node can be anybody's | a name is reported only while it leads back to the account, in the lease that runs; setName always takes effect |
| Universal resolver `ArcUniversalResolver.sol`, `libraries/` | none (views, encoders) | resolveAddress, resolveText, resolveName, resolveReverse | registry, any resolver, reverse registrar | resolvers of somebody else | an answer is the resolver's, within its bounds |
| Permit issuer `apps/permit-issuer/src` | challenges, leases by label and by request, signed permits, one tail per requester | challenge, issue, record a submission, reconcile, cleanup | chain RPC, signer | awaits between reads and writes, restart, cleanup by age, late answers | one redeemable permit per name and requester; a retry gets the same permit |
| x402 keeper `apps/x402-keeper/src` | orders with a state and identifiers; the pause | create, authorize, submit, reconcile, settle, refund, pause | issuer, payment facilitator, submission adapter, chain, store | every await is a place to fail or crash between an external call and its compare-and-set; workers compete | money is taken only for a registered name and never both taken and refunded; conclusions are true |
| Release operations `scripts/admin-activation.mjs`, `run-operations-drill.mjs`, `lib/registration-smoke*.mjs` | reports; on the chain the two pause switches and the governance account's transactions | controller-open, market-open, the pauses, rollback, drill, fail-safe repause, smoke | chain RPC, the one governance account, each other's reports | pending transactions, lost answers, reads at different blocks, several runs with one account | a rollback that reports success is final; a report is true; the market opens behind a smoke |
| Subgraph `indexer/bens-subgraph/src` | domains, registrations, resolvers | one handler per event | events of the contracts | order of the logs of a transaction, resolvers that are not the node's | the index equals the chain |
| Web application, registration and market flows: `apps/web/src/components/register-panel.tsx`, `name-management-panel.tsx`, `lib/protocol-transaction-verification.ts` | busy panels, asynchronous flows, session storage; the cache and the count of verifications | register, the actions on a name and on the market, recovery of what is pending, verification | wallet, chain RPC, verification routes | flows outlive their panels, reloads, late receipts, lost answers of the wallet, a busy service | a record is kept until its transaction is settled, and then it goes; the service keeps its limit |
| Web application, services: `apps/web/src/lib` | admission counter, caches, in-flight requests | hosted issuer, RPC quorum, admission | chain RPC | quorum over disagreeing providers | no answer below the quorum |
| Packages and other scripts `packages/`, `scripts/`, `contracts/script` | files of evidence | encode, normalise, validate manifests and evidence, deploy | | binding of evidence files | pure functions; deployment gives the initial state |

The interaction that carries the protocol: the issuer signs a permit after
reading price, nonce and availability from the chain; the requester submits it
to the controller, which takes exactly the price, credits the referrer and
calls the registrar; the registrar burns and mints the token and, owning the
node for a moment, resets resolver, TTL and record version. The market moves
tokens through the registrar's ordinary approval. Controller and market hold
other people's money in the same way: a total kept by hand beside a balance
anybody may raise. What a name means to a reader is decided by four contracts
together (registry, resolver, registrar, reverse registrar) and shown by the
explorer's index, which sees only their logs. The keeper drives issuer, chain and
a payment facilitator from durable orders. In the browser a wallet's transaction outlives the page that
asked for it; what the page knows of it is one record per name in session storage, which the
next page takes up. The release tools open and close
controller and market with one account, and nothing keeps them apart.

The hazards, with their lines and the properties that cover them, are listed
in `PROJECT.json`. Those without a property are the work the plan has left.

## 2. Modules

| Module | Models | State and actions |
|---|---|---|
| `ArcNameRegistry` | registry | the four mappings; one action per operation, guarded by `Authorised` |
| `ArcPublicResolver` | resolver | `recordVersions` and one value per version for all record kinds |
| `ArcBaseRegistrar` | registrar over both | every external operation; the calls it makes into registry and resolver are part of the same action, because a transaction is atomic. `RegistrarNext` also has the calls accounts make to registry and resolver directly |
| `NameLease` | what the registrar promises | holder and paid time of a name, and nothing else |
| `ArcRegistrarController` | controller over the registrar | every external operation; `_validateRegistration` is the four `Permit...` operators |
| `PullPaymentVault` | what controller and market promise to those they owe | a pool, what each account is owed, and the total owed; `Solvent`: the total is the sum of the debts and the pool covers it |
| `ArcNameMarketplace` | market over the registrar | every external operation; `buy` is `Buy` and, when the buyer has code, `BuyReturn` after any calls of contracts in between |
| `MemoryLeaseStore` | the issuer's store, `domain.ts` | leases by permit id, the two maps that refer to them, the signed permits; one operator per method |
| `PermitIssuer` | the reference issuer, `service.ts`, over the store and the chain | one task per requester, because of `withRequesterLock`; an action from each await that leaves the process to the next; cleanup, restart, two clocks |
| `PaidRegistration` | what the keeper promises of an order | which orders are registered, paid and refunded |
| `OrderStore` | `state.ts`, `store.ts` | the order of an idempotency key; the transitions and the compare-and-set |
| `KeeperWorkflow` | `workflow.ts` over the store, with issuer, facilitator, adapter and chain as it sees them | one task per worker; one action from each await to the next; `Fail` is a refusal, an error, a lost compare-and-set or a crash |
| `GovernedSurfaces` | the two pause switches and the governance account's transactions | the switches at the end of each block; transactions in nonce order, mined in that order; `Submit`, `MineBlock` |
| `RegistrationSmoke` | `lib/registration-smoke.mjs` | readiness, the registration, the evidence |
| `AdminActivation` | `admin-activation.mjs` | runs of the tool: preconditions, operations, receipts, rollback |
| `OperationsDrill` | `run-operations-drill.mjs` | guard, submission and receipt of the four transactions; the fail-safe, surface by surface |
| `ReleaseOperations` | the three tools on one chain | their actions side by side |
| `ArcReverseRegistrar` | reverse registrar and universal resolver over the base registrar | `recordData` beside `records`: what resolution reads; `Claim`, `SetPrimaryName`; `PrimaryNames` and `ResolveAddress` are the views |
| `BensSubgraph` | the handlers of the subgraph | `index`, the entities; one operator per handler; those of a transaction are applied to one another in the order of its logs |
| `NameResolution` | the calls that change what a name resolves to | each action of the registrar, registry, resolver and reverse registrar with the logs it emits, in the order of the code |
| `BrowserTab` | a tab with one wallet | the page on the screen, the flows its panels have started, the session storage, the wallet's transactions; `Visit` is navigation, which leaves flows running, `Load` a reload, which ends them; `Stop` every way a flow ends without a hash, a lost answer of the wallet among them |
| `ProtocolVerification` | `protocol-transaction-verification.ts` | the verdict of each transaction and the count of running verifications |
| `NameManagementPanel` | `name-management-panel.tsx` over both | the actions of a registered name, from the button to the end of their transaction, and the recovery effect; one action from each await to the next |
| `RegisterPanel` | `register-panel.tsx` over the tab | `register()` from await to await |
| `WebSession` | the two panels in one tab | their actions side by side |
| `..._proofs` | | the theorems |
| `MC...` | | names, accounts and permits for TLC |

Conventions. An action fires when the transaction succeeds; a revert changes
nothing. Names are label hashes; a node under the base node has the name of its
token. Records and TTLs are abstracted to the number of the lease in which
they were written, which is all that the properties tell apart. Operators are
sets of pairs. History variables (`leaseNo`, `approvedIn`, `delegated`,
`redeemed`, `revoked`, `listedIn`, `moved`, `spoken`, `switched`) are written and never read by an
action's guard; `leaseNo` also is the value a record gets. `life` counts restarts
and bounds them.

The definitions called `X_Something` are faulty forms of `X`, each with the bug
its comment names. They are used by no action: putting one in the place of `X`
shows that a property can tell the difference.

Assumptions about the environment, all visible in the modules:

- The settlement asset is external. A transfer fails without balance and may
  keep a fee (`TransferFees`); accounts have approved controller and market for
  everything, the worst case. Strangers may send money to both (`Donate`).
- The asset makes no callbacks, so claims and withdrawals are atomic. The one
  callback of the system, `onERC721Received` in `buy`, is a step of its own. A
  callback that reverts undoes its purchase, so only callbacks that return
  are in the model.
- Owner, controller and registrar owner are externally owned accounts or
  multisignatures that are not called from inside a purchase; their calls, new
  leases and the clock wait for its end.
- The registrar keeps the base node; the root's recovery operations, and the
  transfer of ownership, are not modelled.
- A signature is the field `signer` of a permit. Which permits exist is a
  constant: also dishonest ones, since `Permits` is any set of permits.
  `bound` stands for the checks that bind a permit to chain, contract,
  release, profile, label, name, data and asset.
- `signerPolicyVersion` is read by services and never by the contract; it
  would come with the issuer's policy check.

- The permit issuer here is the single-process reference of `apps/permit-issuer`. The web
  application hosts a stateless one (`apps/web/src/lib/permit-issuer.ts`), which
  keeps no leases and leaves exclusivity to the controller's nonce and
  availability. A request's challenge, signature, quote, allowance and
  the live policy can only refuse it: a refusal is `TaskFails`. The reads of one
  issue are one multicall. A read may fail (`TaskFails`), and an answer about a transaction
  may be late (`Inspection`). The newest block lies at most `MaxLag` behind the
  issuer's clock, and `MaxLag` below the 30 seconds a lease outlives its
  permit: the code does not check this, and exclusivity depends on it. A
  call that waits for its requester's lock has no state and starts when it
  gets it. A name once registered stays so: the shortest lease is a year,
  and the issuer forgets after 15 minutes.
- The keeper's adapters (`gateway.ts`) are injected, and the code in the repository only stubs
  them. The model trusts them as little as the workflow does: the submission adapter may name
  any transaction, a settlement may be answered either way. What it relies on is that the
  facilitator takes the money of one payment once. `keeper` and its theorems assume
  `UniqueIdentifiers`, the two unique indexes of `PostgresOrderStore`, which the keeper's
  README asks for; `server.ts` wires `MemoryOrderStore`, which has none.
- Release operations. Transactions of one account are mined in nonce order, any number in a
  block. They are not dropped or replaced, the chain does not reorganise, and the owner does
  not change. A transaction that a node took but whose answer was lost (`Faults`) is mined all
  the same. Reads that the tools make apart may fall into different blocks.
- Resolution. A resolver other than the public one is a contract of somebody else and may
  answer anything at each call; the subgraph has no data source for it. Graph Node delivers
  logs in their order, so one transaction is one step of the index; how far the index lags is
  not modelled, and the properties compare at its head.
- Web application. One account of one wallet; session storage works. Transactions of the account are
  mined in nonce order, may stay unmined, and are not replaced. Approvals are transactions that
  the page does not record: failing or declined, they end a flow (`Stop`). What a
  verification compares (calldata, events, the state of the receipt's block) is the status of the
  transaction: `held`, or `overtaken` when a later transaction of its block has undone it. A
  verification that outlives its entry in the cache (five minutes) is not modelled.

## 3. Runs

| Run | Instance | States | Shows |
|---|---|---|---|
| `registrar` | one name, two registrants and the controller, an operator pair, grace 1, leases of 2, time to 5 | 482,352 | type, balances, approvals, node and records follow the lease; `NameLease` is implemented |
| `controller` | one name at price 5, two users, two signers, five permits (several in the second lease, one to the controller itself, one that spends another's approval, ids and nonces shared within and between signers), asset with and without fee, rates 0, 3 and the forbidden 4, the second signer proposed, activated and revoked at any time, fairness of claims | 691,056 | ids once, nonces in order, a revoked signer waits, solvency, `PullPaymentVault` is implemented, the caller pays, time is paid for, renewal stays open, a credit is paid in the end |
| `market` | one name, an account without code and one with, time to 4 so that a name lapses and is registered again, fee rates 1 and the forbidden 2, withdrawals, gifts, fairness of claims | 546,798 | solvency inside a purchase too, `PullPaymentVault`, delivery versus payment, a listing ends with its lease, sellers are paid |
| `market_transfers` | time to 1 | violated after a few steps | see Findings |
| `issuer_permits` | two requesters, three requests for two names, two permit ids, one transaction, permits of 1 in leases of 3, retention 1, lag 1, time to 6 | 5,119,845 | no two competing permits are open, conclusions are final |
| `issuer_liveness` | two requesters for one name, one permit id, one restart, time to 5, with fairness | 165,648 | a submitted lease is settled or dropped |
| `issuer_transient` | as `issuer_permits` | violated after a few steps | see Findings |
| `keeper` | two workers, two orders for one name, two prices, permits, payments and transactions, all interchangeable | 1,389,984 | conclusions are true, `PaidRegistration` is implemented |
| `release_operations` | one run of the operator's tool with every action, one drill, one smoke, three starting positions, errors and lost answers, 6 blocks, 5 transactions | 6,285,796 | rollbacks are final, the drill's report is true, the market opens behind a smoke |
| `release_repause` | the drill alone, 5 blocks, 4 transactions | violated after a few steps | see Findings |
| `web_session` | one name, two terms, two flows, two transactions, one verification at a time, fairness of reloads, recoveries and verifications | 281,584 | records outlive transactions, a settled action frees its name, the service's limit |
| `name_resolution` | one name, two accounts of which one has a reverse node, a resolver of somebody else, grace 1, leases of 1, time to 3, two record versions | 613,460 | primary names are backed, setName takes effect, the index follows the chain and its addresses are served |

The bounds and why they are enough. `MaxTime`, `MaxExpiry` and `MaxVersion`
let a name be active, in grace, lapsed and registered again;
the clock stops at `MaxTime`, and the other actions go on. Two users make
every pair of roles (seller and buyer, payer and referrer, former and new holder) and
the contract's own address is a third account where the code accepts it
(treasury, recipient, referrer). One name is enough where the code treats names
apart; ids and nonces do not depend on the name, so permits of two leases of one name share
them as permits of two names would.
Money is scaled: a price of 5 with 3 in 10 for the referrer gives the rounding
of the division, `MaxPool` is 1 because one unit of strangers' money is enough
to separate balance and surplus. `MAX_PERMIT_VALIDITY < SIGNER_ACTIVATION_DELAY
< YEAR` as in the code. Everything the owner may choose contains a value
the code must refuse or that is dangerous (a rate above its maximum, the
contract as treasury). What is small in the runs is arbitrary in the proofs. The market's asset keeps no fee in
its run: `MarketSolvent` and `DeliveryVersusPayment` are proved for any fee, and the
controller's run has one.

The issuer's times keep their order: a permit (1) is shorter than the lease (3), the lag (1)
is shorter than the margin (2), and at time 3 the lease of time 0 has ended, so
that its name is leased again; by 6 that lease ends and the first one was cleaned
up. A request can be sent again at any time, so retries need no
further request. Permit ids are interchangeable, hence `PermitIdSymmetry`.

The keeper's two orders compete for one name, so that one registration must fail; two
workers are enough for each to overtake the other at any await, and two permits, payments
and transactions let every identifier be the wrong one. Keys, permits, payments,
transactions and workers are interchangeable, and no property of the run is about
liveness, so the symmetry is sound.

Six blocks and five transactions of the release operations hold the drill's four
transactions with one of the operator's tool between any two of them, or an open, its
rollback and a drill that fails. `Confirmations` is 1, the least the manifest allows.

In `name_resolution` time 3 is the first at which a name of time 0, expired at 1 and in
grace at 2, is registered again; two record versions are those of the two leases, or one
lease whose holder clears. `MaxReverseVersion` 1 lets the reverse node be cleared once. Bob
can own Alice's reverse node and speak for it; a reverse node of his own would be a copy.

In `web_session` two flows and two transactions let each record be met by the end of another
transaction of the same name, from a flow whose panel is gone or from a recovery. Records of
different names have different keys and the theorem holds for any number of names; two terms give the
registration record an intent that is not its own. With one place for two
transactions the service is busy whenever both are asked for.

`CHECK_DEADLOCK` is on except in the two runs of the release operations: the owner can
always repeat a setter, a request can always be sent again, a worker can always start; but a
bounded chain of blocks with all tools ended has no further step.

Fairness. Controller: weak fairness of `ClaimReferral` for each account, that is, a
referrer with a credit sends the transaction sooner or later; nothing is assumed of
owner, signer or users. Market: weak fairness of `BuyReturn` (a transaction
ends) and strong fairness of `ClaimProceeds`: a state inside a purchase is
no place where an outside account can call, so the claim is enabled again and
again and not continuously. Issuer: the clocks run; a call that was made answers
or fails; the reconciliation timer and the first-come queue of the
lock reach every submitted lease (strong fairness of `ReconcileStart`, since other work of
its requester takes the lock in between); and an RPC asked again and again
answers in the end (strong fairness of `ReconcileEnd`). Nothing is assumed of
transactions: they may stay unmined or unseen. The order of transactions in a block is arbitrary in
both. Web session: the user loads the page of each name again and again with the wallet connected (`WF` of
`Load`). Since a reload also interrupts what runs, the steps of a recovery are strongly fair: one that
is enabled after each of ever so many reloads happens in the end. A verification ends (`WF` of
`VerificationFails`, the worst end), gets a place when it is asked for again and again, and does
not fail for ever where it could succeed. Nothing is assumed of transactions, clicks and
navigation. The keeper and the release tools have no liveness property: `server.ts` starts
no reconciliation loop and leaves it to whoever calls `reconcile`, and an operator may
stop a tool at any time.

## 4. Proofs

All proofs are for arbitrary sets of names, accounts, permits, prices, rates and
times under the named assumptions of the modules.

`ArcBaseRegistrar_proofs`. The invariant adds to the types that a token
exists exactly when its name was once registered (`TokenIffRegistered`); without
it a first registration might burn, and the decrement of a balance could not be
bounded. Balances are the cardinalities of the sets of tokens, so each action
needs only that one element leaves one set and enters another. Records need one
more fact: versions above the current one are still empty, which makes the
increment in `ResetNode` a reset. That theorem assumes that controllers pass
the public resolver to `register`, as `ArcRegistrarController` does; see the
hazard at `ArcBaseRegistrar.sol:167` for what happens otherwise. What holds for any controllers is
`NewLeaseIsCleanCorrect`: `FutureBlank`, that versions above the current one are empty, needs
no assumption on their resolvers, so a lease that begins at the public resolver shows nothing
old even after a lease elsewhere. `Refinement` maps the holder of a name to its token's owner until the grace period ends.

`ArcRegistrarController_proofs`. `ControllerUsesRegistrar` shows that each step
of the composition is a step of the registrar or leaves it alone, so the
registrar's theorems carry over. `ControllerSolvent` says that
`totalReferralLiability` is the sum of all credits and that the wallet covers it. The sum is the
cardinality of a set with one element per unit owed (`Units`, `Ledger` in
`ArcBaseRegistrar_proofs`), so that a credit adds disjoint units and a claim removes those of
one account: `LedgerInv` is kept by every step of `PullPaymentVault`, hence by every step of the
controller, with no induction over the accounts. That the set is finite is part of the
invariant (at first nobody is owed anything), so infinitely many accounts are allowed.
Three theorems say that a guard passes, as far as that can be said without ENABLED: in every
reachable state an account with a credit can claim it (`ClaimNeverReverts`), the owner of a
name in time or in grace who has the price can renew it (`RenewalNeverReverts`), with the
controller paused, its signer revoked and whatever is owed, and a permit that passes
`_validateRegistration` for an available name is redeemed once its price is there
(`RegistrationNeverReverts`): the credit of the referrer never makes the sale insolvent. Their hypothesis is the state
that the call would produce; that it exists is plain from its definition, and the theorem
is that the code's checks, underflows included, let it happen.
The permit theorems strengthen the history: `usedPermit` contains the id of every
redeemed permit, and `nonces` counts them per requester. The signer theorem needs
`SignerInv`: a revoked signer is not in office before the delay has passed, and a
proposal of it that waits takes effect no earlier.

`ArcNameMarketplace_proofs`. `MarketUsesRegistrar` as above. `MarketSolvent` holds
inside the callback as well because the price came in, in full, before the
seller was credited; it is proved from the same ledger. `ClaimNeverReverts` is the controller's
theorem for sellers, and `PurchaseCompletes` says that the solvency check after the
callback never undoes a purchase, whatever the callback did. `LiveListingSells` is the converse
of `isLive`: what the view calls live can be bought, with the approval that the view saw and
nothing else. `SellersShareCorrect` is the seller's side: between listing and sale the owner may
change the fee, but a seller is credited only in the step that takes the token from her, and
with no less than the price without `MAX_FEE_BPS`; rounding is in her favour
(`RestBounded`). `ListingWithinLease` rests on `ListingInv`: a listing of an
earlier lease ends before that lease does, and a name is registered anew only
after the grace period.

`KeeperWorkflow_proofs`. `KeeperInv` adds to the types: identifiers are unique; the fields of
an order fit its state (`OrdersFit`: from `permit_issued` on it has a permit, from
`payment_authorized` on a payment, and so on); the chain fits the transactions
(`ChainFits`: a registration is the effect of a transaction that succeeded); money fits
the orders (`MoneyFits`: what was captured belongs to an order that was confirmed, a refund to
one that waits for it or has it); and what a worker is about to write still agrees with
what it read, or its compare-and-set will refuse (`TasksFit`). From these follow
`KeeperConclusionsTrue` and, step by step, `KeeperKeepsPromise`: each action is a step of
`PaidRegistration` or leaves it alone. `NoOrderChargedTwice`: the facilitator took money at most
once for an order, and no two orders claim the registration of one name.
`MoneyFollowsReceipts` adds the receipts: `ReceiptsFit` says that behind `token` stands a
transaction that succeeded with the order's permit, name and quoted price, and behind
`refund_pending` one that reverted; it is inductive because a mined transaction is
final (`MinedIsFinal`) and an order that has left `registration_submitted` keeps its
transaction. It does not say that a refunded order's name stayed free: two workers may submit
twice, and the transaction that the order recorded may be the one that reverted because the other
had the name.

`ReleaseOperations_proofs`. `OperationsInv` is the types with `MinedInOrder` (transactions
are mined in nonce order), `SmokeFits`, one conjunct for a run of the operator's tool and one
for the drill that say what each step has seen on the chain, and `MarketAfterSmoke`. The
chain only grows (`Grows`), so what a report says of a block stays true; the finality of a
rollback is the nonce order: the pause is submitted after every open of the run, so an
open that is not mined when the pause is mined cannot exist. `SwitchInv` turns this into a
statement about the switches: `SwitchFollowsChain` says that a surface is, in every block,
where its last mined transaction left it, and `RepauseFits` that the fail-safe reports
`repaused` only with a mined pause behind all opens of the drill. `ReopenedOnlyByOthers`
follows: what was reported as rolled back or repaused is opened later by another sender only. The
theorem leaves out `alreadyPaused`, which carries no such promise: that is the `release_repause`
finding. Everything holds for any
number of runs, blocks, transactions and confirmations.

`NameResolution_proofs`. `ResolutionInv` takes the registrar's `RecordsInv` over and extends it
to the reverse nodes. `DataFits`: an address stands in the public resolver only in a version in
which a record of the lease was written, so a version that is empty for the lease is empty for
resolution. `Unspoken`: a reverse node is nobody's and has no resolver until its account has called the
reverse registrar, because whoever acts on a node is its owner or the owner's
operator. `Unregistered`: the same for a name before its first lease. From these follow
`PrimaryNamesAreBacked`, in every lease and for any number of accounts, and `SetNameWorks`, which
needs no invariant beyond the types and the distinctness of the reverse nodes.

The index is a copy the chain does not know of, so `IndexInv` says, node by node, that the
entities show the owner, the lease and the address that there are to show. Each handler
`Touches` the entities of one node, and each call emits logs of one node, or of a name and its
reverse node; the rest of the index is then as right as it was. A
registration is the hard case: burn, mint, ownership of the node, resolver, records and lease
are up to eleven logs, some of which are wrong for a moment; `RegistrationShowsNewLease` is
their net effect. A handler knows the versions of a resolver only by their changes:
the proof that a new version shows no address needs `RecordsInv` and `DataFits`, that
is, the registrar's and the resolver's own invariants. From these follow `IndexFollowsChain` and
`IndexedAddressIsServed`, the latter with its exception for a switched resolver (see Findings).

`PermitIssuer_proofs`. `IssuerInv` says of the clocks that the chain lags at most `MaxLag`
(`ClockFits`); of the store that its maps lead to leases that exist, that a lease outlives
its permit by the margin and that a submitted one has a transaction of its own permit
(`StoreFits`); of the chain that it knows only permits that were drawn (`ChainFits`); and of
each task what its reads brought (`TasksFit`): in particular, a permit redeemed
for a name after the reads of a request was still valid at their time.
`OneLease` is the heart of the matter: a lease of this life leaves the map of labels only when its permit
is dead, redeemed or past its time on the chain, and of two leases that compete the
permit of one is dead. It is here that `MaxLag < MARGIN` is used: a lease the issuer's clock
has ended has a permit that the chain, lagging, has ended as well. `OneOpenPermitCorrect` follows for the permits
that were handed out, with any windows, permits, names and requesters. `LeasesAreBound`: what the maps of the store
lead to is a lease of the right name, and a submitted lease has a transaction of its own permit.
`RequestsKeepTheirPermit` needs `KeysFit`: the key of a request leads to its lease from the moment
the lease is drawn until cleanup may drop it, `RETENTION` after the end of the lease. Neither a
failed nor a redeemed lease frees its key earlier, so a request that is repeated cannot draw
a second permit; a restart loses the map, hence the restriction to leases of one life.

`WebSession_proofs`. `SessionInv` adds to the types: a flow that has a hash has one of a transaction of
its kind (`FlowsFit`), a transaction that was sent is about a name (`SentFits`), what was verified
stands on the chain (`VerdictsFit`), and the counter is the number of transactions whose
verification runs (`ActiveIsRunning`), so the limit is that of a cardinality.
`SlotsComeBack` states this for itself: no way a verification ends, errors included, loses a
place or frees one twice, and a verdict of the service is true of the chain.
`RecordsOutliveTransactionsCorrect` then goes action by action: whoever clears a record has seen the
end of a transaction, and clears only what names that transaction. `RecordsAreTheirOwn` says what a record is: `OwnInv`
ties flow, record, recovery and transaction together by name, kind and term, so a recovery never
settles another name's page, and a registration that is taken up again is the one the user
asked for. It is inductive because a flow keeps its name while its page changes, and what the
wallet sent is not sent again as something else (`SentStays`).

Both vault theorems (`ControllerKeepsVaultPromise`, `MarketKeepsVaultPromise`) go action by
action: the promise keeps the total as a variable of its own that moves with one account's
share at a time, so no induction over the accounts is needed.

Checked by TLC only: `RenewalStaysOpen`, since it speaks of ENABLED (`RenewalNeverReverts` is what
can be proved of it), and the liveness properties `ClaimServed`, `ProceedsServed`,
`SubmittedIsSettled` and `PendingActionSettles`. `ClaimNeverReverts` is the step that `ClaimServed`
and `ProceedsServed` rest on.

## 5. Findings

`market_transfers`. The repository's `README.md:40` promises "Automatic
protection preventing stale listings when names change ownership
externally." The code suspends a listing while the token is elsewhere and never
deletes it. When the token returns to the seller, and the seller's approval of the
market for all tokens still stands, the old listing is live again at its old
price (`ArcNameMarketplace.sol:206`), unless somebody has called
`invalidateListing` in between.

`issuer_transient`. `apps/permit-issuer/src/service.ts:468` says: "A transient RPC
failure leaves the submitted lease closed for retry." That holds for errors that
reach this `catch`. The reads that verify a mined registration are caught earlier
(`chain.ts:117`), and their failure is answered as `invalid`, which
`reconcileSubmittedOnce` and `recordSubmission` store as `manual_review`. Only submitted
leases are listed for reconciliation, so a successful registration whose verification
failed once is never confirmed, and its requester gets no other permit until
cleanup drops the lease.

`release_repause`. `docs/EVIDENCE_POLICY.md:274` and `docs/DEPLOYMENT.md:510` say that the
execution surfaces are paused again when the drill fails. The fail-safe reads the
switches first (`run-operations-drill.mjs:783`) and reports a surface it finds paused as
`alreadyPaused`, without a transaction. When the drill fails because the answer to its
reopening transaction was lost, or while it waits for the receipt, that transaction is still
pending: the switch reads as paused, the report says so, and the surface opens in one of the
next blocks. `admin-activation.mjs` guards against the same case: after a started open it
pauses whatever the switch says (`forcePause`).

Divergences met while modelling that have no run of their own:

The record of a registration can block its tab. `docs/DIRECT_REGISTRATION_SECURITY.md:118` says that
after a lost response the same checks are repeated. `register()` does so when it is called again with
the same name and term (`register-panel.tsx:580`), but `app/name/[label]/page.tsx:358` shows its
panel only while the name is available. When the tab is reloaded after the registration was
mined and before it was verified, nothing takes the record up: it stays, and every other registration in
the tab is refused with "A different registration is still pending in this browser", although the
transaction is resolved. The management panel, which is shown then, has a recovery for its own
records only. `PendingActionSettles` therefore speaks of those.

Market actions are verified against the state at the end of the receipt's block
(`protocol-transaction-verification.ts:213`, `:342`). A listing that is bought, or a purchase
that is listed again, in the same block is refused as unconfirmed each time, and its panel stays in
"still catching up" while the tab is open. `Settled` names the case (`overtaken`) and the property exempts it.

`begin` looks for a record before the wallet is asked, and the record is written when the hash
arrives (`name-management-panel.tsx:606`). Two flows of a name, the first left behind by navigation, can both pass;
the later record replaces the earlier one. `RecordsOutliveTransactions` protects the one that is there.

`handleAddrChanged`
sets the resolver of a domain to the resolver that emitted the event, although
`setAddr` does not ask whether the node uses it. After a holder has moved a name to another
resolver, a record written in the public resolver makes the index show the public resolver
and that address; the comment at `registry.ts:31` ("A resolver switch invalidates all address
data cached from the old resolver") holds only until then. `IndexedAddressIsServed` says
exactly how far the index may differ.

## 6. Not modelled, and why

- Nodes below a name, and the root's recovery: left for an extension of the registry with
  a hierarchy of nodes.
- Encoders, `BoundedNamehash`, `Utf8`, the text and name views of `ArcUniversalResolver` with
  their bounds, `ArcBaseRegistrarV2`: they keep no state the properties speak of. The shape of
  a name string (suffix, one label) is a model value.
- `Ownable2Step`: the owner is a fixed account in the models.
- Challenges and rate limits of the issuer, its health endpoint and
  `release`, which nothing calls; the policy check against `signerPolicyVersion`.
- HTTP, parsing and limits of the keeper; its adapters beyond what the workflow relies on.
- Of the subgraph: event entities, text keys, coin types, parents and subdomain counts,
  plaintext labels, and the lag behind the chain.
- Of the release tooling: the validators of manifests, deployment evidence, promotion and
  attestation in `packages/config/src` and `scripts/lib`. They are checks over files, most of them field by field;
  what they bind together over time (smoke before market, drill after opening) is in
  `ReleaseOperations` as far as the running tools enforce it, and the chain of signed
  promotions is left for a module of its own.
- The web application beyond the two panels and the verification service: pages, metadata,
  account dashboard, caches of reads, admission, RPC quorum and the hosted issuer, request
  ids and their rotation; SDK, React and MCP clients. Reads of one pinned block, and request
  handling that keeps no protocol state.
- Widths: `uint256` arithmetic is checked by Solidity 0.8 and amounts stay far
  below; the one unchecked block (balances) is covered by `BalancesMatchTokens`.

## 7. Plan

Done: registry, resolver, registrar with `NameLease`; controller and market
with `PullPaymentVault`; the reference permit issuer over its store; the keeper with
`PaidRegistration`; the release tools; resolution, reverse names and the index; the flows of the web
application with their verification; the theorems of all of these.

Next, in this order:

1. The live policy check of the issuer against `signerPolicyVersion`.
2. `ReleasePromotion` (`promotion.ts`, `funded-acceptance.mjs`, `prepare-release-stage.mjs`,
   `attestation.ts`): the stages of a release over one growing chain, and that each promotion is backed by
   evidence of its own stage, in order.
3. `ApiAdmission` and the RPC quorum of the web application.
4. Extensions of the core: controllers that use other resolvers, nodes below a
   name, `Ownable2Step`.
