# Starpost Signals in TLA+

TLA+ models of the Starpost contracts, TLC configurations that check them on
small instances, and theorems that TLAPS proves for every value of the
constants. Paths are relative to the repository root (`src/` here is that root).

## 1. The system

| Component | Code | State | Operations | Model |
|---|---|---|---|---|
| Signals | `contracts/signals/src/lib.rs` | options, counts, total, one receipt per wallet | initialize, vote | `Signals` |
| Level 3 Escrow | `contracts/escrow/src/lib.rs` | vaults, contributions, release and refund receipts, token balance, pause | open_grant, contribute, release, set_refundable, claim_refund, set_paused | `GrantEscrow` |
| Level 3 Registry | `contracts/registry/src/lib.rs` | grants, milestones, votes, pause | create_grant, finalize_funding, vote_milestone, finalize_milestone, cancel_grant, set_paused | `GrantRegistry` |
| Impact Escrow V1 | `contracts/impact-escrow-v1/src/lib.rs` | per-project vaults, receipts, asset policies, pause clock, governor | open_vault, deposit, lock_funding, release_milestone, enable_refunds, claim_refund, policies, pause, governor rotation | `ImpactEscrowV1` |
| Impact Registry V1 | `contracts/impact-registry-v1/src/lib.rs` | projects, roles, milestones, evidence and ballots, policies, pause clock, governor | the project and milestone lifecycle, roles, reviews, votes, disputes, timeouts, governance | `ImpactRegistryV1` |
| Indexer | `indexer/src/{poller,store,event-codec,main,config}.ts` | cursor, grants, activity, raw events, dedupe ids, files | poll, ingest, save, load, telemetry, activity stream | `Indexer` |
| Evidence service | `indexer/src/{evidence-store,server}.ts` | reservations, evidence, media-type and metadata files | reserve, PUT, store metadata, read, expire | `EvidenceStore`, in `Client` |
| Grant views | `src/domain/grants.ts`, `src/lib/{registry-discovery,grant-client,events}.ts`, `src/hooks/use-grants.ts` | the grants and events a page shows, its feeds' positions | discover, reduce an event, snapshot, stream, poll, hydrate, merge | `GrantViews` |
| Transactions and wallet | `src/lib/{transaction,wallet,stellar,impact-client,evidence-client}.ts` | one call's progress; the wallet's account and network | validate, simulate, sign, send, poll; upload | `Mutations`, `Ledger`, `Client` |
| Onboarding | `src/domain/onboarding.ts`, `src/hooks/use-onboarding.ts`, `src/components/OnboardingView.tsx` | the journey's step and confirmed transaction, in storage | choose, continue, go back, restart, record a confirmation | `Mutations` |
| User interface | `src/App.tsx`, `src/components/{ProofToPayoutView,SignalsView}.tsx` | locks, drawer, evidence form | run an action, select, store, anchor; the buttons of a project | `Mutations`, `Client`, `ProjectPage` |
| Impact helpers, other views, scripts, CI | `src/domain/impact.ts`, the rest of `src/`, `scripts/` | none worth a model | validation, display, deployment | no |

**How they interact.** A registry calls its escrow inside its own transaction
(`EscrowV1Client`, `EscrowClient`), and both registries read the number of
categories from Signals. Soroban runs one call at a time and rolls a failing
call back in every contract it touched, so the interleavings are those of whole
calls: which call comes next, by whom, and at which ledger time. Contracts
publish events; the indexer polls them, and the page shows indexer state merged
with state read from the contracts. Nothing flows back: the indexer and the
page never authorise a payout (`docs/level4/ARCHITECTURE.md`). A browser tab
sends calls through the wallet to the RPC node and learns their outcome by
polling; evidence goes to the evidence service first and its hash to the
registry after that.

**What is hard.** Money is shared by all vaults of an asset and refunds are
rounded in an order nobody controls; each contract keeps its own copy of the
phase and of a pausable clock; a milestone's record is reused by the next
attempt, so its counters must not carry over; each deadline races the decision
it bounds; and the project moves only when somebody calls. Off chain: crashes
between ingest and save, replays, reads of a moving chain that overlap with each
other and with events, a PUT that is repeated, answers that are lost while the
transaction lands, and a tab whose every await lets the user, the wallet and its
other actions go first. The full
list, each at its line, is `hazards` in `PROJECT.json`.

**What makes each part correct.**
- *Signals*: the tally is what the receipts add up to.
- *Escrows*: the balance of an asset is what its vaults owe; refunds are fair to
  within rounding and leave nothing behind; whoever is owed can claim; what
  was locked, released or refunded stays so.
- *Registries*: status and money agree; only ballots of this attempt count; only
  earned milestones are paid, in order; nobody judges what they fund or run;
  every project ends.
- *Pause clock*: a pause costs nobody time, and the two contracts agree.
- *Indexer*: each event is indexed once and none is skipped, across failures and
  restarts; what a client was told is saved survives; ready means caught up; the
  stream has no gap.
- *Grant views*: a page invents nothing; of the grants up to the cap on ids it calls
  its list ready only when it is complete, and a page that polls converges to the
  contracts' state.
- *The tab and the evidence service*: "confirmed" means carried out for the
  account that signed; one action of a label at a time; what the registry's
  evidence names is kept and can be downloaded (the second half does not hold,
  section 5); a project's page has a button for each move.

## 2. Modules

`PauseClock` &larr; `ImpactEscrowV1` &larr; `ImpactRegistryV1` &larr; `RegistryAgreement` (with
an INSTANCE of `FundingAgreement`) &larr; `ProjectPage` (EXTENDS: the registry's actions
conjoin the escrow's); `GrantEscrow` &larr; `GrantRegistry`; `Signals` &larr; `Ledger` &larr;
`Mutations` &larr; `Client`, which also EXTENDS `EvidenceStore`; `GrantViews`; `Indexer`.
`MC*` hold what the `.cfg` files need. The theorems are in `SumTheorems` (sums over
finite sets), in `ImpactEscrowV1_proofs` (with those of the clock) &larr;
`ImpactRegistryV1_proofs` &larr; `RegistryAgreement_proofs`, where each
extends the module it is named after (the last one `ProjectPage` too) and the proofs before it, in
`GrantRegistry_proofs`, in `Client_proofs` (with those of the poll), in
`Indexer_proofs` and in `GrantViews_proofs`. The exact lines each definition models are in `map` in `PROJECT.json`.

**`PauseClock`.** The three fields `pause_mode`, `paused_at`, `paused_seconds`
(named so in both contracts), `SetMode` for what `set_pause_mode` does to them
and `Effective` for `effective_now`. Time stands still under either pause mode;
`PauseNewActivity` still lets decisions and payouts through, `PauseRiskyMutations`
does not.

**`ImpactEscrowV1`.** One action per contract call. A `Vault` record has the
contract's fields (the payout address is a constant of the vault and left out);
`contribution`, `release_receipt` and `refund_receipt` are the `DataKey` entries
of the same names; `custody` is the token balance of the contract, moved by every
transfer. `now` is ledger time; `Tick` is the only action that is not a call.
Every call but `claim_refund` requires the registry's authorisation, so the
module alone lets the registry call anything: what it checks holds for any
registry, not just the one below. `DepositThenLock` is the one transaction in
which the registry makes two calls. A method that returns an error is an action
that is not enabled. The i128 limit is the constant `MaxI128`; `RefundFits` is the
`checked_mul` of `claim_refund`.

**`ImpactRegistryV1`.** Extends the escrow: a registry method that calls the
escrow is the conjunction of both changes, so an error in either disables the
step, as the host's rollback does. `project` and `milestones` are the contract's
records. Evidence, attestation, vote and arbitration receipts are keyed by
milestone and attempt in the contract; only those of the current attempt are
ever read again, so `receipts[p]` keeps those and is emptied when the attempt or
the current milestone moves on. `ActorStep` is what needs a role, `PermissionlessStep`
what anyone may call, `AdminStep` the governor's and guardian's calls.
`ApplyTimeout` is the dispatch of `apply_timeout` with the finalizer it delegates to.
The same initial policy, asset and governor are given to both contracts, as the
deployment does; `ContractsAgree` is about what happens afterwards.

**`FundingAgreement`, `RegistryAgreement`.** The abstract specification: for each
project what was given, how many milestones have been paid, who was repaid and
what is held, with neither contract, role nor deadline in sight.
`RegistryAgreement` maps the two contracts to it: the phase comes from the
registry's status and the vault's refundable flag, the money from the escrow,
and whoever has a refund receipt is repaid. `Agreement!Spec` is the property: a step of
the contracts, a call with its nested calls, is one step of the agreement or none.

**`ProjectPage`.** `Buttons(p, a)` is what `ProjectActions` shows to account `a`,
from the project as `readImpactProject` gives it (`View`), and `Sends(p, a, label)`
the registry or escrow call behind each button, with the arguments the page puts
in. It adds no state; it is a view of the registry's.

**`GrantEscrow`, `GrantRegistry`.** The Level 3 contracts, composed the same way.
The two pause flags are independent, as in the code. `returned` counts what a
contributor got back; `FullRefund` compares it with what they paid.

**`Indexer`.** One action per stretch of code between two awaits. An event is its
position in the chain, `Ledger` gives its ledger, and a cursor is the last
position read. `StartTick` and `TakePage` are the two halves of `tick` around its
request; `poll` is what the poller waits for. A save is a record in `saves` (the
promise chain `saving`) that carries the state serialised when it was asked for
and who waits for it; `StartCopy`, `FinishCopy` and `Rename` are its file
operations, and during the copy the backup is `Torn`. The temporary file has a
random name and nothing reads it, so it has no variable. A file is `Absent`, `Torn` or
`Whole`, and `Recovered` is the one whose content `load` takes; it throws when that one
is torn. `Ingest` puts an event in front of those of its ledger, which is what the
stable sort of the list with the new event at its head comes to. A page is one
listener of the stream. Two things are taken from how the code uses the RPC node: it may
repeat up to `Overlap` events, none from before `StartLedger`, and a page that is not
full reached the latest ledger, as `scannedLedger` assumes.

**`Signals`.** `MaxU32` is scaled down so that the saturating additions are reached.

**`Ledger`.** The network as a tab meets it: sequence numbers, the pool and landing.
The poll is `Signals`; of the registry there is one milestone with its evidence,
and which calls it accepts. A transaction is known by the action that built it.

**`Mutations`.** `App.runMutation` and `submitContractCall`, one action per stretch
between two awaits: `mutation[m]` is where action `m` stands, `locks` the ref
`mutationLocks`, `transaction` the drawer, `journey` and `saved` the onboarding
progress and its copy in localStorage (`Null`: storage is disabled). `Render` ends
every step: React renders and the two effects run. A wallet is asked for its network and
account before it signs, and may switch in between; the answer of `Send` may be
lost, or be TRY_AGAIN_LATER, which the code takes for submitted.

**`EvidenceStore`.** `storeUpload` stopped at each of its awaits, for up to two
deliveries of one PUT (HTTP lets a PUT be repeated; with three, a partial file
can be renamed, see section 5), files that are absent, partial or whole, and a
crash that ends every handler and forgets the reservations.

**`Client`.** The tab and the service together. `flow[u]` is an upload as the page
goes through it, `page` the evidence form, and `shown` the milestone as the page
read it last: answers of overlapping `load` calls come in any order, so it may be
any the milestone has been since the page was opened. The creator alone uses the
form. A session says what the tab is used for and how much of it happens.

**`GrantViews`.** `useGrants` with its reducer, the discovery and the merge. The chain
is a fixed history of events (`Scenarios`), each of them one that the Level 3 contracts
could publish then (`Publishes`); `Stored` is what it makes of each grant, `ledger` how
far it has closed, `indexed` how far the indexer has read. A remote call is the action that takes
its answer, of any ledger since the call began. `discovery[r]` is a scan in
batches, `fetch[r]` the snapshot or page that reader waits for, with the cursor it was
asked for with, `authoritative` the ref of that name. Grants go up to `LastGrantId`, and
a discovery reads those up to `MaxGrantId` (`Discoverable`): the code cuts the
allocator's range, the probe and the ids it knows there. The page's loop and its user each reconcile on their own.

Each module also holds, next to a definition, a mutated form of it (for example
`CanReworkOnceMore` before `CanRework`): a plausible bug of that code. No
specification uses them; they are there to show that each property can fail.

## 3. Runs

| Run | Shows | States |
|---|---|---|
| `escrow_refunds` | Three contributors, each way of paying a goal of 7, refunds before or after a release, each order of claims: types, receipts and totals, outstanding shares, an empty pool after the last claim, nobody underpaid, gains bounded by the dust, each claim payable, no terms rewritten and nothing undone. With a second vault in the same or another asset, policies changing: per asset, the balance is what the vaults owe. | 130k |
| `escrow_overflow` | *Violation.* The product in `claim_refund` overflows and a claim fails. | - |
| `registry` | A whole project over both contracts, two milestones, two attempts, each decision at each time, and inputs that mix roles; or pause modes, rotation and policies in the middle of a project with an odd goal and capped voting power. Both contracts implement the agreement and agree with each other; each move is a button of the page; clocks are safe, nothing moves during a full pause, eligible power is exact. | 150k |
| `registry_liveness` | With prompt keepers every project ends. | 40k |
| `registry_stranded` | *Violation.* A rework verdict on the last attempt strands the project. | - |
| `client` | A tab in four sessions: two votes with two disturbances; a journey from its start to its proof with two; two overlapping uploads of which one is anchored, and evidence anchored, reviewed and reworked, with one disturbance each. Tallies saturate; confirmed means carried out; one action per label; what is anchored is stored. | 730k |
| `evidence_served` | *Violation.* A repeated PUT cut off by a crash leaves anchored evidence without its media type. | - |
| `grants` | Two Level 3 grants of unlike thresholds in one asset, all calls interleaved. | 500k |
| `grant_refund` | *Violation.* A contribution after a refund is lost. | - |
| `indexer` | Polls, telemetry and saves that overlap and fail, one crash or shutdown at any await, repeated events, a page that reconnects: nothing twice, nothing skipped, a 204 is durable, ready is caught up, no gap in the stream, the file never goes back, every event indexed in the end. | 160k |
| `grant_views` | Four histories (two contributions in a ledger; a delivery to its release; two grants, one cancelled, while calls fail; three grants, one of them past the cap on ids), the page opened at any time: nothing invented; up to the cap, ready means complete and polling converges. | 660k |
| `grant_votes` | *Violation.* A vote in a read newer than its stamp is counted again. | - |

**Bounds.** `MaxTime` bounds the ledger clock; all windows are one tick, so the
four ticks of `registry` cross every window in every order that fits,
and the twelve of `registry_liveness` are more than the longest project's
deadlines add up to (with six, the run fails for want of time: the bound
matters). Two milestones reach first, middle and last; two attempts reach rework
and its exhaustion; two reviewers and arbitrators with threshold two reach split
decisions; three contributors with amounts 1 to 4 and a goal of 7 reach every kind
of rounding (shares that divide, that leave a remainder, the last claimant).
`AmountInputs`, `GoalInputs`, `PlanInputs`, `PolicyInputs` and the other `*Inputs`
are the arguments tried, some of them invalid on purpose. `MaxI128` is far above
the products except in `escrow_overflow`, which scales the limit and the amounts
down together, so that TLC's own integers hold the product.

`MCLedger` puts three events in one ledger and pages hold two, so a full page ends
in the middle of a ledger; `MAX_DEDUPE_IDS` and `MAX_CONTRACT_EVENTS` are below the
number of events, so that both feeds evict. `MAX_PUBLIC_ACTIVITY` is not: a page
that comes back after its last event was evicted gets nothing of what it missed
(`server.ts:167`), which is a hazard without a property. `Backlog` covers the whole
chain: events older than 50 000 ledgers at the first poll are never read.

`OneOrTwoVaults` explores either one vault of the full size or two small ones, not
their product. `Followed` does the same for `registry`. A project with the odd goal of
3 meets administration (`Administered`): pauses by governor and guardian at any time
up to tick 3, a rotation that lasts until its first review, or a new policy until
delivery begins, on its first attempt and without a vote of the arbitrators for release or
rework. The others meet none (`Delivered`) but go through everything else, with each
contributor paying once; a draft that was changed is followed until tick 1 or the end of
its funding, since afterwards it differs from an unchanged one in its hash only. What is
cut off is the product of the two kinds, which the theorems cover. In `client`, a *disturbance* is a wallet switch, a disconnection,
a reload, a dismissed drawer, a call that fails although it would be accepted, a
review opened elsewhere, a repeated PUT, an expiry or a crash of the service; each
session has its number of them, since their combinations multiply. `evidence_served`
takes the last session without its second action and with two disturbances: the
repeated PUT and the crash. `MaxU32 = 1`:
a second vote saturates. In `grant_views`, `Concurrency = 1` and
`FailedBatchAbort = 2` with two failures let a scan give up in the middle, as it
does in the code at batches that fail as a whole, one after the other. `LastGrantId = 3`
and `MaxGrantId = 2` put one grant past the cap.

**Symmetry** is used on contributors, reviewers, arbitrators and projects, only
where no action and no property names one, and never for liveness.

**Deadlock** is not checked where a run ends: when each project is settled and
time has run out, no call can succeed.

**Fairness** (`KeptSpec`). A contract does nothing by itself, so progress needs
somebody who calls. Anyone may call `apply_timeout` and `release_milestone`, and
the operations guide expects the team to; `KeptSpec` gives weak fairness to those
two calls and to the clock and to nothing else: creators, reviewers,
contributors and arbitrators may stop for ever. `PromptNext` adds that the clock
does not pass a moment at which such a call is due; without it a finite
`MaxTime` could be used up before the last deadline is set. It removes only
behaviours in which a due call is late, and a late call is covered by the
safety runs, where the clock moves freely.

`IndexerFairSpec`: ledgers close, what the poller or a save awaits arrives, the
timer of `start` polls again, and the platform restarts the service. `MaxFailures`
lets a poll or save fail, not every one for ever, and `MaxCrashes` bounds crashes: an
RPC node that never answers is not the indexer's fault. Telemetry, crashes,
failures and the page's steps have no fairness.

`ViewsFairness`: ledgers close, and while the page waits for calls (each is
cut off by `withTimeout`) or for the timer of its polling loop, some call answers
or fails or the timer fires. Which one, and whether the indexer ever answers, is
left open. The runs of `client` have no liveness: a page may be closed at any time.

## 4. Proofs

TLAPS proves, for all constants that satisfy the named assumptions:

| Theorem | Statement |
|---|---|
| **`ImpactEscrowV1_proofs`** | |
| `SetModeKeepsTime`, `TickMovesTime` | Changing the mode never moves effective time; a tick moves it by one exactly when the contract runs. |
| `TypeCorrect` | `EscrowSpec => []EscrowTypeOK` |
| `PoolAlwaysDrains` | `EscrowSpec => []PoolDrains` |
| `RefundsNeverUnderpay` | `EscrowSpec => []NeverUnderpaid` |
| `EffectiveClockIsSafe` | `EscrowSpec => EffectiveClockSafe` |
| `EscrowSolvent` | `EscrowSpec => []Solvency` |
| `TotalsMatchReceipts` | `EscrowSpec => []ReceiptsMatchTotals` |
| `SharesAreOutstanding` | `EscrowSpec => []SharesOutstanding` |
| `DustIsBounded` | `EscrowSpec => []DustBounded` |
| `HistoryIsKept` | `EscrowSpec => VaultHistory` |
| **`ImpactRegistryV1_proofs`** | |
| `RegistryTypes` | `RegistrySpec => []RegistryTypeOK` |
| `StatusAndVaultAgree` | `RegistrySpec => []StatusMatchesVault` |
| `OnlyEarnedIsPaid` | `RegistrySpec => []PaidOnlyIfEarned` |
| `PowersAreSeparate` | `RegistrySpec => []SeparatePowers` |
| `CopiesAgree` | `RegistrySpec => []ContractsAgree` |
| `PowerIsExact` | `RegistrySpec => []EligiblePowerExact` |
| `BallotsAreCounted` | `RegistrySpec => []BallotsCounted` |
| `RegistryKeepsSolvent` | `RegistrySpec => []Solvency` |
| `PauseFreezes` | `RegistrySpec => FrozenWhilePaused` |
| **`RegistryAgreement_proofs`** | |
| `ProjectsOnlyMoveForward` | `RegistrySpec => OnlyForward` |
| `ContractsImplementAgreement` | `RegistrySpec => ImplementsAgreement`, the refinement of `FundingAgreement` |
| `PageOffersAlways` | `RegistrySpec => PageOffersEveryMove` |
| **`GrantRegistry_proofs`** | |
| `MoneyFollowsStatus` | `GrantSpec => []StatusMatchesMoney` |
| `PaidByVote` | `GrantSpec => []ReleasedByVote` |
| `GrantsSolvent` | `GrantSpec => []GrantSolvency` |
| **`Client_proofs`** | |
| `TalliesMatch` | `SignalsSpec => []TallyMatchesReceipts` |
| `OneActionAlways` | `ClientSpec => []OneActionPerLabel` |
| `ConfirmedAlways` | `ClientSpec => []ConfirmedMeansCarriedOut` |
| `AnchoredAlways` | `ClientSpec => []AnchoredIsStored` |
| `PollImplementsSignals` | `ClientSpec => SignalsSpec` |
| **`Indexer_proofs`** | |
| `AcknowledgedAlways` | `IndexerSpec => []AcknowledgedIsDurable` |
| `CursorOnDiskAdvances` | `IndexerSpec => CursorNeverBack` |
| `IndexedOnceAlways` | `IndexerSpec /\ []PolledInTime => []IndexedOnce` |
| `NothingSkippedAlways` | `IndexerSpec /\ []PolledInTime => []NothingSkipped` |
| `ReadyIsCaughtUp` | `IndexerSpec /\ []PolledInTime => []ReadyMeansCaughtUp` |
| `StreamHasNoGap` | `IndexerSpec /\ []PolledInTime /\ ListedOnReturn => []StreamGapFree` |
| **`GrantViews_proofs`** | |
| `ViewsInvariant` | `ViewsSpec => []ViewsInv` |
| `PageInventsNothing` | `ViewsSpec => []NothingInvented` |
| `ReadyIsComplete` | `ViewsSpec => []ReadyMeansComplete` |

**Assumptions**: `NoneAssumption`, `EscrowAssumption`, `RegistryAssumption`,
`GrantEscrowAssumption`, `GrantRegistryAssumption`, `SignalsAssumption`,
`LedgerAssumption`, `EvidenceStoreAssumption`, `ClientAssumption`,
`IndexerAssumption`, `GrantViewsAssumption`, `HistoryAssumption` and
`MarkersAssumption` only. A
ledger holds finitely many projects, grants, wallets and contributors; ids are
numbers; a PUT is delivered at most twice; inputs have their types, amounts being any integers; the initial policy
is one the contracts accept; the markers of absent entries are not values; the chain of events is finite, and the RPC
node repeats at most a page of it, and no more than `MAX_DEDUPE_IDS` (100 000 in the code,
where a page has 100 events). `HistoryAssumption` says what the chain of the Grants page
is: a list of events, in which each finds its grant in a state in which the Level 3
contracts publish it. That is their own checks and no more (`Publishes`): a cancelled
grant still takes contributions, and a vault is opened before its grant is there, because the
code does both.
Nothing is assumed about amounts, thresholds or windows beyond what the contracts
check, about the order of calls, or about how many of anything there are: the
finite bounds, `LastGrantId` among them, may have any value. `ReadyIsComplete` says
nothing of grants past `MaxGrantId`, of which the Registry may hold any number
(section 5); `PageInventsNothing` is about all of them. A claim whose product overflows is refused (section 5); the
theorems on refunds are about those that were paid. `PolledInTime` is a hypothesis of
four theorems: while there is no cursor, the chain is at most `Backlog` (50 000) ledgers
past `StartLedger`. A fresh indexer that first polls later starts from what the
node still keeps, by design: `page` asks for `latest - 50_000` then. `[]PolledInTime` says
nothing once there is a cursor, whatever happens afterwards. `ListedOnReturn` is a
hypothesis of `StreamHasNoGap`: a page that connects again and names an event names one
that is still among the `MAX_PUBLIC_ACTIVITY` (2000) listed, or one that the indexer,
restarted from an older state, has yet to come to. The server sends nothing
to a page that names an event it has dropped (`server.ts:168`), so without it the theorem is false.

**The escrow.** `EscrowTypeOK` is not inductive: that a claim leaves a natural
number in the pool needs that the pool is never more than the outstanding
shares. `NeverUnderpaid` needs more: each claim rounds down over what is left
*then*, and the bound is about what was left *at first*. `EscrowInv` adds
`Accounting`: for each vault the totals add up, and `ValuePerShare`, that a share
of what is left is worth at least what a share was worth when refunds opened.
A claim that rounds down leaves its dust to the others, so it can only raise
the value (`ValueKept`), and a claim at no less than the first value, rounded
down, loses less than one unit (`PaidEnough`). The last claimant takes the pool,
which empties it. `NextInv` is one step per action; the arithmetic is in lemmas
about integers (`Floor`, `CancelLeq`, `ScaleLeq`, `FloorShare`).

`Books` adds the sums: a vault's totals are the sums of its receipts, what the
contract holds of an asset is the sum of what its vaults still hold, and the
other side of `ValuePerShare`. With pool *P* and outstanding shares *L* now, *P0*
and *D* when refunds opened and *k* claims since, *P*·*D* is at most
*P0*·*L* + *k*·*D*: each claim leaves behind less than one unit that is not its
own (`DustLeft`), so a claimant gains less than a unit for each one before
(`DustPaid`). A step touches one vault, one receipt and the custody of one asset
(`OneVaultStep`), so each sum changes by one term.

**Sums.** `SumFunctionOnSet` is a fold, and what a fold computes is out of reach of
an induction theorem here. `SumTheorems` goes another way: if a statement about
subsets of a finite set fails for one, it fails for one of least cardinality
(`SmallestSubset`), and removing an element from that one gives a contradiction.
From it: the recursive function that the fold is defined by exists on all subsets
(`SumsExist`, `SumUnfolds`), and a sum without an element, with one value changed,
of a union, with a bound for each term, under a renaming of its indices
(`SumRemove`, `SumChange`, `SumOfUnion`, `SumLeq`, `SumReindexed`).

**The registry.** None of its properties is inductive alone. `StatusMatchesVault`
needs that a call which the registry allows finds the vault in the state it
expects; what a vote may add needs the ballots before it; that a vault is opened
once needs that ids are fresh. `RegistryInv` is `Books`, `AdminAgree` (both copies
of clock, governor and policies), `ProjectTypes`, `IdsFresh`, and for each project
`ProjectOK`: `Staged` (status, stage and milestones fit), `Backed` (the vault is
where the status says), `Apart` (roles and contributors are different wallets),
`Earned` (a paid milestone's counters and times satisfy the policy), `Eligible`
(voting power is the sum of the capped powers) and `Counted` (counters are the
ballots of this attempt). A call changes one project: there is a lemma for each
call, and one that puts it together with the untouched projects. What the
escrow proofs show holds for whatever the registry calls (`AnyCall` allows
everything), so the registry's proof inherits `Books` step by step.

**Only forward.** Every call about a project has one of eight shapes and leaves all
other projects alone (`EveryCallIsShaped`): only ballots, roles or the text of a
draft change (`Waits`), a decision moves the milestone on (`Decides`), the project is
opened, given to, begun, paid, called off with refunds or abandoned as a draft.
What moves uses up some of `MovesLeft`. Creating a project, claims and governance
touch no project that exists.

**The refinement.** `AgreementInv` adds `TermsKept` to `RegistryInv`: the plan in the
vault is the list of the project's milestone amounts and the goal their sum, so
paying the milestones in order pays the goal. Each shape is then one step of the
agreement or a stutter; a claim is a repayment, and that the last one leaves
nothing is the escrow's invariant.

**Level 3.** `GrantInv` holds per grant what status, stage and vault have to do with
each other, that a milestone's two weights add up to what its voters contributed,
and that a released milestone reached its thresholds; custody is a sum over grants
as above.

**The poll.** `SignalsInv` adds that nobody has voted before it is opened and
types of the counts; a vote adds one wallet to one option (`OneMore`), and
saturating addition follows the number it counts (`SaturatingAddCounts`).

**The tab, the network and the evidence service.** `ClientInv` relates five places that
hold something of one action or one upload. `OneActionPerLabel` is inductive with
types: a lock is taken in the step that enters (`LockTaken`) and given back in the one
that ends (`LockFreed`). `SentInv` follows the transaction: it is built for the
action's call (`Built`), reaches the pool only signed as its source and only once
(`Submitted`), and what has succeeded cannot be undone (`Lasting`): a vote is final, and
an attempt with evidence is closed, so no rework and no other device can make a
confirmation false afterwards (`WorldLasts`). `ShownOK` says what drawer, journey and
saved progress may show of it. `StoreInv` follows the file: of two deliveries of one PUT
at most one writes the temporary file, and if the other removes it, that one is past its
own rename (`OneWriter`); so what is renamed is whole and, once published, stays whole
(`GrowsOnly`); how far a handler has come says what is there (`Progressed`), and a page
that has its answer has a readable file (`UploadDone`). `AnchorsHeld` carries that along
the receipt, the call, the transaction and the registry's record: calls are neither made
up nor exchanged on the way (`CallsKept`). `OneWriter` is where two deliveries at most
are needed (`OneRival`); section 5 says what a third would do. What `AnchoredIsStored`
says of the media type is `Typed`: it is cut short only while a handler fills it, or if
some PUT was refused or cut off, which a crash does to every handler under way.

`PollImplementsSignals` is a refinement without a mapping: the poll behind the page keeps
the contract's variables, and each step of the whole is one of the poll or none.

**The indexer.** A telemetry request is answered when its save is done, while other saves
of older and newer states stand in the queue, so `AcknowledgedIsDurable` needs the whole
queue: `SavesInOrder` says that from the file over the saves in their order to memory
no state is older than the one before, and that a save that answers a request counts one
more than all before it. `FilesOK` adds that the main file is never torn and that the
backup is never the only one, so what `load` reads is always the last renamed state.

`FeedsInv` says what is in each copy of the state. `FeedOK` is the heart: the ids are in
chain order, so when the oldest are dropped the rest still reaches back `MAX_DEDUPE_IDS`
events, and an event that the node sends again is known (`SentAgainIsKnown`); the list
is in the opposite order, so a new event belongs at its head (`NewestIsPutFirst`);
nothing since `StartLedger` is left out. `HealthOK` says that `lastLedger` promises no more than the
cursor has passed, also when a page ends within a ledger (`ScannedIsRead`). Taking in a
page is a recursive function over its events; `PageInduction` replaces the induction: a
least event after which a feed is wrong would follow one after which it is right
(`LeastOf`). A restart takes a copy that was right when it was written.

`StreamInv` ties the page to the indexer's position: what the page has received together
with what is under way to it (`Heard`) has no hole from its first event up to the cursor
(`ReachesTo`), and what is under way arrives in order (`ComesInOrder`), so that none
of it is lost from the middle when the connection breaks. Three lemmas carry it: a page
of events streams just what follows on the cursor, since all that the node repeats is
known (`StreamedOfPage`); the list has no hole between its ends, so what lies before the named
event is all that follows it (`SentOnReturn`); and both may be put behind what is under way
(`Streams`). A page that returns to an indexer restarted from an older state is sent
nothing, and what it hears again later does it no harm (`ComesBack`).

**The page of a project.** For each call, the guard of the contract is compared with the
condition of its button: `EveryCallIsOffered` names the account and the label of each,
and `CallsElsewhere`, `OthersElsewhere` show that nothing but a call about the project
changes what the contracts keep of it. A call about a milestone needs one fact more: the
buttons that cite the evidence, and the one that ends the vote, are shown only while
there is evidence on file for the attempt. So `Filed` is proved inductive along with `RegistryInv` (`PageInv`): a
milestone that has been delivered and not yet decided has its evidence on file, as
rework and release take the evidence and the stage back in the same step.

**The Grants page.** Neither property is inductive: what the page shows comes from
reads, snapshots and replays that began earlier, so all that is on its way must be
right as well. `ViewsInv` says what each may hold. `ViewOK` is the heart: a
view is *borne out* by a grant of the chain if it has no more money, if the schedule is
known no later milestone, and no end but the grant's. A grant only moves on in that
order (`Grows`), so a view that was borne out when it was read still is when it
arrives (`ViewStays`). `Says` is what an event tells of a grant for good: a total that
has been reached, a milestone that has been passed, an end that has come. It is true
once the event is published (`ChainStepOK`) and stays so (`SaidInHistory`), so
applying it late, again or out of order keeps a view borne out (`AppliedOK`); votes are
added up and say nothing, which is why they may be counted twice (section 5). The feed,
and so all that is replayed over a snapshot, consists of events that the chain has
published (`Heard`), however it is sorted. For completeness, a scan that
is under way still has each grant up to the cap that existed when the discovery began among those found,
failed or still to do (`Discoveries`), through the probes, the batches and the early
abort; a result without failures is then complete (`ResultInv`), it is on the page when
it is merged, and no event, merge or hydration takes a grant off the page
(`ReduceKeeps`). A snapshot does replace the page, but the last result is merged into it.

Chain, replay and sorting are recursive functions over lists. That such a function exists
is `Iterates`, and what holds of it along the list is `CountingUp`: if a set of numbers
contains 0 and with each number the next, no least number is missing from it.

**Only model-checked.** `ClaimsAlwaysPayable`, `FullRefund`, `OnlyReworkVerdictStrands`
and `TimeoutAlwaysAvailable` speak of `ENABLED`; `EveryProjectSettles`,
`EventuallyIndexed` and `PollingConverges` of liveness: both are out of this prover's
reach. Every other property of a passing run is stated by a theorem.

## 5. Findings

- **A stranded dispute** (`registry_stranded`). `finalize_dispute` looks at the
  rework votes before the deadline, and on the last attempt `reset_for_rework`
  fails; so do `finalize_dispute` and `apply_timeout`, for ever, and refunds are
  never enabled. The docs say that every stage has a bounded deadline.
  `OnlyReworkVerdictStrands` and `EveryProjectSettles` show it is the only way.
- **A claim that overflows** (`escrow_overflow`). `contribution * remaining_pool`
  is formed in i128 before dividing; with two contributions of ten whole tokens
  of an asset of 18 decimals it overflows, and neither of the two can ever claim.
- **A refund that cannot be claimed** (`grant_refund`). Level 3 `contribute` looks
  neither at `refundable` nor at the registry's status: after a cancellation somebody
  pays in, claims, pays in again, and cannot claim the second payment.
- **Evidence without a media type** (`evidence_served`). `storeUpload` writes the media
  type in place, after the bytes are published. When the same bytes are PUT again it is
  emptied first; a crash before it is filled leaves it so, and `readEvidence` throws
  `stored_media_type_mismatch` for evidence that the registry names, until somebody uploads
  the same bytes once more. The architecture document says that evidence is served by
  its hash. The bytes, the metadata and the file itself are never lost (`AnchoredIsStored`).
- **A vote counted twice** (`grant_votes`). Discovery reads the latest ledger before
  the grants' state and stamps the state with it; a vote cast in between is in the
  state, and its event, newer than the stamp, adds it again. The comment on
  `alreadyMaterialized` says additive effects are not applied a second time. Polling
  corrects it at the next discovery (`PollingConverges`).

**A cap that code and comment disagree on**, in no run of its own. `src/config.ts:81-83` says
that the limits on discovery "only cap the fallback probe that runs when the allocator
cannot be read". `registry-discovery.ts:99` cuts the allocator's own range there as well, and
line 157 the ids the page knows, and a test (`registry-discovery.test.ts:153`, "caps allocator
enumeration at the configured maximum") asks for it. With more than
`MAX_DISCOVERABLE_GRANT_ID` (100) grants the list is called ready although a grant is
missing: nothing counts as failed, and if the events of that grant left the node's window and the
indexer is not there, polling never brings it. `GrantViews` has the cap as the code has
it. `ReadyMeansComplete` and `PollingConverges` are stated up to the cap: of every grant,
the first would be false in the very run that checks it (`PastTheCap`).
`NothingInvented` is about every grant.

Observed and left as hazards without a property: a governor can raise
`min_contribution` above what a funding project still lacks; for a tiny goal the
cap on voting power rounds to 0; a Level 3 grant without quorum waits for ever; a
page that reconnects after its last event was evicted misses what came between;
a receipt is set after its file was changed. Met while modelling, and in no run:
a third delivery of one PUT can rename the temporary file the second is still
writing; the balance of an account is shown after it is disconnected when it was
read before; the onboarding proof shows the account connected now, not the one
that signed; a vote's stages reach the drawer without their hash.

## 6. Plan

Done: the modules of section 2, in the order `PauseClock`, `ImpactEscrowV1`,
`ImpactRegistryV1`, `Signals`, the Level 3 contracts, `Indexer`, then
`FundingAgreement` with its refinement, `GrantViews`, `EvidenceStore`, `Ledger`,
`Mutations`, `Client`, `ProjectPage`; the theorems of section 4, which cover every invariant and
action property of the runs but those that speak of `ENABLED`. Open is what section 4
lists as only model-checked.

## 7. Not modelled

Getters, events and `touch_project` (it extends time to live only); archival of
entries (the host restores them); token contracts that charge a fee or refuse a
transfer (`deposit` compares balances and fails, which is a disabled action);
the i128 limits of the registry's basis-point products; hashes and metadata (members
of small sets); `payout`, `category` and titles beyond the checks made on them.
Of the indexer: the contract stream (the same code as the activity stream
without the resume), rate limits, schema versions of the state file. Of the evidence
service: the validation of requests, as the page sends only what it reserved. Of
the frontend: rendering, the forms that create projects and grants, the encoding
of arguments and decoding of results beyond the statuses, analytics, telemetry
and Friendbot; the four reads that make up a project are one step. Scripts and
deployment are offline tools without state.
