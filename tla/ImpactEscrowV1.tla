--------------------------- MODULE ImpactEscrowV1 ---------------------------
(***************************************************************************)
(* The V1 escrow contract: isolated project vaults, ordered milestone      *)
(* releases and pull-based pro-rata refunds.                               *)
(*                                                                         *)
(* Every method but claim_refund demands the registry's authorisation, so  *)
(* an action of this module is what the method does WHEN the registry      *)
(* calls it; Next lets the registry call anything at any time.  Contract   *)
(* calls are atomic and a failing call changes nothing, so a call that     *)
(* returns an error is an action that is not enabled.                      *)
(***************************************************************************)
EXTENDS Integers, Sequences, FiniteSets, Functions, PauseClock

CONSTANTS
  Projects,        \* project identifiers
  Contributors,    \* wallets that may contribute
  Assets,          \* Stellar asset contracts
  Accounts,        \* wallets that may hold the governor role
  InitGovernor,    \* the governor and the guardian given to initialize
  PauseGuardian,
  InitAsset,       \* the asset and the policy given to initialize
  InitPolicy,
  PolicyInputs,    \* asset policies a governor may submit
  GoalInputs,      \* goals and milestone amounts a registry may submit
  PlanInputs,
  CapInputs,       \* max_contribution_bps a registry may submit
  DeadlineInputs,  \* funding deadlines a registry may submit
  AmountInputs,    \* deposit amounts a contributor may submit
  MaxI128,         \* the largest i128
  MaxTime,         \* bound: the last ledger timestamp explored
  NoVault          \* an absent Vault entry

BPS_DENOMINATOR == 10000

AssetPolicy == [enabled_for_new_vaults : BOOLEAN,
                min_contribution       : Nat \ {0},
                max_goal               : Nat \ {0}]

\* The decimals of an asset, at most 18, are left out: no amount depends on them.
ValidAssetPolicy(policy) ==
  /\ policy.min_contribution > 0
  /\ policy.max_goal > 0
  /\ policy.min_contribution <= policy.max_goal

Vault == [asset                : Assets,
          goal                 : Nat \ {0},
          funding_deadline     : Int,
          milestone_amounts    : Seq(Int),
          max_contribution_bps : 1..BPS_DENOMINATOR,
          deposited            : Nat,
          released             : Nat,
          refunded_total       : Nat,
          remaining_pool       : Nat,
          remaining_shares     : Nat,
          contributor_count    : Nat,
          next_milestone       : Nat,
          funding_locked       : BOOLEAN,
          refundable           : BOOLEAN]

ASSUME EscrowAssumption ==
  /\ IsFiniteSet(Projects) /\ IsFiniteSet(Contributors)
  /\ InitAsset \in Assets
  /\ InitGovernor \in Accounts
  /\ None \notin Accounts
  /\ NoVault \notin Vault
  /\ InitPolicy \in AssetPolicy
  /\ ValidAssetPolicy(InitPolicy)
  /\ PolicyInputs \subseteq [enabled_for_new_vaults : BOOLEAN,
                             min_contribution : Int, max_goal : Int]
  /\ GoalInputs \subseteq Int
  /\ PlanInputs \subseteq Seq(Int)
  /\ CapInputs \subseteq Nat
  /\ DeadlineInputs \subseteq Int
  /\ AmountInputs \subseteq Int
  /\ MaxI128 \in Nat
  /\ MaxTime \in Nat

VARIABLES
  now,               \* the ledger timestamp
  escrow_clock,      \* pause_mode, total_paused_seconds, pause_started_at
  escrow_governor,   \* the escrow's governor and its proposed successor
  escrow_pending,
  asset_policy,      \* AssetPolicy(asset), None when absent
  vault,             \* Vault(project), NoVault when absent
  contribution,      \* Contribution(project, contributor), 0 when absent
  release_receipt,   \* ReleaseReceipt(project, milestone), 0 when absent
  refund_receipt,    \* RefundReceipt(project, contributor), None when absent
  custody            \* external: the escrow's balance of each asset

vault_vars  == <<vault, contribution, release_receipt, refund_receipt, custody>>
escrow_admin == <<escrow_clock, escrow_governor, escrow_pending, asset_policy>>
escrow_vars == <<now, escrow_admin, vault_vars>>

EscrowNow == Effective(escrow_clock, now)

SumSeq(s) == SumFunction(s)

ContributorCap(v) == (v.goal * v.max_contribution_bps) \div BPS_DENOMINATOR

-----------------------------------------------------------------------------

EscrowInit ==
  /\ now = 0
  /\ escrow_clock = RunningClock
  /\ escrow_governor = InitGovernor
  /\ escrow_pending = None
  /\ asset_policy = [a \in Assets |-> IF a = InitAsset THEN InitPolicy ELSE None]
  /\ vault = [p \in Projects |-> NoVault]
  /\ contribution = [p \in Projects |-> [c \in Contributors |-> 0]]
  /\ release_receipt = [p \in Projects |-> [m \in 0..4 |-> 0]]
  /\ refund_receipt = [p \in Projects |-> [c \in Contributors |-> None]]
  /\ custody = [a \in Assets |-> 0]

Tick ==
  /\ now < MaxTime
  /\ now' = now + 1
  /\ UNCHANGED <<escrow_admin, vault_vars>>

\* sync_asset_policy, and set_asset_policy, whose body is the same.
SyncAssetPolicy(asset, policy) ==
  /\ ValidAssetPolicy(policy)
  /\ asset_policy' = [asset_policy EXCEPT ![asset] = policy]
  /\ UNCHANGED <<now, escrow_clock, escrow_governor, escrow_pending, vault_vars>>

OpenVault(p, asset, goal, deadline, amounts, cap) ==
  LET policy == asset_policy[asset] IN
  /\ AcceptsNewActivity(escrow_clock)
  /\ goal > 0
  /\ deadline > EscrowNow
  /\ cap \in 1..BPS_DENOMINATOR
  /\ policy # None
  /\ policy.enabled_for_new_vaults
  /\ goal <= policy.max_goal
  /\ Len(amounts) \in 2..5
  /\ \A m \in 1..Len(amounts) : amounts[m] > 0
  /\ SumSeq(amounts) = goal
  /\ vault[p] = NoVault
  /\ vault' = [vault EXCEPT ![p] =
       [asset |-> asset, goal |-> goal, funding_deadline |-> deadline,
        milestone_amounts |-> amounts, max_contribution_bps |-> cap,
        deposited |-> 0, released |-> 0, refunded_total |-> 0,
        remaining_pool |-> 0, remaining_shares |-> 0,
        contributor_count |-> 0, next_milestone |-> 0,
        funding_locked |-> FALSE, refundable |-> FALSE]]
  /\ UNCHANGED <<now, escrow_admin, contribution, release_receipt,
                 refund_receipt, custody>>

FundingOpenByClockOnly(v) == EscrowNow < v.funding_deadline

FundingOpen(v) ==
  /\ ~v.funding_locked
  /\ ~v.refundable
  /\ EscrowNow < v.funding_deadline

AfterDepositCountingCalls(v, amount, previous) ==
  [v EXCEPT !.deposited = @ + amount, !.contributor_count = @ + 1]

AfterDeposit(v, amount, previous) ==
  [v EXCEPT !.deposited = @ + amount,
            !.contributor_count = IF previous = 0 THEN @ + 1 ELSE @]

\* The deposit call, leaving the vault record w.
DepositInto(p, c, amount, w) ==
  LET v     == vault[p]
      total == contribution[p][c] + amount
  IN
  /\ AcceptsNewActivity(escrow_clock)
  /\ amount > 0
  /\ v # NoVault
  /\ FundingOpen(v)
  /\ amount >= asset_policy[v.asset].min_contribution
  /\ v.goal * v.max_contribution_bps <= MaxI128
  /\ total <= ContributorCap(v)
  /\ v.deposited + amount <= v.goal
  /\ vault' = [vault EXCEPT ![p] = w]
  /\ contribution' = [contribution EXCEPT ![p][c] = total]
  /\ custody' = [custody EXCEPT ![v.asset] = @ + amount]
  /\ UNCHANGED <<now, escrow_admin, release_receipt, refund_receipt>>

Deposit(p, c, amount) ==
  DepositInto(p, c, amount, AfterDeposit(vault[p], amount, contribution[p][c]))

LockedClosingDeadline(v) ==
  [v EXCEPT !.funding_locked = TRUE, !.funding_deadline = EscrowNow]

Locked(v) == [v EXCEPT !.funding_locked = TRUE]

\* The two calls the registry makes in the transaction that reaches the goal.
DepositThenLock(p, c, amount) ==
  /\ vault[p] # NoVault
  /\ vault[p].deposited + amount = vault[p].goal
  /\ DepositInto(p, c, amount,
       Locked(AfterDeposit(vault[p], amount, contribution[p][c])))

LockFunding(p) ==
  LET v == vault[p] IN
  /\ AcceptsRiskyMutations(escrow_clock)
  /\ v # NoVault
  /\ ~v.refundable
  /\ ~v.funding_locked
  /\ v.deposited = v.goal
  /\ vault' = [vault EXCEPT ![p] = Locked(v)]
  /\ UNCHANGED <<now, escrow_admin, contribution, release_receipt,
                 refund_receipt, custody>>

AfterRelease(v, amount) ==
  [v EXCEPT !.released = @ + amount, !.next_milestone = @ + 1]

ReleaseMilestone(p, milestone, amount) ==
  LET v == vault[p] IN
  /\ AcceptsRiskyMutations(escrow_clock)
  /\ amount > 0
  /\ v # NoVault
  /\ v.funding_locked
  /\ ~v.refundable
  /\ milestone = v.next_milestone
  /\ milestone < Len(v.milestone_amounts)
  /\ release_receipt[p][milestone] = 0
  /\ amount = v.milestone_amounts[milestone + 1]
  /\ v.released + amount <= v.deposited
  /\ vault' = [vault EXCEPT ![p] = AfterRelease(v, amount)]
  /\ release_receipt' = [release_receipt EXCEPT ![p][milestone] = amount]
  /\ custody' = [custody EXCEPT ![v.asset] = @ - amount]
  /\ UNCHANGED <<now, escrow_admin, contribution, refund_receipt>>

WithRefundsOverRemainder(v) ==
  [v EXCEPT !.refundable = TRUE, !.funding_locked = TRUE,
            !.remaining_pool = v.deposited - v.released,
            !.remaining_shares = v.deposited - v.released]

WithRefunds(v) ==
  [v EXCEPT !.refundable = TRUE, !.funding_locked = TRUE,
            !.remaining_pool = v.deposited - v.released,
            !.remaining_shares = v.deposited]

EnableRefunds(p) ==
  /\ vault[p] # NoVault
  /\ ~vault[p].refundable
  /\ vault' = [vault EXCEPT ![p] = WithRefunds(vault[p])]
  /\ UNCHANGED <<now, escrow_admin, contribution, release_receipt,
                 refund_receipt, custody>>

RefundAmountIgnoringReleases(v, shares) == shares

RefundAmountOfAllDeposits(v, shares) ==
  (shares * v.remaining_pool) \div v.deposited

RefundAmountRoundedUp(v, shares) ==
  (shares * v.remaining_pool + v.remaining_shares - 1) \div v.remaining_shares

\* The share of the remaining pool owed for a contribution; the last claimant
\* takes what is left of the pool, rounding dust included.
RefundAmount(v, shares) ==
  IF shares = v.remaining_shares
  THEN v.remaining_pool
  ELSE (shares * v.remaining_pool) \div v.remaining_shares

RefundFitsUnlessPaused(v, shares) == AcceptsRiskyMutations(escrow_clock)

\* checked_mul: only the claims that divide can overflow.
RefundFits(v, shares) ==
  shares = v.remaining_shares \/ shares * v.remaining_pool <= MaxI128

AfterRefundNotCounted(v, shares, amount) ==
  [v EXCEPT !.remaining_shares = @ - shares, !.remaining_pool = @ - amount]

AfterRefund(v, shares, amount) ==
  [v EXCEPT !.remaining_shares = @ - shares,
            !.remaining_pool = @ - amount,
            !.refunded_total = @ + amount]

ClaimRefund(p, c) ==
  LET v      == vault[p]
      shares == contribution[p][c]
      amount == RefundAmount(v, shares)
  IN
  /\ v # NoVault
  /\ v.refundable
  /\ refund_receipt[p][c] = None
  /\ shares > 0
  /\ shares <= v.remaining_shares
  /\ RefundFits(v, shares)
  /\ vault' = [vault EXCEPT ![p] = AfterRefund(v, shares, amount)]
  /\ refund_receipt' = [refund_receipt EXCEPT ![p][c] = amount]
  /\ custody' = [custody EXCEPT ![v.asset] = @ - amount]
  /\ UNCHANGED <<now, escrow_admin, contribution, release_receipt>>

EscrowSetPauseMode(actor, mode) ==
  /\ MaySetMode(actor, escrow_governor, PauseGuardian, escrow_clock, mode)
  /\ escrow_clock' = SetMode(escrow_clock, mode, now)
  /\ UNCHANGED <<now, escrow_governor, escrow_pending, asset_policy, vault_vars>>

EscrowProposeGovernor(proposed) ==
  /\ escrow_pending' = proposed
  /\ UNCHANGED <<now, escrow_clock, escrow_governor, asset_policy, vault_vars>>

EscrowAcceptGovernor ==
  /\ escrow_pending # None
  /\ escrow_governor' = escrow_pending
  /\ escrow_pending' = None
  /\ UNCHANGED <<now, escrow_clock, asset_policy, vault_vars>>

-----------------------------------------------------------------------------

EscrowNext ==
  \/ Tick
  \/ \E a \in Assets, policy \in PolicyInputs : SyncAssetPolicy(a, policy)
  \/ \E p \in Projects, a \in Assets, goal \in GoalInputs, amounts \in PlanInputs,
        deadline \in DeadlineInputs, cap \in CapInputs :
        OpenVault(p, a, goal, deadline, amounts, cap)
  \/ \E p \in Projects, c \in Contributors, amount \in AmountInputs :
        Deposit(p, c, amount) \/ DepositThenLock(p, c, amount)
  \/ \E p \in Projects : LockFunding(p) \/ EnableRefunds(p)
  \/ \E p \in Projects, m \in 0..4, amount \in AmountInputs :
        ReleaseMilestone(p, m, amount)
  \/ \E p \in Projects, c \in Contributors : ClaimRefund(p, c)
  \/ \E actor \in Accounts \cup {PauseGuardian}, mode \in PauseModes :
        EscrowSetPauseMode(actor, mode)
  \/ \E proposed \in Accounts : EscrowProposeGovernor(proposed)
  \/ EscrowAcceptGovernor

EscrowSpec == EscrowInit /\ [][EscrowNext]_escrow_vars

-----------------------------------------------------------------------------

EscrowTypeOK ==
  /\ now \in 0..MaxTime
  /\ ClockOK(escrow_clock, now)
  /\ escrow_governor \in Accounts
  /\ escrow_pending \in Accounts \cup {None}
  /\ asset_policy \in [Assets -> AssetPolicy \cup {None}]
  /\ vault \in [Projects -> Vault \cup {NoVault}]
  /\ contribution \in [Projects -> [Contributors -> Nat]]
  /\ release_receipt \in [Projects -> [0..4 -> Nat]]
  /\ refund_receipt \in [Projects -> [Contributors -> Nat \cup {None}]]
  /\ custody \in [Assets -> Int]

Opened == {p \in Projects : vault[p] # NoVault}

Unclaimed(p) == {c \in Contributors : refund_receipt[p][c] = None}

(***************************************************************************)
(* Solvency.  The escrow holds, of every asset, exactly what the vaults of *)
(* that asset have taken in and not yet paid out: no vault is ever paid    *)
(* from another vault's money.                                             *)
(***************************************************************************)
Solvency ==
  \A a \in Assets :
    LET mine == {p \in Opened : vault[p].asset = a}
    IN  custody[a] = SumFunction([p \in mine |->
          vault[p].deposited - vault[p].released - vault[p].refunded_total])

(***************************************************************************)
(* The vault's running totals agree with its receipts: what was deposited  *)
(* is the sum of the contributions, what was released the sum of the       *)
(* release receipts, which exist for exactly the milestones already paid,  *)
(* and contributor_count counts each contributor once.                     *)
(***************************************************************************)
ReceiptsMatchTotals ==
  \A p \in Opened : LET v == vault[p] IN
    /\ v.deposited = SumFunction(contribution[p])
    /\ v.released = SumFunction(release_receipt[p])
    /\ \A m \in 0..4 : release_receipt[p][m] =
         IF m < v.next_milestone THEN v.milestone_amounts[m + 1] ELSE 0
    /\ v.contributor_count = Cardinality({c \in Contributors : contribution[p][c] > 0})

(***************************************************************************)
(* Once refunds are enabled the shares still outstanding are exactly those *)
(* of the contributors who have not claimed, and what has been paid out    *)
(* and what is left in the pool make up everything deposited.              *)
(***************************************************************************)
SharesOutstanding ==
  \A p \in Opened : LET v == vault[p] IN
    v.refundable =>
      /\ v.remaining_shares = SumFunctionOnSet(contribution[p], Unclaimed(p))
      /\ v.released + v.refunded_total + v.remaining_pool = v.deposited

(***************************************************************************)
(* A refundable vault never holds back money: when the last share has been *)
(* claimed the pool is empty, and the pool never exceeds the shares.       *)
(***************************************************************************)
PoolDrains ==
  \A p \in Opened : LET v == vault[p] IN
    v.refundable => /\ v.remaining_pool <= v.remaining_shares
                    /\ v.remaining_shares = 0 => v.remaining_pool = 0

\* The contributor has something to claim from a refundable vault.
IsOwed(p, c) ==
  /\ p \in Opened
  /\ vault[p].refundable
  /\ contribution[p][c] > 0
  /\ refund_receipt[p][c] = None

(***************************************************************************)
(* claim_refund never fails for a contributor with an unclaimed share,     *)
(* whatever the pause mode and whoever claimed before.                     *)
(***************************************************************************)
ClaimsAlwaysPayable ==
  \A p \in Projects, c \in Contributors : IsOwed(p, c) => ENABLED ClaimRefund(p, c)

(***************************************************************************)
(* Pro-rata refunds: whatever the order of the claims, a claimant gets at  *)
(* least the whole units of its share of the money that was left when      *)
(* refunds were enabled.                                                   *)
(***************************************************************************)
NeverUnderpaid ==
  \A p \in Opened, c \in Contributors :
    LET v == vault[p] IN
    refund_receipt[p][c] # None =>
      (refund_receipt[p][c] + 1) * v.deposited
        > contribution[p][c] * (v.deposited - v.released)

(***************************************************************************)
(* Rounding dust is all a late claimant can gain: a refund exceeds the     *)
(* exact share by less than one unit for each of the other contributors.   *)
(***************************************************************************)
DustBounded ==
  \A p \in Opened, c \in Contributors :
    LET v == vault[p] IN
    refund_receipt[p][c] # None =>
      refund_receipt[p][c] * v.deposited
        <= contribution[p][c] * (v.deposited - v.released)
             + (v.contributor_count - 1) * v.deposited

(***************************************************************************)
(* The effective clock never runs backwards, never outruns the ledger, and *)
(* stands still while the escrow is paused, however often and by whomever  *)
(* the mode is changed.                                                    *)
(***************************************************************************)
EffectiveClockSafe ==
  [][/\ EscrowNow' >= EscrowNow
     /\ EscrowNow' - EscrowNow <= now' - now
     /\ escrow_clock.pause_mode # "Running" => EscrowNow' = EscrowNow]_escrow_vars

\* What open_vault was given, and the contributors paid in for.
Terms(v) == <<v.asset, v.goal, v.funding_deadline, v.milestone_amounts,
              v.max_contribution_bps>>

(***************************************************************************)
(* What a step may never undo: a vault with the asset, goal, deadline,     *)
(* milestone amounts and cap it was opened with, a lock, a refundable      *)
(* flag, a receipt; nor may money move in after the lock, or move to the   *)
(* payout after refunds are enabled.                                       *)
(***************************************************************************)
VaultHistory ==
  [][\A p \in Opened : LET v == vault[p]  w == vault'[p] IN
       /\ w # NoVault
       /\ Terms(w) = Terms(v)
       /\ v.funding_locked => w.funding_locked /\ contribution'[p] = contribution[p]
       /\ v.refundable =>
            /\ w.refundable
            /\ w.released = v.released
            /\ w.deposited = v.deposited
            /\ w.refunded_total >= v.refunded_total
       /\ \A c \in Contributors :
            refund_receipt[p][c] # None => refund_receipt'[p][c] = refund_receipt[p][c]
       /\ \A m \in 0..4 :
            release_receipt[p][m] # 0 => release_receipt'[p][m] = release_receipt[p][m]]_escrow_vars
=============================================================================
