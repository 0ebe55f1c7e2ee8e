------------------------ MODULE ImpactEscrowV1_proofs ------------------------
(***************************************************************************)
(* The escrow's accounting, proved for every set of projects, wallets,     *)
(* assets, amounts and policies.  First vault by vault, then its books:    *)
(* what a vault says it holds is what its receipts add up to, what the     *)
(* contract holds is what its vaults add up to, and how much rounding can  *)
(* favour whoever claims last.                                             *)
(***************************************************************************)
EXTENDS ImpactEscrowV1, SumTheorems

-----------------------------------------------------------------------------
(* The pause clock: what set_pause_mode and the passing of ledger time do.  *)

\* initialize leaves a clock that is well formed at any ledger time.
LEMMA RunningClockOK == ASSUME NEW t \in Nat PROVE ClockOK(RunningClock, t)
BY NoneAssumption DEF ClockOK, RunningClock, Clock, PauseModes

\* A well-formed clock stays so while the ledger advances.
LEMMA TickClockOK ==
  ASSUME NEW clock, NEW t \in Nat, ClockOK(clock, t)
  PROVE  ClockOK(clock, t + 1)
BY NoneAssumption DEF ClockOK, Clock

\* set_pause_mode keeps the clock well formed, from any mode to any mode.
LEMMA SetModeClockOK ==
  ASSUME NEW clock, NEW t \in Nat, ClockOK(clock, t), NEW mode \in PauseModes
  PROVE  ClockOK(SetMode(clock, mode, t), t)
BY NoneAssumption DEF ClockOK, Clock, SetMode

\* The checked subtractions of effective_now never fail.
LEMMA EffectiveInNat ==
  ASSUME NEW clock, NEW t \in Nat, ClockOK(clock, t)
  PROVE  Effective(clock, t) \in Nat
BY NoneAssumption DEF ClockOK, Clock, Effective, Paused

\* Changing the pause mode never moves the effective clock: no transition,
\* escalation included, gives away or takes back a second of any window.
THEOREM SetModeKeepsTime ==
  ASSUME NEW clock, NEW t \in Nat, ClockOK(clock, t), NEW mode \in PauseModes
  PROVE  Effective(SetMode(clock, mode, t), t) = Effective(clock, t)
BY NoneAssumption DEF ClockOK, Clock, SetMode, Effective, Paused

\* Ledger time moves the effective clock exactly when the contract runs.
THEOREM TickMovesTime ==
  ASSUME NEW clock, NEW t \in Nat, ClockOK(clock, t)
  PROVE  Effective(clock, t + 1) =
           Effective(clock, t) + IF clock.pause_mode = "Running" THEN 1 ELSE 0
BY NoneAssumption DEF ClockOK, Clock, Effective, Paused

-----------------------------------------------------------------------------
(* Integers.                                                                *)

\* A quotient rounded down, against the exact fraction.
LEMMA Floor ==
  ASSUME NEW n \in Nat, NEW d \in Nat, d > 0
  PROVE  /\ n \div d \in Nat
         /\ (n \div d) * d <= n
         /\ ((n \div d) + 1) * d > n
OBVIOUS

\* A positive factor cancels out of an inequality.
LEMMA CancelLeq ==
  ASSUME NEW a \in Nat, NEW b \in Nat, NEW d \in Nat, d > 0, a * d <= b * d
  PROVE  a <= b
<1>1. ASSUME a > b PROVE FALSE
  <2>1. (a - b) * d > 0
    BY <1>1
  <2>2. (a - b) * d = a * d - b * d
    OBVIOUS
  <2>. QED BY <2>1, <2>2
<1>. QED BY <1>1

\* A floor share of a pool: it fits the pool, and what is left of the pool
\* is worth, per remaining share, no less than before.
LEMMA FloorShare ==
  ASSUME NEW shares \in Nat, NEW all \in Nat, NEW pool \in Nat,
         shares < all
  PROVE  LET amount == (shares * pool) \div all
         IN  /\ amount \in Nat
             /\ amount * all <= shares * pool
             /\ (amount + 1) * all > shares * pool
             /\ amount <= pool
             /\ pool <= all => amount <= shares
             /\ pool <= all => pool - amount <= all - shares
<1> DEFINE amount == (shares * pool) \div all
<1>1. shares * pool \in Nat /\ all > 0
  OBVIOUS
<1>2. /\ amount \in Nat
      /\ amount * all <= shares * pool
      /\ (amount + 1) * all > shares * pool
  BY <1>1, Floor
<1> HIDE DEF amount
<1>3. amount <= pool
  <2>1. shares * pool <= pool * all
    OBVIOUS
  <2>. QED BY <2>1, <1>1, <1>2, CancelLeq
<1>4. ASSUME pool <= all PROVE amount <= shares
  <2>1. shares * pool <= shares * all
    BY <1>4
  <2>. QED BY <2>1, <1>1, <1>2, CancelLeq
<1>5. ASSUME pool <= all PROVE pool - amount <= all - shares
  <2>1. (all - shares) * pool <= (all - shares) * all
    BY <1>5
  <2>2. (amount + 1) * all > shares * pool
    BY <1>2
  <2>3. (pool - amount - 1) * all < (all - shares) * pool
    BY <1>2
  <2>4. (pool - amount - 1) * all < (all - shares) * all
    BY <2>1, <2>3, <1>2
  <2>5. pool - amount - 1 < all - shares
    <3>1. ASSUME pool - amount - 1 >= all - shares PROVE FALSE
      <4>1. (pool - amount - 1) * all >= (all - shares) * all
        BY <3>1, <1>2
      <4>. QED BY <4>1, <2>4, <1>2
    <3>. QED BY <3>1, <1>2
  <2>. QED BY <2>5, <1>2
<1>. QED BY <1>2, <1>3, <1>4, <1>5 DEF amount

\* Multiplying an inequality by a natural number.
LEMMA ScaleLeq ==
  ASSUME NEW a \in Int, NEW b \in Int, NEW k \in Nat, a <= b
  PROVE  k * a <= k * b
<1>1. k * (b - a) >= 0
  OBVIOUS
<1>2. k * (b - a) = k * b - k * a
  OBVIOUS
<1>. QED BY <1>1, <1>2

\* Paying a floor share leaves the value per outstanding share no lower.
LEMMA ValueKept ==
  ASSUME NEW pool \in Nat, NEW all \in Nat, NEW left \in Nat, NEW deposited \in Nat,
         NEW shares \in Nat, NEW amount \in Nat,
         shares < all, amount <= pool,
         amount * all <= shares * pool,
         pool * deposited >= all * left
  PROVE  (pool - amount) * deposited >= (all - shares) * left
<1> DEFINE rest == pool - amount
           others == all - shares
<1>1. rest \in Nat /\ others \in Nat /\ all > 0
  OBVIOUS
<1>2. others * pool <= rest * all
  <2>1. others * pool = all * pool - shares * pool
    OBVIOUS
  <2>2. rest * all = pool * all - amount * all
    OBVIOUS
  <2>3. all * pool = pool * all
    OBVIOUS
  <2>. QED BY <2>1, <2>2, <2>3
<1> HIDE DEF rest, others
<1>3. deposited * (others * pool) <= deposited * (rest * all)
  BY <1>1, <1>2, ScaleLeq
<1>4. others * (all * left) <= others * (pool * deposited)
  BY <1>1, ScaleLeq
<1>5. (others * left) * all <= (rest * deposited) * all
  <2>1. (others * left) * all = others * (all * left)
    BY <1>1
  <2>2. others * (pool * deposited) = deposited * (others * pool)
    BY <1>1
  <2>3. deposited * (rest * all) = (rest * deposited) * all
    BY <1>1
  <2>. QED BY <1>1, <1>3, <1>4, <2>1, <2>2, <2>3
<1>6. others * left \in Nat /\ rest * deposited \in Nat
  BY <1>1
<1>7. others * left <= rest * deposited
  BY <1>1, <1>5, <1>6, CancelLeq
<1>. QED BY <1>7 DEF rest, others

\* A floor share of the remaining pool is never a whole unit short of the
\* same share of the pool that refunds started with.
LEMMA PaidEnough ==
  ASSUME NEW pool \in Nat, NEW all \in Nat, NEW left \in Nat, NEW deposited \in Nat,
         NEW shares \in Nat, NEW amount \in Nat,
         all > 0, deposited > 0,
         (amount + 1) * all > shares * pool,
         pool * deposited >= all * left
  PROVE  (amount + 1) * deposited > shares * left
<1> SUFFICES ASSUME (amount + 1) * deposited <= shares * left
             PROVE  FALSE
  OBVIOUS
<1>1. all * ((amount + 1) * deposited) <= all * (shares * left)
  BY ScaleLeq
<1>2. shares * (all * left) <= shares * (pool * deposited)
  BY ScaleLeq
<1>3. deposited * (shares * pool + 1) <= deposited * ((amount + 1) * all)
  BY ScaleLeq
<1>4. all * ((amount + 1) * deposited) = deposited * ((amount + 1) * all)
  OBVIOUS
<1>5. all * (shares * left) = shares * (all * left)
  OBVIOUS
<1>6. shares * (pool * deposited) = deposited * (shares * pool)
  OBVIOUS
<1>7. deposited * (shares * pool + 1) = deposited * (shares * pool) + deposited
  OBVIOUS
<1>. QED BY <1>1, <1>2, <1>3, <1>4, <1>5, <1>6, <1>7

-----------------------------------------------------------------------------
(***************************************************************************)
(* The inductive invariant.  VaultOK relates the totals of one vault;      *)
(* ValuePerShare is what makes refunds fair: what is left of the pool is   *)
(* worth, per outstanding share, at least what the whole pool was worth    *)
(* when refunds were enabled.                                              *)
(***************************************************************************)
ValuePerShare(v) ==
  v.remaining_pool * v.deposited >= v.remaining_shares * (v.deposited - v.released)

VaultOK(v) ==
  /\ v.released <= v.deposited
  /\ ~v.refundable => v.refunded_total = 0
  /\ v.refundable =>
       /\ v.funding_locked
       /\ v.released + v.refunded_total + v.remaining_pool = v.deposited
       /\ v.remaining_pool <= v.remaining_shares
       /\ v.remaining_shares <= v.deposited
       /\ v.remaining_shares = 0 => v.remaining_pool = 0
       /\ ValuePerShare(v)

ReceiptOK(v, shares, paid) ==
  paid # None =>
    /\ v # NoVault
    /\ v.refundable
    /\ (paid + 1) * v.deposited > shares * (v.deposited - v.released)

Accounting ==
  /\ \A p \in Opened : VaultOK(vault[p])
  /\ \A p \in Projects, c \in Contributors :
       ReceiptOK(vault[p], contribution[p][c], refund_receipt[p][c])

EscrowInv == EscrowTypeOK /\ Accounting

\* An opened vault is a Vault record.
LEMMA OpenedIsVault ==
  ASSUME EscrowTypeOK, NEW p \in Projects, vault[p] # NoVault
  PROVE  vault[p] \in Vault
BY DEF EscrowTypeOK

\* Enabling refunds puts the whole remainder into the pool.
LEMMA WithRefundsOK ==
  ASSUME NEW v \in Vault, VaultOK(v), ~v.refundable
  PROVE  WithRefunds(v) \in Vault /\ VaultOK(WithRefunds(v))
<1> DEFINE w == WithRefunds(v)
<1>0. v.deposited - v.released \in Nat /\ v.deposited \in Nat
  BY DEF Vault, VaultOK
<1>1. w \in Vault
  BY <1>0 DEF Vault, WithRefunds
<1>2. /\ w.deposited = v.deposited /\ w.released = v.released
      /\ w.refunded_total = v.refunded_total
      /\ w.remaining_pool = v.deposited - v.released
      /\ w.remaining_shares = v.deposited
      /\ w.refundable /\ w.funding_locked
  BY DEF Vault, WithRefunds
<1>3. ValuePerShare(w)
  <2>1. (v.deposited - v.released) * v.deposited >= v.deposited * (v.deposited - v.released)
    BY DEF Vault
  <2>. QED BY <2>1, <1>2 DEF ValuePerShare
<1>4. VaultOK(w)
  BY <1>2, <1>3 DEF VaultOK, Vault
<1>. QED BY <1>1, <1>4

\* A claim takes a share that fits the pool, leaves the value per share no
\* lower, and pays no less than the whole units of the exact share.
LEMMA AfterRefundOK ==
  ASSUME NEW v \in Vault, VaultOK(v), v.refundable,
         NEW shares \in Nat, shares > 0, shares <= v.remaining_shares
  PROVE  LET amount == RefundAmount(v, shares)
             w      == AfterRefund(v, shares, amount)
         IN  /\ amount \in Nat
             /\ w \in Vault
             /\ VaultOK(w)
             /\ (amount + 1) * v.deposited > shares * (v.deposited - v.released)
<1> DEFINE amount == RefundAmount(v, shares)
           w      == AfterRefund(v, shares, amount)
           pool   == v.remaining_pool
           all    == v.remaining_shares
           left   == v.deposited - v.released
<1>a. /\ v.remaining_pool \in Nat /\ v.remaining_shares \in Nat
      /\ v.deposited \in Nat /\ v.refunded_total \in Nat /\ v.released \in Nat
  BY DEF Vault
<1>b. /\ v.remaining_pool <= v.remaining_shares
      /\ v.remaining_shares <= v.deposited
      /\ v.released + v.refunded_total + v.remaining_pool = v.deposited
      /\ v.funding_locked
      /\ v.remaining_shares = 0 => v.remaining_pool = 0
  BY DEF VaultOK
<1>c. pool * v.deposited >= all * left
  BY DEF VaultOK, ValuePerShare
<1>1. /\ pool \in Nat /\ all \in Nat /\ left \in Nat /\ v.deposited \in Nat
      /\ v.refunded_total \in Nat /\ v.released \in Nat
      /\ pool <= all /\ pool * v.deposited >= all * left
      /\ v.released + v.refunded_total + pool = v.deposited
      /\ left = v.refunded_total + pool
      /\ all > 0 /\ shares <= all /\ all <= v.deposited
  BY <1>a, <1>b, <1>c
<1>2. /\ amount \in Nat
      /\ amount <= pool
      /\ pool - amount <= all - shares
      /\ shares = all => amount = pool
      /\ shares < all => /\ amount * all <= shares * pool
                        /\ (amount + 1) * all > shares * pool
  <2> HIDE DEF left
  <2>1. CASE shares = all
    <3>1. amount = pool
      BY <2>1 DEF RefundAmount
    <3> HIDE DEF amount, pool, all
    <3>. QED BY <3>1, <2>1, <1>1
  <2>2. CASE shares < all
    <3>1. amount = (shares * pool) \div all
      BY <2>2, <1>a DEF RefundAmount
    <3> HIDE DEF amount, pool, all
    <3>2. LET floor == (shares * pool) \div all
          IN  /\ floor \in Nat
              /\ floor * all <= shares * pool
              /\ (floor + 1) * all > shares * pool
              /\ floor <= pool
              /\ pool - floor <= all - shares
      BY <2>2, <1>1, FloorShare
    <3>3. shares # all
      BY <2>2, <1>1
    <3>. QED BY <3>1, <3>2, <3>3
  <2> HIDE DEF amount, pool, all
  <2>. QED BY <2>1, <2>2, <1>1
<1> HIDE DEF amount
<1>3. w \in Vault
  <2>1. /\ all - shares \in Nat
        /\ pool - amount \in Nat
        /\ v.refunded_total + amount \in Nat
    <3> HIDE DEF pool, all, left
    <3>. QED BY <1>1, <1>2
  <2>. QED BY <2>1 DEF Vault, AfterRefund
<1>4. /\ w.deposited = v.deposited /\ w.released = v.released
      /\ w.refunded_total = v.refunded_total + amount
      /\ w.remaining_pool = pool - amount
      /\ w.remaining_shares = all - shares
      /\ w.refundable /\ w.funding_locked
  BY <1>b DEF Vault, AfterRefund
<1>5. all - shares = 0 => pool - amount = 0
  BY <1>1, <1>2
<1> HIDE DEF w, pool, all, left
<1>6. (pool - amount) * v.deposited >= (all - shares) * left
  <2>1. CASE shares = all
    <3>1. pool - amount = 0 /\ all - shares = 0
      BY <2>1, <1>1, <1>2
    <3>. QED BY <3>1, <1>1
  <2>2. CASE shares < all
    BY <2>2, <1>1, <1>2, ValueKept
  <2>. QED BY <2>1, <2>2, <1>1
<1>7. (amount + 1) * v.deposited > shares * left
  <2>1. v.deposited > 0
    BY <1>1
  <2>2. (amount + 1) * all > shares * pool
    <3>1. CASE shares = all
      <4>1. amount = pool
        BY <3>1, <1>2
      <4>2. (amount + 1) * all = all * pool + all
        BY <4>1, <1>1
      <4>. QED BY <4>2, <3>1, <2>1, <1>1
    <3>2. CASE shares < all
      BY <3>2, <1>2
    <3>. QED BY <3>1, <3>2, <1>1
  <2>. QED BY <2>1, <2>2, <1>1, <1>2, PaidEnough
<1>8. VaultOK(w)
  BY <1>1, <1>2, <1>3, <1>4, <1>5, <1>6 DEF VaultOK, ValuePerShare, left, pool, all
<1>. QED BY <1>2, <1>3, <1>7, <1>8 DEF w, amount, left

-----------------------------------------------------------------------------
(***************************************************************************)
(* A call with any arguments of their types, not only those of the inputs: *)
(* what the lemmas show of it holds for every caller, the registry of      *)
(* ImpactRegistryV1 among them.                                            *)
(***************************************************************************)
AnyCall ==
  \/ Tick
  \/ \E a \in Assets, policy \in PolicyInputs : SyncAssetPolicy(a, policy)
  \/ \E p \in Projects, a \in Assets, goal \in Int, amounts \in Seq(Int),
        deadline \in Int, cap \in Nat : OpenVault(p, a, goal, deadline, amounts, cap)
  \/ \E p \in Projects, c \in Contributors, amount \in Int :
        Deposit(p, c, amount) \/ DepositThenLock(p, c, amount)
  \/ \E p \in Projects : LockFunding(p) \/ EnableRefunds(p)
  \/ \E p \in Projects, m \in 0..4, amount \in Int : ReleaseMilestone(p, m, amount)
  \/ \E p \in Projects, c \in Contributors : ClaimRefund(p, c)
  \/ \E actor \in Accounts \cup {PauseGuardian}, mode \in PauseModes :
        EscrowSetPauseMode(actor, mode)
  \/ \E proposed \in Accounts : EscrowProposeGovernor(proposed)
  \/ EscrowAcceptGovernor

\* The inputs of a specification are values of the types of the arguments.
LEMMA NextIsAnyCall == [EscrowNext]_escrow_vars => [AnyCall]_escrow_vars
<1>1. GoalInputs \subseteq Int /\ PlanInputs \subseteq Seq(Int) /\ DeadlineInputs \subseteq Int
  BY EscrowAssumption
<1>2. CapInputs \subseteq Nat /\ AmountInputs \subseteq Int
  BY EscrowAssumption
<1>3. QED
  BY <1>1, <1>2, Zenon DEF EscrowNext, AnyCall

\* initialize establishes the invariant.
LEMMA InitInv == EscrowInit => EscrowInv
<1> SUFFICES ASSUME EscrowInit PROVE EscrowInv
  OBVIOUS
<1> USE EscrowAssumption, NoneAssumption DEF EscrowInit
<1>1. ClockOK(escrow_clock, now)
  BY RunningClockOK
<1>2. EscrowTypeOK
  BY <1>1 DEF EscrowTypeOK
<1>3. Accounting
  BY DEF Accounting, Opened, ReceiptOK
<1>. QED BY <1>2, <1>3 DEF EscrowInv

\* A vault that is not yet refundable has no refund receipts.
LEMMA NoReceiptsYet ==
  ASSUME EscrowInv, NEW p \in Projects, NEW c \in Contributors,
         vault[p] = NoVault \/ ~vault[p].refundable
  PROVE  refund_receipt[p][c] = None
BY DEF EscrowInv, Accounting, ReceiptOK

\* A step that rewrites one vault that has paid no refund yet, and no receipt,
\* keeps the accounting.
LEMMA RewriteVault ==
  ASSUME EscrowInv, NEW p \in Projects, NEW w \in Vault, VaultOK(w),
         vault[p] = NoVault \/ ~vault[p].refundable,
         vault' = [vault EXCEPT ![p] = w],
         refund_receipt' = refund_receipt,
         \A q \in Projects \ {p} : contribution'[q] = contribution[q]
  PROVE  /\ vault' \in [Projects -> Vault \cup {NoVault}]
         /\ Accounting'
<1>1. vault \in [Projects -> Vault \cup {NoVault}]
  BY DEF EscrowInv, EscrowTypeOK
<1>2. /\ vault' \in [Projects -> Vault \cup {NoVault}]
      /\ vault'[p] = w
      /\ \A q \in Projects \ {p} : vault'[q] = vault[q]
  BY <1>1
<1>3. ASSUME NEW q \in Opened' PROVE VaultOK(vault[q])'
  <2>1. CASE q = p
    BY <2>1, <1>2 DEF VaultOK, ValuePerShare
  <2>2. CASE q # p
    <3>1. q \in Opened /\ vault'[q] = vault[q]
      BY <2>2, <1>2, <1>3 DEF Opened
    <3>2. VaultOK(vault[q])
      BY <3>1 DEF EscrowInv, Accounting
    <3>. QED BY <3>1, <3>2 DEF VaultOK, ValuePerShare
  <2>. QED BY <2>1, <2>2
<1>4. ASSUME NEW q \in Projects, NEW c \in Contributors
      PROVE  ReceiptOK(vault[q], contribution[q][c], refund_receipt[q][c])'
  <2>1. CASE q = p
    <3>1. refund_receipt[p][c] = None
      BY NoReceiptsYet
    <3>. QED BY <3>1, <2>1 DEF ReceiptOK
  <2>2. CASE q # p
    <3>1. ReceiptOK(vault[q], contribution[q][c], refund_receipt[q][c])
      BY DEF EscrowInv, Accounting
    <3>. QED BY <3>1, <2>2, <1>2 DEF ReceiptOK
  <2>. QED BY <2>1, <2>2
<1>. QED BY <1>2, <1>3, <1>4 DEF Accounting

\* A step that leaves vaults, contributions and refunds alone keeps the
\* accounting.
LEMMA KeepVaults ==
  ASSUME Accounting, UNCHANGED <<vault, contribution, refund_receipt>>
  PROVE  Accounting'
BY DEF Accounting, Opened, VaultOK, ValuePerShare, ReceiptOK

\* A lock changes nothing the accounting depends on.
LEMMA LockedOK ==
  ASSUME NEW v \in Vault, VaultOK(v), ~v.refundable
  PROVE  Locked(v) \in Vault /\ VaultOK(Locked(v))
BY DEF Locked, Vault, VaultOK

\* The vault record after a deposit that passed the deposit checks.
LEMMA AfterDepositOK ==
  ASSUME EscrowInv, NEW p \in Projects, NEW c \in Contributors,
         NEW amount \in Int, NEW x, DepositInto(p, c, amount, x)
  PROVE  LET w == AfterDeposit(vault[p], amount, contribution[p][c])
         IN  w \in Vault /\ VaultOK(w) /\ ~w.refundable
<1> DEFINE v == vault[p]
           w == AfterDeposit(v, amount, contribution[p][c])
<1>0. EscrowTypeOK /\ Accounting
  BY DEF EscrowInv
<1>1. v # NoVault /\ ~v.refundable /\ amount > 0 /\ amount \in Int
  BY EscrowAssumption DEF DepositInto, FundingOpen
<1>2. v \in Vault /\ VaultOK(v)
  BY <1>0, <1>1, OpenedIsVault DEF Accounting, Opened
<1>3. contribution[p][c] \in Nat
  BY <1>0 DEF EscrowTypeOK
<1>4. /\ v.deposited \in Nat /\ v.released \in Nat /\ v.contributor_count \in Nat
  BY <1>2 DEF Vault
<1>5. /\ v.deposited + amount \in Nat
      /\ (IF contribution[p][c] = 0 THEN v.contributor_count + 1
                                    ELSE v.contributor_count) \in Nat
  BY <1>1, <1>4
<1>6. w \in Vault
  BY <1>2, <1>5 DEF AfterDeposit, Vault
<1>7. /\ w.deposited = v.deposited + amount /\ w.released = v.released
      /\ w.refunded_total = v.refunded_total /\ w.refundable = v.refundable
  BY <1>2 DEF AfterDeposit, Vault
<1>8. VaultOK(w)
  BY <1>1, <1>2, <1>4, <1>7 DEF VaultOK
<1>. QED BY <1>1, <1>6, <1>7, <1>8

\* A deposit that leaves a well-formed vault keeps the invariant.
LEMMA DepositKeepsInv ==
  ASSUME EscrowInv, NEW p \in Projects, NEW c \in Contributors,
         NEW amount \in Int, NEW w \in Vault, VaultOK(w),
         DepositInto(p, c, amount, w)
  PROVE  EscrowInv'
<1> DEFINE v == vault[p]
<1>0. EscrowTypeOK /\ Accounting
  BY DEF EscrowInv
<1>1. v # NoVault /\ ~v.refundable /\ amount > 0 /\ amount \in Int
  BY EscrowAssumption DEF DepositInto, FundingOpen
<1>2. v.asset \in Assets
  BY <1>0, <1>1, OpenedIsVault DEF Vault
<1>3. contribution[p][c] \in Nat
  BY <1>0 DEF EscrowTypeOK
<1>4. /\ vault' = [vault EXCEPT ![p] = w]
      /\ refund_receipt' = refund_receipt
      /\ contribution' = [contribution EXCEPT ![p][c] = contribution[p][c] + amount]
      /\ custody' = [custody EXCEPT ![v.asset] = custody[v.asset] + amount]
  BY DEF DepositInto
<1>5. vault' \in [Projects -> Vault \cup {NoVault}] /\ Accounting'
  <2>1. \A q \in Projects \ {p} : contribution'[q] = contribution[q]
    BY <1>0, <1>4 DEF EscrowTypeOK
  <2>. QED BY <1>1, <1>4, <2>1, RewriteVault
<1>6. contribution' \in [Projects -> [Contributors -> Nat]]
  BY <1>0, <1>1, <1>3, <1>4 DEF EscrowTypeOK
<1>7. custody' \in [Assets -> Int]
  <2>1. custody[v.asset] + amount \in Int
    BY <1>0, <1>1, <1>2 DEF EscrowTypeOK
  <2> HIDE DEF v
  <2>. QED BY <1>0, <1>4, <2>1 DEF EscrowTypeOK
<1>8. EscrowTypeOK'
  BY <1>0, <1>5, <1>6, <1>7 DEF DepositInto, EscrowTypeOK, escrow_admin
<1>. QED BY <1>5, <1>8 DEF EscrowInv

\* Every call the registry, a contributor or the ledger can make keeps the
\* invariant.
LEMMA NextInv == EscrowInv /\ [AnyCall]_escrow_vars => EscrowInv'
<1> SUFFICES ASSUME EscrowInv, [AnyCall]_escrow_vars PROVE EscrowInv'
  OBVIOUS
<1> USE EscrowAssumption, NoneAssumption
<1>0. EscrowTypeOK /\ Accounting /\ now \in Nat /\ ClockOK(escrow_clock, now)
  BY DEF EscrowInv, EscrowTypeOK
<1>1. CASE Tick
  <2>1. now' = now + 1 /\ now < MaxTime /\ escrow_clock' = escrow_clock
    BY <1>1 DEF Tick, escrow_admin
  <2>2. ClockOK(escrow_clock, now)'
    BY <1>0, <2>1, TickClockOK
  <2>3. EscrowTypeOK'
    BY <1>0, <1>1, <2>2 DEF Tick, EscrowTypeOK, escrow_admin, vault_vars
  <2>4. Accounting'
    BY <1>0, <1>1, KeepVaults DEF Tick, vault_vars
  <2>. QED BY <2>3, <2>4 DEF EscrowInv
<1>2. ASSUME NEW a \in Assets, NEW policy \in PolicyInputs, SyncAssetPolicy(a, policy)
      PROVE  EscrowInv'
  <2>1. policy \in AssetPolicy
    BY <1>2 DEF SyncAssetPolicy, ValidAssetPolicy, AssetPolicy
  <2>2. EscrowTypeOK'
    BY <1>0, <1>2, <2>1 DEF SyncAssetPolicy, EscrowTypeOK, vault_vars
  <2>3. Accounting'
    BY <1>0, <1>2, KeepVaults DEF SyncAssetPolicy, vault_vars
  <2>. QED BY <2>2, <2>3 DEF EscrowInv
<1>3. ASSUME NEW p \in Projects, NEW a \in Assets, NEW goal \in Int,
             NEW amounts \in Seq(Int), NEW deadline \in Int,
             NEW cap \in Nat, OpenVault(p, a, goal, deadline, amounts, cap)
      PROVE  EscrowInv'
  <2> DEFINE w == vault'[p]
  <2>1. /\ vault[p] = NoVault
        /\ vault' = [vault EXCEPT ![p] = w]
        /\ w = [asset |-> a, goal |-> goal, funding_deadline |-> deadline,
                milestone_amounts |-> amounts, max_contribution_bps |-> cap,
                deposited |-> 0, released |-> 0, refunded_total |-> 0,
                remaining_pool |-> 0, remaining_shares |-> 0,
                contributor_count |-> 0, next_milestone |-> 0,
                funding_locked |-> FALSE, refundable |-> FALSE]
    BY <1>0, <1>3 DEF OpenVault, EscrowTypeOK
  <2>2. w \in Vault /\ VaultOK(w)
    <3>1. goal \in Nat \ {0} /\ cap \in 1..BPS_DENOMINATOR
      <4>1. goal \in Int /\ goal > 0
        BY <1>3 DEF OpenVault
      <4>2. cap \in 1..BPS_DENOMINATOR
        BY <1>3 DEF OpenVault
      <4>. QED BY <4>1, <4>2
    <3>2. deadline \in Int /\ amounts \in Seq(Int)
      OBVIOUS
    <3>3. w \in Vault
      BY <2>1, <3>1, <3>2 DEF Vault
    <3>4. VaultOK(w)
      BY <2>1 DEF VaultOK
    <3>. QED BY <3>3, <3>4
  <2> HIDE DEF w
  <2>3. vault' \in [Projects -> Vault \cup {NoVault}] /\ Accounting'
    BY <1>3, <2>1, <2>2, RewriteVault DEF OpenVault
  <2>4. EscrowTypeOK'
    BY <1>0, <1>3, <2>3 DEF OpenVault, EscrowTypeOK, escrow_admin
  <2>. QED BY <2>3, <2>4 DEF EscrowInv
<1>4. ASSUME NEW p \in Projects, NEW c \in Contributors, NEW amount \in Int,
             Deposit(p, c, amount)
      PROVE  EscrowInv'
  <2> DEFINE w == AfterDeposit(vault[p], amount, contribution[p][c])
  <2>1. DepositInto(p, c, amount, w)
    BY <1>4 DEF Deposit
  <2>2. w \in Vault /\ VaultOK(w)
    BY <2>1, AfterDepositOK
  <2> HIDE DEF w
  <2>. QED BY <2>1, <2>2, DepositKeepsInv
<1>13. ASSUME NEW p \in Projects, NEW c \in Contributors, NEW amount \in Int,
              DepositThenLock(p, c, amount)
       PROVE  EscrowInv'
  <2> DEFINE u == AfterDeposit(vault[p], amount, contribution[p][c])
             w == Locked(u)
  <2>1. DepositInto(p, c, amount, w)
    BY <1>13 DEF DepositThenLock
  <2>2. u \in Vault /\ VaultOK(u) /\ ~u.refundable
    BY <2>1, AfterDepositOK
  <2> HIDE DEF u
  <2>3. w \in Vault /\ VaultOK(w)
    BY <2>2, LockedOK
  <2> HIDE DEF w
  <2>. QED BY <2>1, <2>3, DepositKeepsInv
<1>5. ASSUME NEW p \in Projects, LockFunding(p) PROVE EscrowInv'
  <2> DEFINE w == Locked(vault[p])
  <2>1. vault[p] \in Vault /\ VaultOK(vault[p]) /\ ~vault[p].refundable
    BY <1>0, <1>5, OpenedIsVault DEF LockFunding, Accounting, Opened
  <2>2. w \in Vault /\ VaultOK(w)
    BY <2>1, LockedOK
  <2>3. vault' = [vault EXCEPT ![p] = w]
    BY <1>5 DEF LockFunding
  <2> HIDE DEF w
  <2>4. vault' \in [Projects -> Vault \cup {NoVault}] /\ Accounting'
    BY <1>5, <2>1, <2>2, <2>3, RewriteVault DEF LockFunding
  <2>5. EscrowTypeOK'
    BY <1>0, <1>5, <2>4 DEF LockFunding, EscrowTypeOK, escrow_admin
  <2>. QED BY <2>4, <2>5 DEF EscrowInv
<1>6. ASSUME NEW p \in Projects, EnableRefunds(p) PROVE EscrowInv'
  <2> DEFINE w == WithRefunds(vault[p])
  <2>1. vault[p] \in Vault /\ VaultOK(vault[p]) /\ ~vault[p].refundable
    BY <1>0, <1>6, OpenedIsVault DEF EnableRefunds, Accounting, Opened
  <2>2. w \in Vault /\ VaultOK(w)
    BY <2>1, WithRefundsOK
  <2>3. vault' = [vault EXCEPT ![p] = w]
    BY <1>6 DEF EnableRefunds
  <2> HIDE DEF w
  <2>4. vault' \in [Projects -> Vault \cup {NoVault}] /\ Accounting'
    BY <1>6, <2>1, <2>2, <2>3, RewriteVault DEF EnableRefunds
  <2>5. EscrowTypeOK'
    BY <1>0, <1>6, <2>4 DEF EnableRefunds, EscrowTypeOK, escrow_admin
  <2>. QED BY <2>4, <2>5 DEF EscrowInv
<1>7. ASSUME NEW p \in Projects, NEW m \in 0..4, NEW amount \in Int,
             ReleaseMilestone(p, m, amount)
      PROVE  EscrowInv'
  <2> DEFINE v == vault[p]
             w == AfterRelease(v, amount)
  <2>1. /\ v \in Vault /\ VaultOK(v) /\ ~v.refundable
        /\ amount \in Nat /\ v.released + amount <= v.deposited
    BY <1>0, <1>7, OpenedIsVault DEF ReleaseMilestone, Accounting, Opened
  <2>a. /\ v.asset \in Assets /\ v.deposited \in Nat /\ v.released \in Nat
        /\ v.next_milestone \in Nat
    BY <2>1 DEF Vault
  <2>2. w \in Vault /\ VaultOK(w)
    <3>0. v.released + amount \in Nat /\ v.next_milestone + 1 \in Nat
      BY <2>1, <2>a
    <3>1. w \in Vault
      BY <2>1, <3>0 DEF AfterRelease, Vault
    <3>2. /\ w.deposited = v.deposited /\ w.released = v.released + amount
          /\ w.refunded_total = v.refunded_total /\ w.refundable = v.refundable
      BY <2>1 DEF AfterRelease, Vault
    <3>3. VaultOK(w)
      BY <2>1, <2>a, <3>2 DEF VaultOK
    <3>. QED BY <3>1, <3>3
  <2>3. /\ vault' = [vault EXCEPT ![p] = w]
        /\ release_receipt' = [release_receipt EXCEPT ![p][m] = amount]
        /\ custody' = [custody EXCEPT ![v.asset] = custody[v.asset] - amount]
        /\ UNCHANGED <<contribution, refund_receipt>>
    BY <1>7 DEF ReleaseMilestone
  <2>4. vault' \in [Projects -> Vault \cup {NoVault}] /\ Accounting'
    <3> HIDE DEF w
    <3>. QED BY <2>1, <2>2, <2>3, RewriteVault
  <2>5. release_receipt' \in [Projects -> [0..4 -> Nat]]
    BY <1>0, <2>1, <2>3 DEF EscrowTypeOK
  <2>6. custody' \in [Assets -> Int]
    <3>1. custody[v.asset] - amount \in Int
      BY <1>0, <2>1, <2>a DEF EscrowTypeOK
    <3> HIDE DEF v
    <3>. QED BY <1>0, <2>3, <3>1 DEF EscrowTypeOK
  <2>7. EscrowTypeOK'
    BY <1>0, <1>7, <2>4, <2>5, <2>6 DEF ReleaseMilestone, EscrowTypeOK, escrow_admin
  <2>. QED BY <2>4, <2>7 DEF EscrowInv
<1>8. ASSUME NEW p \in Projects, NEW c \in Contributors, ClaimRefund(p, c)
      PROVE  EscrowInv'
  <2> DEFINE v      == vault[p]
             shares == contribution[p][c]
             amount == RefundAmount(v, shares)
             w      == AfterRefund(v, shares, amount)
  <2>1. /\ v \in Vault /\ VaultOK(v) /\ v.refundable
        /\ shares \in Nat /\ shares > 0 /\ shares <= v.remaining_shares
    BY <1>0, <1>8, OpenedIsVault DEF ClaimRefund, EscrowTypeOK, Accounting, Opened
  <2>2. /\ amount \in Nat /\ w \in Vault /\ VaultOK(w)
        /\ (amount + 1) * v.deposited > shares * (v.deposited - v.released)
    BY <2>1, AfterRefundOK
  <2>3. /\ vault' = [vault EXCEPT ![p] = w]
        /\ refund_receipt' = [refund_receipt EXCEPT ![p][c] = amount]
        /\ custody' = [custody EXCEPT ![v.asset] = custody[v.asset] - amount]
        /\ UNCHANGED contribution
    BY <1>8 DEF ClaimRefund
  <2>4. /\ w.deposited = v.deposited /\ w.released = v.released
        /\ w.refundable = v.refundable /\ w # NoVault
    BY <2>1, <2>2 DEF AfterRefund, Vault
  <2> HIDE DEF amount, w
  <2>5. /\ vault' \in [Projects -> Vault \cup {NoVault}]
        /\ vault'[p] = w
        /\ \A q \in Projects \ {p} : vault'[q] = vault[q]
    BY <1>0, <2>2, <2>3 DEF EscrowTypeOK
  <2>6. ASSUME NEW q \in Opened' PROVE VaultOK(vault[q])'
    <3>1. CASE q = p
      BY <3>1, <2>2, <2>5 DEF VaultOK, ValuePerShare
    <3>2. CASE q # p
      BY <3>2, <1>0, <2>5, <2>6 DEF Accounting, Opened, VaultOK, ValuePerShare
    <3>. QED BY <3>1, <3>2
  <2>7. ASSUME NEW q \in Projects, NEW d \in Contributors
        PROVE  ReceiptOK(vault[q], contribution[q][d], refund_receipt[q][d])'
    <3>1. ReceiptOK(vault[q], contribution[q][d], refund_receipt[q][d])
      BY <1>0 DEF Accounting
    <3>2. CASE q = p /\ d = c
      <4>1. refund_receipt'[q][d] = amount
        BY <3>2, <1>0, <2>3 DEF EscrowTypeOK
      <4>. QED BY <4>1, <3>2, <2>1, <2>2, <2>3, <2>4, <2>5 DEF ReceiptOK
    <3>3. CASE ~(q = p /\ d = c)
      <4>1. refund_receipt'[q][d] = refund_receipt[q][d]
        BY <3>3, <1>0, <2>3 DEF EscrowTypeOK
      <4>. QED BY <4>1, <3>1, <2>1, <2>3, <2>4, <2>5 DEF ReceiptOK
    <3>. QED BY <3>2, <3>3
  <2>8. refund_receipt' \in [Projects -> [Contributors -> Nat \cup {None}]]
    BY <1>0, <2>2, <2>3 DEF EscrowTypeOK
  <2>9. custody' \in [Assets -> Int]
    <3>1. v.asset \in Assets
      BY <2>1 DEF Vault
    <3> HIDE DEF v
    <3>. QED BY <1>0, <2>2, <2>3, <3>1 DEF EscrowTypeOK
  <2>10. EscrowTypeOK'
    BY <1>0, <1>8, <2>5, <2>8, <2>9 DEF ClaimRefund, EscrowTypeOK, escrow_admin
  <2>. QED BY <2>6, <2>7, <2>10 DEF EscrowInv, Accounting
<1>9. ASSUME NEW actor \in Accounts \cup {PauseGuardian}, NEW mode \in PauseModes,
             EscrowSetPauseMode(actor, mode)
      PROVE  EscrowInv'
  <2>1. ClockOK(escrow_clock, now)'
    BY <1>0, <1>9, SetModeClockOK DEF EscrowSetPauseMode
  <2>2. EscrowTypeOK'
    BY <1>0, <1>9, <2>1 DEF EscrowSetPauseMode, EscrowTypeOK, vault_vars
  <2>3. Accounting'
    BY <1>0, <1>9, KeepVaults DEF EscrowSetPauseMode, vault_vars
  <2>. QED BY <2>2, <2>3 DEF EscrowInv
<1>10. ASSUME NEW proposed \in Accounts, EscrowProposeGovernor(proposed)
       PROVE  EscrowInv'
  <2>1. EscrowTypeOK'
    BY <1>0, <1>10 DEF EscrowProposeGovernor, EscrowTypeOK, vault_vars
  <2>2. Accounting'
    BY <1>0, <1>10, KeepVaults DEF EscrowProposeGovernor, vault_vars
  <2>. QED BY <2>1, <2>2 DEF EscrowInv
<1>11. CASE EscrowAcceptGovernor
  <2>1. EscrowTypeOK'
    BY <1>0, <1>11 DEF EscrowAcceptGovernor, EscrowTypeOK, vault_vars
  <2>2. Accounting'
    BY <1>0, <1>11, KeepVaults DEF EscrowAcceptGovernor, vault_vars
  <2>. QED BY <2>1, <2>2 DEF EscrowInv
<1>12. CASE UNCHANGED escrow_vars
  <2>1. EscrowTypeOK'
    BY <1>0, <1>12 DEF escrow_vars, escrow_admin, vault_vars, EscrowTypeOK
  <2>2. Accounting'
    BY <1>0, <1>12, KeepVaults DEF escrow_vars, vault_vars
  <2>. QED BY <2>1, <2>2 DEF EscrowInv
<1>. QED
  BY <1>1, <1>2, <1>3, <1>4, <1>13, <1>5, <1>6, <1>7, <1>8, <1>9, <1>10, <1>11, <1>12
  DEF AnyCall

\* The accounting of single vaults holds in every reachable state.
LEMMA Invariance == EscrowSpec => []EscrowInv
BY InitInv, NextInv, NextIsAnyCall, PTL DEF EscrowSpec

(***************************************************************************)
(* Type correctness of every reachable state, for every value of the       *)
(* constants: no vault total ever leaves the natural numbers.              *)
(***************************************************************************)
THEOREM TypeCorrect == EscrowSpec => []EscrowTypeOK
<1>1. EscrowInv => EscrowTypeOK
  BY DEF EscrowInv
<1>. QED BY <1>1, Invariance, PTL

(***************************************************************************)
(* A refundable vault pays out its whole pool and nothing is stranded:     *)
(* the pool never exceeds the outstanding shares and is empty with them.   *)
(***************************************************************************)
THEOREM PoolAlwaysDrains == EscrowSpec => []PoolDrains
<1>1. EscrowInv => PoolDrains
  BY DEF EscrowInv, Accounting, VaultOK, PoolDrains
<1>. QED BY <1>1, Invariance, PTL

(***************************************************************************)
(* No claimant is ever a whole unit short of its exact pro-rata share,     *)
(* whatever the amounts, the number of contributors and the claim order.   *)
(***************************************************************************)
THEOREM RefundsNeverUnderpay == EscrowSpec => []NeverUnderpaid
<1>1. EscrowInv => NeverUnderpaid
  BY DEF EscrowInv, Accounting, ReceiptOK, NeverUnderpaid, Opened
<1>. QED BY <1>1, Invariance, PTL

\* What a step may do to effective time.
ClockStep ==
  /\ EscrowNow' >= EscrowNow
  /\ EscrowNow' - EscrowNow <= now' - now
  /\ escrow_clock.pause_mode # "Running" => EscrowNow' = EscrowNow

\* Only the ledger moves effective time, and only while nothing is paused.
LEMMA CallsKeepTime == EscrowInv /\ [AnyCall]_escrow_vars => ClockStep
<1> SUFFICES ASSUME EscrowInv, [AnyCall]_escrow_vars PROVE ClockStep
  OBVIOUS
<1>0. /\ now \in Nat /\ ClockOK(escrow_clock, now)
      /\ EscrowNow \in Nat
  BY EscrowAssumption, EffectiveInNat DEF EscrowInv, EscrowTypeOK, EscrowNow
<1>1. CASE Tick
  <2>1. now' = now + 1 /\ escrow_clock' = escrow_clock
    BY <1>1 DEF Tick, escrow_admin
  <2>2. EscrowNow' = EscrowNow + IF escrow_clock.pause_mode = "Running" THEN 1 ELSE 0
    BY <2>1, <1>0, TickMovesTime DEF EscrowNow
  <2>. QED BY <2>1, <2>2, <1>0 DEF ClockStep
<1>2. ASSUME NEW actor, NEW mode \in PauseModes, EscrowSetPauseMode(actor, mode)
      PROVE  ClockStep
  <2>1. now' = now /\ escrow_clock' = SetMode(escrow_clock, mode, now)
    BY <1>2 DEF EscrowSetPauseMode
  <2>2. EscrowNow' = EscrowNow
    BY <2>1, <1>0, SetModeKeepsTime DEF EscrowNow
  <2>. QED BY <2>1, <2>2, <1>0 DEF ClockStep
<1>3. CASE UNCHANGED <<now, escrow_clock>>
  <2>1. EscrowNow' = EscrowNow /\ now' = now
    BY <1>3 DEF EscrowNow, Effective, Paused
  <2>. QED BY <2>1, <1>0 DEF ClockStep
<1>4. \/ Tick
      \/ \E actor \in Accounts \cup {PauseGuardian}, mode \in PauseModes :
           EscrowSetPauseMode(actor, mode)
      \/ UNCHANGED <<now, escrow_clock>>
  <2>1. ASSUME NEW p, NEW c, NEW amount, NEW w, DepositInto(p, c, amount, w)
        PROVE  UNCHANGED <<now, escrow_clock>>
    BY <2>1 DEF DepositInto, escrow_admin
  <2>2. ASSUME NEW p, NEW c, NEW amount,
               Deposit(p, c, amount) \/ DepositThenLock(p, c, amount)
        PROVE  UNCHANGED <<now, escrow_clock>>
    BY <2>1, <2>2 DEF Deposit, DepositThenLock
  <2>3. ASSUME NEW p, LockFunding(p) \/ EnableRefunds(p)
        PROVE  UNCHANGED <<now, escrow_clock>>
    BY <2>3 DEF LockFunding, EnableRefunds, escrow_admin
  <2>4. ASSUME NEW p, NEW m, NEW amount, ReleaseMilestone(p, m, amount)
        PROVE  UNCHANGED <<now, escrow_clock>>
    BY <2>4 DEF ReleaseMilestone, escrow_admin
  <2>5. ASSUME NEW p, NEW c, ClaimRefund(p, c)
        PROVE  UNCHANGED <<now, escrow_clock>>
    BY <2>5 DEF ClaimRefund, escrow_admin
  <2>6. ASSUME NEW p, NEW a, NEW goal, NEW amounts, NEW deadline, NEW cap,
               OpenVault(p, a, goal, deadline, amounts, cap)
        PROVE  UNCHANGED <<now, escrow_clock>>
    BY <2>6 DEF OpenVault, escrow_admin
  <2>7. ASSUME NEW a, NEW policy, SyncAssetPolicy(a, policy)
        PROVE  UNCHANGED <<now, escrow_clock>>
    BY <2>7 DEF SyncAssetPolicy
  <2>8. ASSUME NEW proposed, EscrowProposeGovernor(proposed)
        PROVE  UNCHANGED <<now, escrow_clock>>
    BY <2>8 DEF EscrowProposeGovernor
  <2>9. CASE EscrowAcceptGovernor
    BY <2>9 DEF EscrowAcceptGovernor
  <2>10. CASE UNCHANGED escrow_vars
    BY <2>10 DEF escrow_vars, escrow_admin
  <2>. QED
    BY <2>2, <2>3, <2>4, <2>5, <2>6, <2>7, <2>8, <2>9, <2>10 DEF AnyCall
<1>. QED BY <1>1, <1>2, <1>3, <1>4

(***************************************************************************)
(* The effective clock is monotone, never outruns the ledger, and stands   *)
(* still during a pause.                                                   *)
(***************************************************************************)
THEOREM EffectiveClockIsSafe == EscrowSpec => EffectiveClockSafe
<1>1. EscrowInv /\ [EscrowNext]_escrow_vars => [ClockStep]_escrow_vars
  BY CallsKeepTime, NextIsAnyCall
<1>2. EffectiveClockSafe <=> [][ClockStep]_escrow_vars
  BY DEF EffectiveClockSafe, ClockStep
<1>. QED BY <1>1, <1>2, Invariance, PTL DEF EscrowSpec

-----------------------------------------------------------------------------
(* The books.                                                              *)

Givers(given)  == {c \in Contributors : given[c] > 0}
Open(back)     == {c \in Contributors : back[c] = None}
Claimants(back) == {c \in Contributors : back[c] # None}

\* What was deposited is what the contributors gave.
DepositsOK(v, given) ==
  /\ v.deposited = SumFunctionOnSet(given, Contributors)
  /\ v.contributor_count = Cardinality(Givers(given))

\* What was released is the plan's milestones, in their order.
ReleasesOK(v, paid) ==
  /\ Len(v.milestone_amounts) \in 2..5
  /\ \A m \in 1..Len(v.milestone_amounts) : v.milestone_amounts[m] > 0
  /\ v.next_milestone <= Len(v.milestone_amounts)
  /\ v.released = SumFunctionOnSet(paid, 0..4)
  /\ \A m \in 0..4 : paid[m] =
       IF m < v.next_milestone THEN v.milestone_amounts[m + 1] ELSE 0

(***************************************************************************)
(* What is still to be refunded belongs to those who have not claimed, and *)
(* the pool is worth, per share, no more than when refunds were enabled,   *)
(* but for less than one unit of dust for every claim made.                *)
(***************************************************************************)
RefundsOK(v, given, back) ==
  LET left   == v.deposited - v.released
      claims == Cardinality(Claimants(back))
  IN
  v.refundable =>
    /\ v.remaining_shares = SumFunctionOnSet(given, Open(back))
    /\ v.remaining_pool * v.deposited <= v.remaining_shares * left + claims * v.deposited
    /\ \A c \in Claimants(back) :
         /\ given[c] > 0
         /\ back[c] * v.deposited
              <= given[c] * left + (v.contributor_count - 1) * v.deposited

BooksOK(p) ==
  IF vault[p] = NoVault
  THEN /\ contribution[p] = [c \in Contributors |-> 0]
       /\ release_receipt[p] = [m \in 0..4 |-> 0]
  ELSE /\ DepositsOK(vault[p], contribution[p])
       /\ ReleasesOK(vault[p], release_receipt[p])
       /\ RefundsOK(vault[p], contribution[p], refund_receipt[p])

\* What a vault has taken in and not yet paid out.
StillHeld(p) == vault[p].deposited - vault[p].released - vault[p].refunded_total

Holdings(a) ==
  [p \in Projects |-> IF vault[p] # NoVault /\ vault[p].asset = a THEN StillHeld(p) ELSE 0]

CustodyOK == \A a \in Assets : custody[a] = SumFunctionOnSet(Holdings(a), Projects)

\* The inductive invariant, on top of the accounting of single vaults.
Books ==
  /\ EscrowInv
  /\ \A p \in Projects : BooksOK(p)
  /\ CustodyOK

-----------------------------------------------------------------------------
(* Arithmetic of rounding down.                                             *)

\* A floor share leaves in the pool less than one unit more than its share.
LEMMA DustLeft ==
  ASSUME NEW pool \in Nat, NEW all \in Nat, NEW left \in Nat, NEW deposited \in Nat,
         NEW shares \in Nat, NEW amount \in Nat, NEW claims \in Nat,
         shares < all, amount <= pool,
         (amount + 1) * all > shares * pool,
         pool * deposited <= all * left + claims * deposited
  PROVE  (pool - amount) * deposited <= (all - shares) * left + (claims + 1) * deposited
<1> DEFINE rest == pool - amount
           others == all - shares
           dust == claims * deposited
<1>1. rest \in Nat /\ others \in Nat /\ all > 0 /\ others <= all /\ dust \in Nat
  OBVIOUS
<1>2. rest * all <= others * pool + all
  <2>1. others * pool = all * pool - shares * pool
    OBVIOUS
  <2>2. rest * all = pool * all - amount * all
    OBVIOUS
  <2>3. (amount + 1) * all = amount * all + all /\ all * pool = pool * all
    OBVIOUS
  <2>. QED BY <2>1, <2>2, <2>3
<1>3. (claims + 1) * deposited = dust + deposited
  OBVIOUS
<1> HIDE DEF rest, others, dust
<1>4. deposited * (rest * all) <= deposited * (others * pool + all)
  BY <1>1, <1>2, ScaleLeq
<1>5. others * (pool * deposited) <= others * (all * left + dust)
  BY <1>1, ScaleLeq DEF dust
<1>6. dust * others <= dust * all
  BY <1>1, ScaleLeq
<1>7. (rest * deposited) * all <= (others * left + (dust + deposited)) * all
  <2>1. (rest * deposited) * all = deposited * (rest * all)
    BY <1>1
  <2>2. deposited * (others * pool + all) = others * (pool * deposited) + deposited * all
    BY <1>1
  <2>3. others * (all * left + dust) = (others * left) * all + dust * others
    BY <1>1
  <2>4. (others * left + (dust + deposited)) * all
          = (others * left) * all + (dust * all + deposited * all)
    BY <1>1
  <2> DEFINE A == (rest * deposited) * all
             B == others * (pool * deposited)
             C == (others * left) * all
             D == deposited * all
  <2>5. A \in Int /\ B \in Int /\ C \in Int /\ D \in Int
        /\ dust * others \in Int /\ dust * all \in Int
    BY <1>1
  <2>6. A <= B + D /\ B <= C + dust * others
    BY <1>4, <1>5, <2>1, <2>2, <2>3
  <2> HIDE DEF A, B, C, D
  <2>7. A <= C + (dust * all + D)
    BY <1>6, <2>5, <2>6
  <2>. QED BY <2>4, <2>7 DEF A, C, D
<1>8. rest * deposited \in Nat /\ others * left + (dust + deposited) \in Nat
  BY <1>1
<1>9. rest * deposited <= others * left + (dust + deposited)
  BY <1>1, <1>7, <1>8, CancelLeq
<1>. QED BY <1>3, <1>9 DEF rest, others

\* A floor share exceeds its share of the initial pool by the dust so far.
LEMMA DustPaid ==
  ASSUME NEW pool \in Nat, NEW all \in Nat, NEW left \in Nat, NEW deposited \in Nat,
         NEW shares \in Nat, NEW amount \in Nat, NEW claims \in Nat,
         all > 0, shares <= all,
         amount * all <= shares * pool,
         pool * deposited <= all * left + claims * deposited
  PROVE  amount * deposited <= shares * left + claims * deposited
<1> DEFINE dust == claims * deposited
<1>1. dust \in Nat
  OBVIOUS
<1> HIDE DEF dust
<1>2. deposited * (amount * all) <= deposited * (shares * pool)
  BY ScaleLeq
<1>3. shares * (pool * deposited) <= shares * (all * left + dust)
  BY <1>1, ScaleLeq DEF dust
<1>4. dust * shares <= dust * all
  BY <1>1, ScaleLeq
<1>5. (amount * deposited) * all <= (shares * left + dust) * all
  <2>1. (amount * deposited) * all = deposited * (amount * all)
    OBVIOUS
  <2>2. deposited * (shares * pool) = shares * (pool * deposited)
    OBVIOUS
  <2>3. shares * (all * left + dust) = (shares * left) * all + dust * shares
    BY <1>1
  <2>4. (shares * left + dust) * all = (shares * left) * all + dust * all
    BY <1>1
  <2> DEFINE A == (amount * deposited) * all
             B == shares * (pool * deposited)
             C == (shares * left) * all
  <2>5. A \in Int /\ B \in Int /\ C \in Int /\ dust * shares \in Int /\ dust * all \in Int
    BY <1>1
  <2>6. A <= B /\ B <= C + dust * shares
    BY <1>2, <1>3, <2>1, <2>2, <2>3
  <2> HIDE DEF A, B, C
  <2>7. A <= C + dust * all
    BY <1>4, <2>5, <2>6
  <2>. QED BY <2>4, <2>7 DEF A, C
<1>6. amount * deposited \in Nat /\ shares * left + dust \in Nat
  BY <1>1
<1>7. amount * deposited <= shares * left + dust
  BY <1>5, <1>6, CancelLeq
<1>. QED BY <1>7 DEF dust

-----------------------------------------------------------------------------
(* Steps of one vault.                                                      *)

\* What the books say of an opened vault.
LEMMA OfOpenVault ==
  ASSUME Books, NEW p \in Projects, vault[p] # NoVault
  PROVE  /\ EscrowTypeOK
         /\ vault[p] \in Vault /\ VaultOK(vault[p])
         /\ contribution[p] \in [Contributors -> Nat]
         /\ release_receipt[p] \in [0..4 -> Nat]
         /\ refund_receipt[p] \in [Contributors -> Nat \cup {None}]
         /\ DepositsOK(vault[p], contribution[p])
         /\ ReleasesOK(vault[p], release_receipt[p])
         /\ RefundsOK(vault[p], contribution[p], refund_receipt[p])
BY DEF Books, BooksOK, EscrowInv, EscrowTypeOK, Accounting, Opened

\* What the vaults hold in one asset, vault by vault, are integers.
LEMMA HoldingsAreNumbers ==
  ASSUME EscrowTypeOK, NEW a \in Assets
  PROVE  Holdings(a) \in [Projects -> Int]
<1>1. ASSUME NEW p \in Projects, vault[p] # NoVault PROVE StillHeld(p) \in Int
  <2>1. vault[p] \in Vault
    BY <1>1 DEF EscrowTypeOK
  <2>2. QED
    BY <2>1 DEF StillHeld, Vault
<1>2. QED
  BY <1>1 DEF Holdings

HeldIn(p) == IF vault[p] = NoVault THEN 0 ELSE StillHeld(p)

\* What a vault holds and the balance of its asset change by the same amount.
Moves(p, d) ==
  /\ vault'[p] # NoVault
  /\ vault[p] # NoVault => vault'[p].asset = vault[p].asset
  /\ HeldIn(p)' = HeldIn(p) + d
  /\ custody' = [custody EXCEPT ![vault'[p].asset] = @ + d]

\* One vault p changes and its books stay right, and money moves for it alone.
LEMMA OneVaultStep ==
  ASSUME Books, EscrowInv', NEW p \in Projects, BooksOK(p)',
         \A q \in Projects \ {p} :
           /\ vault'[q] = vault[q] /\ contribution'[q] = contribution[q]
           /\ release_receipt'[q] = release_receipt[q]
           /\ refund_receipt'[q] = refund_receipt[q],
         NEW d \in Int, Moves(p, d)
  PROVE  Books'
<1>1. \A q \in Projects \ {p} : BooksOK(q)'
  BY DEF Books, BooksOK
<1>2. /\ vault'[p].asset \in Assets /\ EscrowTypeOK /\ EscrowTypeOK'
      /\ custody \in [Assets -> Int]
  BY DEF Books, EscrowInv, EscrowTypeOK, Vault, Moves
<1>3. ASSUME NEW a \in Assets
      PROVE  custody'[a] = SumFunctionOnSet(Holdings(a)', Projects)
  <2> DEFINE old == Holdings(a)
             new == Holdings(a)'
             e   == IF vault'[p].asset = a THEN d ELSE 0
  <2>1. custody[a] = SumFunctionOnSet(old, Projects)
    BY DEF Books, CustodyOK
  <2>2. \A q \in Projects \ {p} : new[q] = old[q]
    BY DEF Holdings, StillHeld
  <2>3. old \in [Projects -> Int]
    BY <1>2, HoldingsAreNumbers
  <2>4. new[p] = old[p] + e
    <3>1. old[p] = IF vault'[p].asset = a THEN HeldIn(p) ELSE 0
      BY DEF Holdings, Moves, HeldIn
    <3>2. new[p] = IF vault'[p].asset = a THEN HeldIn(p)' ELSE 0
      BY DEF Holdings, Moves, HeldIn
    <3>3. QED
      BY <2>3, <3>1, <3>2 DEF Moves
  <2>5. custody'[a] = custody[a] + e
    BY <1>2 DEF Moves
  <2>6. e \in Int
    OBVIOUS
  <2> HIDE DEF old, new, e
  <2>7. new[p] \in Int /\ old[p] \in Int
    BY <2>3, <2>4, <2>6
  <2>8. SumFunctionOnSet(new, Projects) = SumFunctionOnSet(old, Projects) + (new[p] - old[p])
    BY <2>2, <2>3, <2>7, SumChange, EscrowAssumption
  <2>9. QED
    BY <1>2, <2>1, <2>4, <2>5, <2>6, <2>7, <2>8 DEF new
<1>4. QED
  BY <1>1, <1>3 DEF Books, CustodyOK

\* No vault and no balance changes.
LEMMA QuietStep ==
  ASSUME Books, EscrowInv', UNCHANGED vault_vars
  PROVE  Books'
<1>1. \A p \in Projects : BooksOK(p)'
  BY DEF Books, BooksOK, vault_vars
<1>2. \A a \in Assets : Holdings(a)' = Holdings(a)
  BY DEF Holdings, StillHeld, vault_vars
<1>3. QED
  BY <1>1, <1>2 DEF Books, CustodyOK, vault_vars

\* A step that moves no money.
LEMMA NoPayment ==
  ASSUME Books, NEW p \in Projects, vault[p] # NoVault, vault'[p] # NoVault,
         custody' = custody, vault'[p].asset = vault[p].asset,
         vault'[p].deposited = vault[p].deposited, vault'[p].released = vault[p].released,
         vault'[p].refunded_total = vault[p].refunded_total
  PROVE  Moves(p, 0)
<1>0. vault[p] \in Vault /\ custody \in [Assets -> Int]
  BY OfOpenVault DEF EscrowTypeOK
<1>1. vault[p].asset \in Assets /\ StillHeld(p) \in Int /\ custody \in [Assets -> Int]
  BY <1>0 DEF Vault, StillHeld
<1>2. StillHeld(p)' = StillHeld(p)
  BY DEF StillHeld
<1>3. QED
  BY <1>1, <1>2 DEF Moves, HeldIn

\* A plan has at most five milestones.
LEMMA MilestonesFinite == IsFiniteSet(0..4)
<1>1. 0 \in Int /\ 4 \in Int
  OBVIOUS
<1>2. QED
  BY <1>1, FS_Interval

\* A new vault is empty.
LEMMA OpenVaultBooks ==
  ASSUME Books, EscrowInv', NEW p \in Projects, NEW a \in Assets, NEW goal \in Int,
         NEW amounts \in Seq(Int), NEW deadline \in Int, NEW cap \in Nat,
         OpenVault(p, a, goal, deadline, amounts, cap)
  PROVE  Books'
<1> DEFINE w     == vault'[p]
           given == contribution[p]
           paid  == release_receipt[p]
<1>1. /\ Len(amounts) \in 2..5
      /\ \A m \in 1..Len(amounts) : amounts[m] > 0
      /\ vault[p] = NoVault
      /\ \A q \in Projects \ {p} : vault'[q] = vault[q]
      /\ UNCHANGED <<contribution, release_receipt, refund_receipt, custody>>
      /\ given = [c \in Contributors |-> 0]
      /\ paid = [m \in 0..4 |-> 0]
      /\ custody \in [Assets -> Int]
  BY DEF OpenVault, Books, BooksOK, EscrowInv, EscrowTypeOK
<1>2. /\ w.asset = a /\ w.milestone_amounts = amounts /\ w.deposited = 0 /\ w.released = 0
      /\ w.refunded_total = 0 /\ w.contributor_count = 0 /\ w.next_milestone = 0
      /\ w.refundable = FALSE
  BY DEF OpenVault, Books, EscrowInv, EscrowTypeOK
<1>3. w # NoVault
  <2>1. w = [asset |-> a, goal |-> goal, funding_deadline |-> deadline,
             milestone_amounts |-> amounts, max_contribution_bps |-> cap,
             deposited |-> 0, released |-> 0, refunded_total |-> 0,
             remaining_pool |-> 0, remaining_shares |-> 0,
             contributor_count |-> 0, next_milestone |-> 0,
             funding_locked |-> FALSE, refundable |-> FALSE]
    BY DEF OpenVault, Books, EscrowInv, EscrowTypeOK
  <2>2. goal \in Nat \ {0} /\ cap \in 1..BPS_DENOMINATOR
    <3>1. goal \in Int /\ goal > 0 /\ cap \in 1..BPS_DENOMINATOR
      BY EscrowAssumption DEF OpenVault
    <3>2. QED
      BY <3>1
  <2>3. deadline \in Int /\ amounts \in Seq(Int)
    BY EscrowAssumption
  <2> HIDE DEF w
  <2>4. w \in Vault
    BY <2>1, <2>2, <2>3 DEF Vault
  <2>5. QED
    BY <2>4, EscrowAssumption
<1> HIDE DEF w, given, paid
<1>4. DepositsOK(w, given)
  <2>1. SumFunctionOnSet(given, Contributors) = 0
    BY <1>1, SumOfZeros, EscrowAssumption
  <2>2. Givers(given) = {}
    BY <1>1 DEF Givers
  <2>3. QED
    BY <1>2, <2>1, <2>2, FS_EmptySet DEF DepositsOK
<1>5. ReleasesOK(w, paid)
  <2>1. IsFiniteSet(0..4)
    BY MilestonesFinite
  <2>2. SumFunctionOnSet(paid, 0..4) = 0
    BY <1>1, <2>1, SumOfZeros
  <2>3. QED
    BY <1>1, <1>2, <2>2 DEF ReleasesOK
<1>6. RefundsOK(w, given, refund_receipt'[p])
  BY <1>2 DEF RefundsOK
<1>7. BooksOK(p)'
  BY <1>1, <1>3, <1>4, <1>5, <1>6 DEF BooksOK, w, given, paid
<1>8. Moves(p, 0)
  <2>1. HeldIn(p)' = 0 /\ HeldIn(p) = 0
    BY <1>1, <1>2, <1>3 DEF HeldIn, StillHeld, w
  <2>2. custody' = [custody EXCEPT ![w.asset] = @ + 0]
    BY <1>1, <1>2
  <2>3. HeldIn(p)' = HeldIn(p) + 0
    BY <2>1
  <2>4. vault[p] # NoVault => vault'[p].asset = vault[p].asset
    BY <1>1
  <2>5. QED
    BY <1>3, <2>2, <2>3, <2>4 DEF Moves, w
<1>9. QED
  BY <1>1, <1>7, <1>8, OneVaultStep

\* A deposit, whether or not it also locks the vault, is one contributor's.
LEMMA DepositBooks ==
  ASSUME Books, EscrowInv', NEW p \in Projects, NEW c \in Contributors,
         NEW amount \in Int, NEW x, DepositInto(p, c, amount, x),
         x = AfterDeposit(vault[p], amount, contribution[p][c])
           \/ x = Locked(AfterDeposit(vault[p], amount, contribution[p][c]))
  PROVE  Books'
<1> DEFINE v        == vault[p]
           w        == vault'[p]
           given    == contribution[p]
           more     == contribution'[p]
           previous == given[c]
<1>1. /\ v # NoVault /\ ~v.refundable /\ amount > 0 /\ amount \in Int
      /\ vault' = [vault EXCEPT ![p] = x]
      /\ contribution' = [contribution EXCEPT ![p][c] = previous + amount]
      /\ custody' = [custody EXCEPT ![v.asset] = @ + amount]
      /\ UNCHANGED <<release_receipt, refund_receipt>>
  BY EscrowAssumption DEF DepositInto, FundingOpen
<1>2. /\ EscrowTypeOK /\ v \in Vault /\ given \in [Contributors -> Nat]
      /\ DepositsOK(v, given) /\ ReleasesOK(v, release_receipt[p])
  BY <1>1, OfOpenVault
<1>3. w = x /\ more = [given EXCEPT ![c] = previous + amount]
  BY <1>1, <1>2 DEF EscrowTypeOK
<1>4. amount \in Nat /\ previous \in Nat
  BY <1>1, <1>2
<1>5. w \in Vault /\ w # NoVault
  <2>1. /\ AfterDeposit(v, amount, previous) \in Vault
        /\ VaultOK(AfterDeposit(v, amount, previous))
        /\ ~AfterDeposit(v, amount, previous).refundable
    BY AfterDepositOK DEF Books
  <2> DEFINE u == AfterDeposit(v, amount, previous)
  <2> HIDE DEF u
  <2>2. u \in Vault /\ Locked(u) \in Vault
    BY <2>1, LockedOK DEF u
  <2>3. QED
    BY <1>3, <2>2, EscrowAssumption DEF u
<1> HIDE DEF v, w, given, more, previous
<1>6. /\ w.deposited = v.deposited + amount
      /\ w.contributor_count = IF previous = 0 THEN v.contributor_count + 1
                                               ELSE v.contributor_count
      /\ w.released = v.released /\ w.milestone_amounts = v.milestone_amounts
      /\ w.next_milestone = v.next_milestone /\ w.asset = v.asset
      /\ w.refunded_total = v.refunded_total /\ w.refundable = v.refundable
  BY <1>2, <1>3 DEF AfterDeposit, Locked, Vault, v, previous, given
<1>7. /\ more \in [Contributors -> Nat] /\ more[c] = given[c] + amount
      /\ \A d \in Contributors \ {c} : more[d] = given[d]
  BY <1>2, <1>3, <1>4 DEF previous
<1>8. DepositsOK(w, more)
  <2>1. SumFunctionOnSet(more, Contributors) = SumFunctionOnSet(given, Contributors) + amount
    <3>0. \A d \in Contributors : given[d] \in Int /\ more[d] \in Int
      BY <1>2, <1>7
    <3>5. IsFiniteSet(Contributors) /\ given[c] \in Int /\ more[c] \in Int
      BY <3>0, EscrowAssumption
    <3>6. \A d \in Contributors \ {c} : given[d] \in Int /\ more[d] = given[d]
      BY <1>7, <3>0
    <3>1. SumFunctionOnSet(more, Contributors)
            = SumFunctionOnSet(given, Contributors) + (more[c] - given[c])
      BY <3>5, <3>6, SumChange
    <3>2. SumFunctionOnSet(given, Contributors) \in Int
      BY <1>2, SumInt, EscrowAssumption
    <3>3. QED
      BY <1>4, <1>7, <3>1, <3>2 DEF previous
  <2>2. Givers(more) = Givers(given) \cup {c} /\ (c \in Givers(given) <=> previous # 0)
    BY <1>1, <1>2, <1>4, <1>7 DEF Givers, previous
  <2> DEFINE old == Givers(given)
  <2>3. IsFiniteSet(old)
    BY FS_Subset, EscrowAssumption DEF Givers
  <2> HIDE DEF old
  <2>4. Cardinality(old \cup {c}) = IF c \in old THEN Cardinality(old) ELSE Cardinality(old) + 1
    BY <2>3, FS_AddElement
  <2>5. QED
    BY <1>2, <1>6, <2>1, <2>2, <2>4 DEF DepositsOK, old
<1>9. ReleasesOK(w, release_receipt[p])
  BY <1>2, <1>6 DEF ReleasesOK
<1>10. RefundsOK(w, more, refund_receipt[p])
  BY <1>1, <1>6 DEF RefundsOK, v
<1>11. BooksOK(p)'
  BY <1>1, <1>5, <1>8, <1>9, <1>10 DEF BooksOK, w, more
<1>12. Moves(p, amount)
  <2>1. v.deposited \in Nat /\ v.released \in Nat /\ v.refunded_total \in Nat
    BY <1>2 DEF Vault
  <2>2. StillHeld(p)' = StillHeld(p) + amount
    BY <1>4, <1>6, <2>1 DEF StillHeld, v, w
  <2>3. HeldIn(p) = StillHeld(p) /\ HeldIn(p)' = StillHeld(p)'
    BY <1>1, <1>5 DEF HeldIn, v, w
  <2>4. QED
    BY <1>1, <1>5, <1>6, <2>2, <2>3 DEF Moves, v, w
<1>13. \A q \in Projects \ {p} :
         /\ vault'[q] = vault[q] /\ contribution'[q] = contribution[q]
         /\ release_receipt'[q] = release_receipt[q]
         /\ refund_receipt'[q] = refund_receipt[q]
  BY <1>1, <1>2 DEF EscrowTypeOK
<1>14. QED
  BY <1>1, <1>11, <1>12, <1>13, OneVaultStep

\* A lock touches no amount.
LEMMA LockFundingBooks ==
  ASSUME Books, EscrowInv', NEW p \in Projects, LockFunding(p)
  PROVE  Books'
<1> DEFINE v == vault[p]
           w == vault'[p]
<1>1. /\ v # NoVault
      /\ vault' = [vault EXCEPT ![p] = Locked(v)]
      /\ UNCHANGED <<contribution, release_receipt, refund_receipt, custody>>
  BY DEF LockFunding
<1>2. /\ EscrowTypeOK /\ v \in Vault /\ VaultOK(v) /\ ~v.refundable
      /\ DepositsOK(v, contribution[p]) /\ ReleasesOK(v, release_receipt[p])
  BY <1>1, OfOpenVault DEF LockFunding
<1>3. w = Locked(v) /\ w \in Vault
  BY <1>1, <1>2, LockedOK DEF EscrowTypeOK
<1> HIDE DEF v, w
<1>4. /\ w.deposited = v.deposited /\ w.contributor_count = v.contributor_count
      /\ w.released = v.released /\ w.milestone_amounts = v.milestone_amounts
      /\ w.next_milestone = v.next_milestone /\ w.asset = v.asset
      /\ w.refunded_total = v.refunded_total /\ w.refundable = v.refundable
  BY <1>2, <1>3 DEF Locked, Vault
<1>5. /\ DepositsOK(w, contribution[p]) /\ ReleasesOK(w, release_receipt[p])
      /\ RefundsOK(w, contribution[p], refund_receipt[p])
  BY <1>2, <1>4 DEF DepositsOK, ReleasesOK, RefundsOK
<1>6. w # NoVault
  BY <1>3, EscrowAssumption
<1>7. BooksOK(p)'
  BY <1>1, <1>5, <1>6 DEF BooksOK, w
<1>8. Moves(p, 0)
  BY <1>1, <1>4, <1>6, NoPayment DEF v, w
<1>9. \A q \in Projects \ {p} :
         /\ vault'[q] = vault[q] /\ contribution'[q] = contribution[q]
         /\ release_receipt'[q] = release_receipt[q]
         /\ refund_receipt'[q] = refund_receipt[q]
  BY <1>1, <1>2 DEF EscrowTypeOK
<1>10. QED
  BY <1>7, <1>8, <1>9, OneVaultStep

\* A release is the next milestone of the plan, once.
LEMMA ReleaseBooks ==
  ASSUME Books, EscrowInv', NEW p \in Projects, NEW m \in 0..4, NEW amount \in Int,
         ReleaseMilestone(p, m, amount)
  PROVE  Books'
<1> DEFINE v    == vault[p]
           w    == vault'[p]
           paid == release_receipt[p]
           more == release_receipt'[p]
           plan == v.milestone_amounts
<1>1. /\ v # NoVault /\ ~v.refundable /\ amount > 0
      /\ m = v.next_milestone /\ m < Len(plan) /\ paid[m] = 0
      /\ amount = plan[m + 1]
      /\ vault' = [vault EXCEPT ![p] = AfterRelease(v, amount)]
      /\ release_receipt' = [release_receipt EXCEPT ![p][m] = amount]
      /\ custody' = [custody EXCEPT ![v.asset] = @ - amount]
      /\ UNCHANGED <<contribution, refund_receipt>>
  BY DEF ReleaseMilestone
<1>2. /\ EscrowTypeOK /\ v \in Vault
      /\ paid \in [0..4 -> Nat] /\ more \in [0..4 -> Nat]
      /\ DepositsOK(v, contribution[p]) /\ ReleasesOK(v, paid)
  BY <1>1, OfOpenVault DEF EscrowInv, EscrowTypeOK
<1>3. w = AfterRelease(v, amount) /\ more = [paid EXCEPT ![m] = amount]
  BY <1>1, <1>2 DEF EscrowTypeOK
<1>4. /\ amount \in Nat /\ v.next_milestone \in Nat /\ v.released \in Nat
      /\ v.asset \in Assets /\ Len(plan) \in 2..5
  <2>1. amount \in Nat
    BY <1>1, EscrowAssumption
  <2>2. v.next_milestone \in Nat /\ v.released \in Nat /\ v.asset \in Assets
    BY <1>2 DEF Vault
  <2>3. Len(plan) \in 2..5
    BY <1>2 DEF ReleasesOK
  <2>4. QED
    BY <2>1, <2>2, <2>3
<1> HIDE DEF v, w, paid, more, plan
<1>5. /\ w.deposited = v.deposited /\ w.contributor_count = v.contributor_count
      /\ w.released = v.released + amount /\ w.milestone_amounts = plan
      /\ w.next_milestone = v.next_milestone + 1 /\ w.asset = v.asset
      /\ w.refunded_total = v.refunded_total /\ w.refundable = v.refundable
  BY <1>2, <1>3 DEF AfterRelease, Vault, plan
<1>6. w # NoVault
  <2>1. v.released + amount \in Nat /\ v.next_milestone + 1 \in Nat
    BY <1>4
  <2>2. w \in Vault
    BY <1>2, <1>3, <2>1 DEF AfterRelease, Vault
  <2>3. QED
    BY <2>2, EscrowAssumption
<1>7. DepositsOK(w, contribution[p])
  BY <1>2, <1>5 DEF DepositsOK
<1>8. ReleasesOK(w, more)
  <2>1. SumFunctionOnSet(more, 0..4) = SumFunctionOnSet(paid, 0..4) + amount
    <3> DEFINE S == 0..4
    <3>1. IsFiniteSet(S) /\ m \in S
      BY MilestonesFinite
    <3>2. /\ \A j \in S : paid[j] \in Int /\ more[j] \in Int
          /\ \A j \in S \ {m} : more[j] = paid[j]
          /\ more[m] = amount
      BY <1>2, <1>3
    <3> HIDE DEF S
    <3>3. SumFunctionOnSet(more, S) = SumFunctionOnSet(paid, S) + (more[m] - paid[m])
      BY <3>1, <3>2, SumChange
    <3>4. SumFunctionOnSet(paid, S) \in Int
      BY <3>1, <3>2, SumInt
    <3>5. QED
      BY <1>1, <1>4, <3>2, <3>3, <3>4 DEF S, paid
  <2>2. \A j \in 0..4 : more[j] = IF j < v.next_milestone + 1 THEN plan[j + 1] ELSE 0
    <3>1. \A j \in 0..4 : paid[j] = IF j < v.next_milestone THEN plan[j + 1] ELSE 0
      BY <1>2 DEF ReleasesOK, plan
    <3>2. m = v.next_milestone /\ amount = plan[m + 1]
      BY <1>1 DEF v, plan
    <3>3. \A j \in 0..4 : more[j] = IF j = m THEN amount ELSE paid[j]
      BY <1>2, <1>3
    <3>4. \A j \in 0..4 : j < v.next_milestone + 1 <=> j < v.next_milestone \/ j = m
      BY <1>4, <3>2
    <3>5. QED
      BY <3>1, <3>2, <3>3, <3>4
  <2>3. v.next_milestone + 1 <= Len(plan)
    BY <1>1, <1>4 DEF v
  <2>4. QED
    BY <1>2, <1>5, <2>1, <2>2, <2>3 DEF ReleasesOK, plan
<1>9. RefundsOK(w, contribution[p], refund_receipt[p])
  BY <1>1, <1>5 DEF RefundsOK, v
<1>10. BooksOK(p)'
  BY <1>1, <1>6, <1>7, <1>8, <1>9 DEF BooksOK, w, more
<1> DEFINE d == 0 - amount
<1>11. Moves(p, d)
  <2>1. v.deposited \in Nat /\ v.released \in Nat /\ v.refunded_total \in Nat
    BY <1>2 DEF Vault
  <2>2. StillHeld(p)' = StillHeld(p) + d
    BY <1>4, <1>5, <2>1 DEF StillHeld, v, w
  <2>3. HeldIn(p) = StillHeld(p) /\ HeldIn(p)' = StillHeld(p)'
    BY <1>1, <1>6 DEF HeldIn, v, w
  <2>4. custody' = [custody EXCEPT ![w.asset] = @ + d]
    <3>0. custody[v.asset] \in Int
      BY <1>2, <1>4 DEF EscrowTypeOK
    <3>1. custody[v.asset] - amount = custody[v.asset] + d
      BY <1>4, <3>0
    <3>2. QED
      BY <1>1, <1>5, <3>1 DEF v
  <2>5. QED
    BY <1>1, <1>5, <1>6, <2>2, <2>3, <2>4 DEF Moves, v, w
<1>12. \A q \in Projects \ {p} :
         /\ vault'[q] = vault[q] /\ contribution'[q] = contribution[q]
         /\ release_receipt'[q] = release_receipt[q]
         /\ refund_receipt'[q] = refund_receipt[q]
  BY <1>1, <1>2 DEF EscrowTypeOK
<1>13. d \in Int
  BY <1>4
<1> HIDE DEF d
<1>14. QED
  BY <1>10, <1>11, <1>12, <1>13, OneVaultStep

\* Before refunds are enabled nobody has claimed, so all shares are outstanding.
LEMMA EnableRefundsBooks ==
  ASSUME Books, EscrowInv', NEW p \in Projects, EnableRefunds(p)
  PROVE  Books'
<1> DEFINE v     == vault[p]
           w     == vault'[p]
           given == contribution[p]
           back  == refund_receipt[p]
<1>1. /\ v # NoVault /\ ~v.refundable
      /\ vault' = [vault EXCEPT ![p] = WithRefunds(v)]
      /\ UNCHANGED <<contribution, release_receipt, refund_receipt, custody>>
  BY DEF EnableRefunds
<1>2. /\ EscrowTypeOK /\ v \in Vault /\ VaultOK(v)
      /\ DepositsOK(v, given) /\ ReleasesOK(v, release_receipt[p])
  BY <1>1, OfOpenVault
<1>3. w = WithRefunds(v) /\ w \in Vault
  BY <1>1, <1>2, WithRefundsOK DEF EscrowTypeOK
<1>4. \A c \in Contributors : back[c] = None
  BY <1>1, NoReceiptsYet DEF Books
<1> HIDE DEF v, w, given, back
<1>5. /\ w.deposited = v.deposited /\ w.contributor_count = v.contributor_count
      /\ w.released = v.released /\ w.milestone_amounts = v.milestone_amounts
      /\ w.next_milestone = v.next_milestone /\ w.asset = v.asset
      /\ w.refunded_total = v.refunded_total
      /\ w.remaining_pool = v.deposited - v.released /\ w.remaining_shares = v.deposited
  BY <1>2, <1>3 DEF WithRefunds, Vault
<1>6. DepositsOK(w, given) /\ ReleasesOK(w, release_receipt[p])
  BY <1>2, <1>5 DEF DepositsOK, ReleasesOK
<1>7. RefundsOK(w, given, back)
  <2>1. Open(back) = Contributors /\ Claimants(back) = {}
    BY <1>4 DEF Open, Claimants
  <2> DEFINE left == v.deposited - v.released
  <2>2. left \in Nat /\ v.deposited \in Nat
    BY <1>2 DEF Vault, VaultOK
  <2>3. left * v.deposited <= v.deposited * left + 0 * v.deposited
    <3> HIDE DEF left
    <3>1. QED
      BY <2>2
  <2>4. v.deposited = SumFunctionOnSet(given, Contributors)
    BY <1>2 DEF DepositsOK
  <2>5. QED
    BY <1>5, <2>1, <2>3, <2>4, FS_EmptySet DEF RefundsOK
<1>8. w # NoVault
  BY <1>3, EscrowAssumption
<1>9. BooksOK(p)'
  BY <1>1, <1>6, <1>7, <1>8 DEF BooksOK, w, given, back
<1>10. Moves(p, 0)
  BY <1>1, <1>5, <1>8, NoPayment DEF v, w
<1>11. \A q \in Projects \ {p} :
         /\ vault'[q] = vault[q] /\ contribution'[q] = contribution[q]
         /\ release_receipt'[q] = release_receipt[q]
         /\ refund_receipt'[q] = refund_receipt[q]
  BY <1>1, <1>2 DEF EscrowTypeOK
<1>12. QED
  BY <1>9, <1>10, <1>11, OneVaultStep

\* A claim closes one contributor's shares and leaves at most one unit of dust
\* more to the others.
LEMMA ClaimRefundBooks ==
  ASSUME Books, EscrowInv', NEW p \in Projects, NEW c \in Contributors, ClaimRefund(p, c)
  PROVE  Books'
<1> DEFINE v      == vault[p]
           w      == vault'[p]
           given  == contribution[p]
           back   == refund_receipt[p]
           more   == refund_receipt'[p]
           shares == given[c]
           amount == RefundAmount(v, shares)
           pool   == v.remaining_pool
           all    == v.remaining_shares
           D      == v.deposited
           left   == v.deposited - v.released
           claims == Cardinality(Claimants(back))
           givers == v.contributor_count
<1>1. /\ v # NoVault /\ v.refundable
      /\ back[c] = None /\ shares > 0 /\ shares <= all
      /\ vault' = [vault EXCEPT ![p] = AfterRefund(v, shares, amount)]
      /\ refund_receipt' = [refund_receipt EXCEPT ![p][c] = amount]
      /\ custody' = [custody EXCEPT ![v.asset] = @ - amount]
      /\ UNCHANGED <<contribution, release_receipt>>
  BY DEF ClaimRefund
<1>2. /\ EscrowTypeOK /\ v \in Vault /\ VaultOK(v)
      /\ given \in [Contributors -> Nat]
      /\ back \in [Contributors -> Nat \cup {None}]
      /\ DepositsOK(v, given) /\ ReleasesOK(v, release_receipt[p])
      /\ RefundsOK(v, given, back)
  BY <1>1, OfOpenVault
<1>3. w = AfterRefund(v, shares, amount) /\ more = [back EXCEPT ![c] = amount]
  BY <1>1, <1>2 DEF EscrowTypeOK
<1>4. /\ pool \in Nat /\ all \in Nat /\ D \in Nat /\ left \in Nat /\ shares \in Nat
      /\ givers \in Nat /\ v.asset \in Assets /\ v.refunded_total \in Nat
      /\ v.released \in Nat /\ pool <= all /\ all > 0
  <2>1. /\ pool \in Nat /\ all \in Nat /\ D \in Nat /\ v.released \in Nat
        /\ givers \in Nat /\ v.asset \in Assets /\ v.refunded_total \in Nat
    BY <1>2 DEF Vault
  <2>2. v.released <= D /\ pool <= all
    BY <1>1, <1>2 DEF VaultOK
  <2>3. shares \in Nat
    BY <1>2
  <2>4. QED
    BY <1>1, <2>1, <2>2, <2>3
<1>5. w \in Vault /\ amount \in Nat
  BY <1>1, <1>2, <1>3, <1>4, AfterRefundOK
\* The amount is all of the pool for the last share, else the floor share.
<1>6. /\ shares = all => amount = pool
      /\ shares < all => /\ amount <= pool
                        /\ amount * all <= shares * pool
                        /\ (amount + 1) * all > shares * pool
  <2>1. amount = IF shares = all THEN pool ELSE (shares * pool) \div all
    BY DEF RefundAmount
  <2> HIDE DEF amount, pool, all, shares
  <2>2. ASSUME shares < all PROVE amount = (shares * pool) \div all
    BY <1>4, <2>1, <2>2
  <2>3. ASSUME shares < all
        PROVE  LET floor == (shares * pool) \div all
               IN  /\ floor * all <= shares * pool
                   /\ (floor + 1) * all > shares * pool
                   /\ floor <= pool
    BY <1>4, <2>3, FloorShare
  <2>4. QED
    BY <2>1, <2>2, <2>3
<1> HIDE DEF w, given, back, more, amount
<1>7. /\ w.deposited = D /\ w.contributor_count = givers
      /\ w.released = v.released /\ w.milestone_amounts = v.milestone_amounts
      /\ w.next_milestone = v.next_milestone /\ w.asset = v.asset
      /\ w.refunded_total = v.refunded_total + amount
      /\ w.remaining_pool = pool - amount /\ w.remaining_shares = all - shares
      /\ w.refundable
  BY <1>1, <1>2, <1>3 DEF AfterRefund, Vault
<1>8. w # NoVault
  BY <1>5, EscrowAssumption
<1>9. shares = given[c] /\ c \in Open(back)
  BY <1>1 DEF Open, given, back
<1> HIDE DEF v, shares, pool, all, D, left, claims, givers
<1>10. /\ all = SumFunctionOnSet(given, Open(back))
       /\ pool * D <= all * left + claims * D
       /\ \A d \in Claimants(back) :
            given[d] > 0 /\ back[d] * D <= given[d] * left + (givers - 1) * D
  BY <1>1, <1>2 DEF RefundsOK, v, pool, all, D, left, claims, givers
\* The claimants are one more; the claimant of this step was not among them.
<1>11. /\ Claimants(more) = Claimants(back) \cup {c}
       /\ Open(more) = Open(back) \ {c}
       /\ c \notin Claimants(back)
  BY <1>2, <1>3, <1>5, <1>9, NoneAssumption DEF Claimants, Open
<1>12. /\ Cardinality(Claimants(more)) = claims + 1
       /\ claims \in Nat /\ claims <= givers - 1
  <2> DEFINE before == Claimants(back)
             after  == before \cup {c}
             G      == Givers(given)
  <2>1. IsFiniteSet(before)
    BY FS_Subset, EscrowAssumption DEF Claimants
  <2>2. IsFiniteSet(G)
    BY FS_Subset, EscrowAssumption DEF Givers
  <2>3. after \in SUBSET G
    BY <1>1, <1>9, <1>10 DEF Claimants, Givers, shares, given
  <2>4. givers = Cardinality(G)
    BY <1>2 DEF DepositsOK, givers
  <2> HIDE DEF before, G
  <2>5. Cardinality(after) = Cardinality(before) + 1 /\ Cardinality(before) \in Nat
    BY <1>11, <2>1, FS_AddElement, FS_CardinalityType DEF before
  <2> HIDE DEF after
  <2>6. Cardinality(after) <= Cardinality(G)
    BY <2>2, <2>3, FS_Subset
  <2>7. QED
    BY <1>4, <1>11, <2>4, <2>5, <2>6 DEF claims, before, after
<1>13. /\ (pool - amount) * D <= (all - shares) * left + (claims + 1) * D
       /\ amount * D <= shares * left + claims * D
  <2>1. CASE shares = all
    <3>1. amount = pool
      BY <1>6, <2>1
    <3>2. (pool - amount) * D = 0 /\ (all - shares) * left = 0
      BY <1>4, <2>1, <3>1
    <3>3. (claims + 1) * D \in Nat
      BY <1>4, <1>12
    <3>4. QED
      BY <1>10, <2>1, <3>1, <3>2, <3>3
  <2>2. CASE shares < all
    <3>1. (pool - amount) * D <= (all - shares) * left + (claims + 1) * D
      BY <1>4, <1>5, <1>6, <1>10, <1>12, <2>2, DustLeft
    <3>2. amount * D <= shares * left + claims * D
      BY <1>4, <1>5, <1>6, <1>10, <1>12, <2>2, DustPaid
    <3>3. QED
      BY <3>1, <3>2
  <2>3. shares <= all
    BY <1>1 DEF shares, all, v
  <2>4. QED
    BY <1>4, <2>1, <2>2, <2>3
<1>14. amount * D <= shares * left + (givers - 1) * D
  <2>1. claims * D <= (givers - 1) * D
    <3>1. D * claims <= D * (givers - 1)
      BY <1>4, <1>12, ScaleLeq
    <3>2. QED
      BY <1>4, <1>12, <3>1
  <2>2. amount * D \in Int /\ shares * left \in Int /\ claims * D \in Int /\ (givers - 1) * D \in Int
    BY <1>4, <1>5, <1>12
  <2> DEFINE A == amount * D
             B == shares * left
             C == claims * D
             E == (givers - 1) * D
  <2>3. A <= B + C /\ C <= E /\ A \in Int /\ B \in Int /\ C \in Int /\ E \in Int
    BY <1>13, <2>1, <2>2
  <2> HIDE DEF A, B, C, E
  <2>4. A <= B + E
    BY <2>3
  <2>5. QED
    BY <2>4 DEF A, B, E
<1>15. RefundsOK(w, given, more)
  <2>1. all - shares = SumFunctionOnSet(given, Open(more))
    <3> DEFINE S == Open(back)
    <3>1. IsFiniteSet(S)
      BY FS_Subset, EscrowAssumption DEF Open
    <3>2. \A d \in S : given[d] \in Int
      BY <1>2 DEF Open
    <3>3. c \in S
      BY <1>9
    <3>4. IsFiniteSet(S \ {c})
      BY <3>1, FS_Subset
    <3>5. SumFunctionOnSet(given, S \ {c}) \in Int
      <4> HIDE DEF S
      <4>1. QED
        BY <3>2, <3>4, SumInt
    <3> HIDE DEF S
    <3>6. SumFunctionOnSet(given, S) = given[c] + SumFunctionOnSet(given, S \ {c})
      BY <3>1, <3>2, <3>3, SumRemove
    <3>7. QED
      BY <1>4, <1>9, <1>10, <1>11, <3>5, <3>6 DEF S
  <2>2. \A d \in Claimants(more) :
          given[d] > 0 /\ more[d] * D <= given[d] * left + (givers - 1) * D
    <3>1. more[c] = amount /\ \A d \in Claimants(back) : more[d] = back[d]
      BY <1>2, <1>3, <1>11 DEF Claimants
    <3>2. shares > 0
      BY <1>1 DEF shares, given
    <3>3. QED
      BY <1>9, <1>10, <1>11, <1>14, <3>1, <3>2
  <2>3. w.deposited - w.released = left
    BY <1>7 DEF left, D
  <2>4. QED
    BY <1>7, <1>12, <1>13, <2>1, <2>2, <2>3 DEF RefundsOK
<1>16. DepositsOK(w, given) /\ ReleasesOK(w, release_receipt[p])
  BY <1>2, <1>7 DEF DepositsOK, ReleasesOK, D, givers
<1>17. BooksOK(p)'
  BY <1>1, <1>8, <1>15, <1>16 DEF BooksOK, w, given, more
<1> DEFINE d == 0 - amount
<1>18. Moves(p, d)
  <2>1. StillHeld(p)' = StillHeld(p) + d
    BY <1>4, <1>5, <1>7 DEF StillHeld, v, w, D
  <2>2. HeldIn(p) = StillHeld(p) /\ HeldIn(p)' = StillHeld(p)'
    BY <1>1, <1>8 DEF HeldIn, v, w
  <2>3. custody' = [custody EXCEPT ![w.asset] = @ + d]
    <3>0. custody[v.asset] \in Int
      BY <1>2, <1>4 DEF EscrowTypeOK
    <3>1. custody[v.asset] - amount = custody[v.asset] + d
      BY <1>5, <3>0
    <3>2. QED
      BY <1>1, <1>7, <3>1 DEF v, amount, shares, given
  <2>4. QED
    BY <1>1, <1>7, <1>8, <2>1, <2>2, <2>3 DEF Moves, v, w
<1>19. \A q \in Projects \ {p} :
         /\ vault'[q] = vault[q] /\ contribution'[q] = contribution[q]
         /\ release_receipt'[q] = release_receipt[q]
         /\ refund_receipt'[q] = refund_receipt[q]
  BY <1>1, <1>2 DEF EscrowTypeOK
<1>20. d \in Int
  BY <1>5
<1> HIDE DEF d
<1>21. QED
  BY <1>17, <1>18, <1>19, <1>20, OneVaultStep

-----------------------------------------------------------------------------
(* Every step keeps the books, and the books give the properties.           *)

\* There is no vault at the start.
LEMMA BooksInit == EscrowInit => Books
<1> SUFFICES ASSUME EscrowInit PROVE Books
  OBVIOUS
<1>1. EscrowInv
  BY InitInv
<1>2. \A p \in Projects : vault[p] = NoVault /\ BooksOK(p)
  BY DEF EscrowInit, BooksOK
<1>3. ASSUME NEW a \in Assets PROVE custody[a] = SumFunctionOnSet(Holdings(a), Projects)
  <2> DEFINE held == Holdings(a)
  <2>1. \A p \in Projects : held[p] = 0
    BY <1>2 DEF Holdings
  <2> HIDE DEF held
  <2>2. SumFunctionOnSet(held, Projects) = 0
    BY <2>1, SumOfZeros, EscrowAssumption
  <2>3. QED
    BY <2>2 DEF EscrowInit, held
<1>4. QED
  BY <1>1, <1>2, <1>3 DEF Books, CustodyOK

\* No call and no passage of time unbalances the books.
LEMMA BooksNext ==
  ASSUME Books, [AnyCall]_escrow_vars
  PROVE  Books'
<1>0. EscrowInv'
  BY NextInv DEF Books
<1>1. CASE Tick
  BY <1>0, <1>1, QuietStep DEF Tick
<1>2. ASSUME NEW a \in Assets, NEW policy \in PolicyInputs, SyncAssetPolicy(a, policy)
      PROVE  Books'
  BY <1>0, <1>2, QuietStep DEF SyncAssetPolicy
<1>3. ASSUME NEW p \in Projects, NEW a \in Assets, NEW goal \in Int,
             NEW amounts \in Seq(Int), NEW deadline \in Int,
             NEW cap \in Nat, OpenVault(p, a, goal, deadline, amounts, cap)
      PROVE  Books'
  BY <1>0, <1>3, OpenVaultBooks
<1>4. ASSUME NEW p \in Projects, NEW c \in Contributors, NEW amount \in Int,
             Deposit(p, c, amount) \/ DepositThenLock(p, c, amount)
      PROVE  Books'
  BY <1>0, <1>4, DepositBooks DEF Deposit, DepositThenLock
<1>5. ASSUME NEW p \in Projects, LockFunding(p) PROVE Books'
  BY <1>0, <1>5, LockFundingBooks
<1>6. ASSUME NEW p \in Projects, EnableRefunds(p) PROVE Books'
  BY <1>0, <1>6, EnableRefundsBooks
<1>7. ASSUME NEW p \in Projects, NEW m \in 0..4, NEW amount \in Int,
             ReleaseMilestone(p, m, amount)
      PROVE  Books'
  BY <1>0, <1>7, ReleaseBooks
<1>8. ASSUME NEW p \in Projects, NEW c \in Contributors, ClaimRefund(p, c) PROVE Books'
  BY <1>0, <1>8, ClaimRefundBooks
<1>9. ASSUME NEW actor \in Accounts \cup {PauseGuardian}, NEW mode \in PauseModes,
             EscrowSetPauseMode(actor, mode)
      PROVE  Books'
  BY <1>0, <1>9, QuietStep DEF EscrowSetPauseMode
<1>10. ASSUME NEW proposed \in Accounts, EscrowProposeGovernor(proposed) PROVE Books'
  BY <1>0, <1>10, QuietStep DEF EscrowProposeGovernor
<1>11. CASE EscrowAcceptGovernor
  BY <1>0, <1>11, QuietStep DEF EscrowAcceptGovernor
<1>12. CASE UNCHANGED escrow_vars
  BY <1>0, <1>12, QuietStep DEF escrow_vars
<1>13. QED
  BY <1>1, <1>2, <1>3, <1>4, <1>5, <1>6, <1>7, <1>8, <1>9, <1>10, <1>11, <1>12 DEF AnyCall

\* The books are right in every reachable state.
LEMMA BooksInvariant == EscrowSpec => []Books
<1>1. EscrowInit => Books
  BY BooksInit
<1>2. Books /\ [AnyCall]_escrow_vars => Books'
  BY BooksNext
<1>3. QED
  BY <1>1, <1>2, NextIsAnyCall, PTL DEF EscrowSpec

\* What is held of an asset is counted over its vaults alone.
LEMMA BooksSolvent == Books => Solvency
<1> SUFFICES ASSUME Books, NEW a \in Assets
             PROVE  LET mine == {p \in Opened : vault[p].asset = a}
                    IN  custody[a] = SumFunction([p \in mine |->
                          vault[p].deposited - vault[p].released - vault[p].refunded_total])
  BY DEF Solvency
<1> DEFINE mine == {p \in Opened : vault[p].asset = a}
           held == [p \in mine |->
                      vault[p].deposited - vault[p].released - vault[p].refunded_total]
           all  == Holdings(a)
<1>1. mine \in SUBSET Projects /\ all \in [Projects -> Int]
  BY HoldingsAreNumbers DEF Books, EscrowInv, Opened
<1>2. /\ \A p \in mine : held[p] = all[p]
      /\ \A p \in Projects \ mine : all[p] = 0
  BY DEF Holdings, StillHeld, Opened
<1>3. SumFunction(held) = SumFunctionOnSet(held, mine)
  BY DEF SumFunction
<1>4. custody[a] = SumFunctionOnSet(all, Projects)
  BY DEF Books, CustodyOK
<1> HIDE DEF mine, held, all
<1>5. IsFiniteSet(mine) /\ IsFiniteSet(Projects \ mine)
  BY <1>1, FS_Subset, EscrowAssumption
<1>6. \A p \in Projects : all[p] \in Int
  BY <1>1
<1>7. SumFunctionOnSet(all, Projects)
        = SumFunctionOnSet(all, mine) + SumFunctionOnSet(all, Projects \ mine)
  BY <1>1, <1>6, SumOfUnion, EscrowAssumption
<1>8. SumFunctionOnSet(all, Projects \ mine) = 0
  BY <1>2, <1>5, SumOfZeros
<1>9. /\ SumFunctionOnSet(held, mine) = SumFunctionOnSet(all, mine)
      /\ SumFunctionOnSet(all, mine) \in Int
  BY <1>1, <1>2, <1>5, <1>6, SumSame, SumInt
<1>10. custody[a] = SumFunction(held)
  BY <1>3, <1>4, <1>7, <1>8, <1>9
<1>11. QED
  BY <1>10 DEF mine, held

\* The totals of a vault are the sums of its receipts.
LEMMA BooksMatch == Books => ReceiptsMatchTotals
<1> SUFFICES ASSUME Books, NEW p \in Projects, vault[p] # NoVault
             PROVE  /\ vault[p].deposited = SumFunction(contribution[p])
                    /\ vault[p].released = SumFunction(release_receipt[p])
                    /\ \A m \in 0..4 : release_receipt[p][m] =
                         IF m < vault[p].next_milestone
                         THEN vault[p].milestone_amounts[m + 1] ELSE 0
                    /\ vault[p].contributor_count
                         = Cardinality({c \in Contributors : contribution[p][c] > 0})
  BY DEF ReceiptsMatchTotals, Opened
<1>1. /\ contribution[p] \in [Contributors -> Nat] /\ release_receipt[p] \in [0..4 -> Nat]
      /\ DepositsOK(vault[p], contribution[p]) /\ ReleasesOK(vault[p], release_receipt[p])
  BY OfOpenVault
<1>2. /\ SumFunction(contribution[p]) = SumFunctionOnSet(contribution[p], Contributors)
      /\ SumFunction(release_receipt[p]) = SumFunctionOnSet(release_receipt[p], 0..4)
  BY <1>1 DEF SumFunction
<1>3. QED
  BY <1>1, <1>2 DEF DepositsOK, ReleasesOK, Givers

\* Outstanding shares belong to whoever has not claimed.
LEMMA BooksOutstanding == Books => SharesOutstanding
<1> SUFFICES ASSUME Books, NEW p \in Projects, vault[p] # NoVault, vault[p].refundable
             PROVE  /\ vault[p].remaining_shares
                         = SumFunctionOnSet(contribution[p], Unclaimed(p))
                    /\ vault[p].released + vault[p].refunded_total + vault[p].remaining_pool
                         = vault[p].deposited
  BY DEF SharesOutstanding, Opened
<1>1. VaultOK(vault[p]) /\ RefundsOK(vault[p], contribution[p], refund_receipt[p])
  BY OfOpenVault
<1>2. QED
  BY <1>1 DEF VaultOK, RefundsOK, Unclaimed, Open

\* The dust of all earlier claims bounds what a claim can gain.
LEMMA BooksDust == Books => DustBounded
<1> SUFFICES ASSUME Books, NEW p \in Projects, vault[p] # NoVault, NEW c \in Contributors,
                    refund_receipt[p][c] # None
             PROVE  refund_receipt[p][c] * vault[p].deposited
                      <= contribution[p][c] * (vault[p].deposited - vault[p].released)
                           + (vault[p].contributor_count - 1) * vault[p].deposited
  BY DEF DustBounded, Opened
<1>1. vault[p].refundable
  BY DEF Books, EscrowInv, Accounting, ReceiptOK
<1>2. RefundsOK(vault[p], contribution[p], refund_receipt[p])
  BY OfOpenVault
<1>3. QED
  BY <1>1, <1>2 DEF RefundsOK, Claimants

(***************************************************************************)
(* No vault is ever paid from another's money: what the escrow holds of an *)
(* asset (deposit, release_milestone, claim_refund) is what its vaults of  *)
(* that asset have taken in and not paid out.                              *)
(***************************************************************************)
THEOREM EscrowSolvent == EscrowSpec => []Solvency
BY BooksInvariant, BooksSolvent, PTL

(***************************************************************************)
(* A vault's totals are never out of step with its contributions and its   *)
(* release receipts, and it counts each contributor once.                  *)
(***************************************************************************)
THEOREM TotalsMatchReceipts == EscrowSpec => []ReceiptsMatchTotals
BY BooksInvariant, BooksMatch, PTL

(***************************************************************************)
(* After enable_refunds every unit deposited is released, refunded or in   *)
(* the pool, and the shares left are those of whoever has not claimed.     *)
(***************************************************************************)
THEOREM SharesAreOutstanding == EscrowSpec => []SharesOutstanding
BY BooksInvariant, BooksOutstanding, PTL

(***************************************************************************)
(* Whatever the order of the claims, claim_refund pays nobody more than    *)
(* the exact share and a unit for each of the other contributors.          *)
(***************************************************************************)
THEOREM DustIsBounded == EscrowSpec => []DustBounded
BY BooksInvariant, BooksDust, PTL

-----------------------------------------------------------------------------
(* What a step may never undo.                                              *)

\* The clause of VaultHistory for one vault.
Kept(p) ==
  LET v == vault[p]  w == vault'[p] IN
  /\ w # NoVault
  /\ Terms(w) = Terms(v)
  /\ v.funding_locked => w.funding_locked /\ contribution'[p] = contribution[p]
  /\ v.refundable =>
       /\ w.refundable
       /\ w.released = v.released
       /\ w.deposited = v.deposited
       /\ w.refunded_total >= v.refunded_total
  /\ \A c \in Contributors :
       refund_receipt[p][c] # None => refund_receipt'[p][c] = refund_receipt[p][c]
  /\ \A m \in 0..4 :
       release_receipt[p][m] # 0 => release_receipt'[p][m] = release_receipt[p][m]

\* A vault that a step does not name.
LEMMA KeptUntouched ==
  ASSUME EscrowInv, NEW p \in Opened, vault'[p] = vault[p], contribution'[p] = contribution[p],
         refund_receipt'[p] = refund_receipt[p], release_receipt'[p] = release_receipt[p]
  PROVE  Kept(p)
<1>1. vault[p] # NoVault /\ vault[p] \in Vault
  BY OpenedIsVault DEF Opened, EscrowInv
<1>2. vault[p].refunded_total \in Nat
  BY <1>1 DEF Vault
<1>3. QED
  BY <1>1, <1>2 DEF Kept

\* Of all calls, only those that name a vault touch it.
LEMMA StepKeepsVaults ==
  ASSUME EscrowInv, EscrowInv', AnyCall, NEW q \in Opened
  PROVE  Kept(q)
<1> DEFINE v == vault[q]
           w == vault'[q]
<1>0. /\ EscrowTypeOK /\ q \in Projects /\ v \in Vault /\ v # NoVault /\ VaultOK(v)
      /\ v.refunded_total \in Nat
  <2>1. EscrowTypeOK /\ q \in Projects /\ v \in Vault /\ v # NoVault /\ VaultOK(v)
    BY OpenedIsVault DEF Opened, EscrowInv, Accounting
  <2>2. QED
    BY <2>1 DEF Vault
<1>1. CASE UNCHANGED vault_vars
  BY <1>1, KeptUntouched DEF vault_vars
<1>2. ASSUME NEW p \in Projects, NEW a \in Assets, NEW goal \in Int,
             NEW amounts \in Seq(Int), NEW deadline \in Int,
             NEW cap \in Nat, OpenVault(p, a, goal, deadline, amounts, cap)
      PROVE  Kept(q)
  BY <1>0, <1>2, KeptUntouched DEF OpenVault, EscrowTypeOK
<1>3. ASSUME NEW p \in Projects, NEW c \in Contributors, NEW amount \in Int,
             Deposit(p, c, amount) \/ DepositThenLock(p, c, amount)
      PROVE  Kept(q)
  <2> PICK x : /\ DepositInto(p, c, amount, x)
               /\ \/ x = AfterDeposit(vault[p], amount, contribution[p][c])
                  \/ x = Locked(AfterDeposit(vault[p], amount, contribution[p][c]))
    BY <1>3 DEF Deposit, DepositThenLock
  <2>1. /\ vault' = [vault EXCEPT ![p] = x]
        /\ contribution' = [contribution EXCEPT ![p][c] = contribution[p][c] + amount]
        /\ UNCHANGED <<release_receipt, refund_receipt>>
        /\ ~vault[p].funding_locked /\ ~vault[p].refundable
    BY DEF DepositInto, FundingOpen
  <2>2. CASE q # p
    BY <1>0, <2>1, <2>2, KeptUntouched DEF EscrowTypeOK
  <2>3. CASE q = p
    <3>1. x # NoVault
      <4> DEFINE u == AfterDeposit(vault[p], amount, contribution[p][c])
      <4>1. u \in Vault /\ VaultOK(u) /\ ~u.refundable
        BY AfterDepositOK
      <4> HIDE DEF u
      <4>2. Locked(u) \in Vault
        BY <4>1, LockedOK
      <4>3. QED
        BY <4>1, <4>2, EscrowAssumption DEF u
    <3>2. w = x
      BY <1>0, <2>1, <2>3 DEF EscrowTypeOK
    <3>3. Terms(w) = Terms(v)
      BY <1>0, <2>3, <3>2 DEF Terms, AfterDeposit, Locked, Vault
    <3>4. QED
      BY <2>1, <2>3, <3>1, <3>2, <3>3 DEF Kept
  <2>4. QED
    BY <2>2, <2>3
<1>4. ASSUME NEW p \in Projects, LockFunding(p) PROVE Kept(q)
  <2>1. /\ vault' = [vault EXCEPT ![p] = Locked(vault[p])]
        /\ UNCHANGED <<contribution, release_receipt, refund_receipt>>
        /\ ~vault[p].refundable
    BY <1>4 DEF LockFunding
  <2>2. CASE q # p
    BY <1>0, <2>1, <2>2, KeptUntouched DEF EscrowTypeOK
  <2>3. CASE q = p
    <3>1. w = Locked(v)
      BY <1>0, <2>1, <2>3 DEF EscrowTypeOK
    <3>2. w \in Vault
      BY <1>0, <2>1, <2>3, <3>1, LockedOK
    <3>3. w.funding_locked
      BY <1>0, <3>1 DEF Locked, Vault
    <3>4. Terms(w) = Terms(v)
      BY <1>0, <3>1 DEF Terms, Locked, Vault
    <3>5. QED
      BY <2>1, <2>3, <3>2, <3>3, <3>4, EscrowAssumption DEF Kept
  <2>4. QED
    BY <2>2, <2>3
<1>5. ASSUME NEW p \in Projects, EnableRefunds(p) PROVE Kept(q)
  <2>1. /\ vault' = [vault EXCEPT ![p] = WithRefunds(vault[p])]
        /\ UNCHANGED <<contribution, release_receipt, refund_receipt>>
        /\ ~vault[p].refundable
    BY <1>5 DEF EnableRefunds
  <2>2. CASE q # p
    BY <1>0, <2>1, <2>2, KeptUntouched DEF EscrowTypeOK
  <2>3. CASE q = p
    <3>1. w = WithRefunds(v)
      BY <1>0, <2>1, <2>3 DEF EscrowTypeOK
    <3>2. w \in Vault
      BY <1>0, <2>1, <2>3, <3>1, WithRefundsOK
    <3>3. w.funding_locked
      BY <1>0, <3>1 DEF WithRefunds, Vault
    <3>4. Terms(w) = Terms(v)
      BY <1>0, <3>1 DEF Terms, WithRefunds, Vault
    <3>5. QED
      BY <2>1, <2>3, <3>2, <3>3, <3>4, EscrowAssumption DEF Kept
  <2>4. QED
    BY <2>2, <2>3
<1>6. ASSUME NEW p \in Projects, NEW m \in 0..4, NEW amount \in Int,
             ReleaseMilestone(p, m, amount)
      PROVE  Kept(q)
  <2>1. /\ vault' = [vault EXCEPT ![p] = AfterRelease(vault[p], amount)]
        /\ release_receipt' = [release_receipt EXCEPT ![p][m] = amount]
        /\ UNCHANGED <<contribution, refund_receipt>>
        /\ release_receipt[p][m] = 0
        /\ ~vault[p].refundable /\ vault[p].funding_locked
    BY <1>6 DEF ReleaseMilestone
  <2>2. CASE q # p
    BY <1>0, <2>1, <2>2, KeptUntouched DEF EscrowTypeOK
  <2>3. CASE q = p
    <3>1. w = AfterRelease(v, amount) /\ release_receipt'[q] = [release_receipt[q] EXCEPT ![m] = amount]
      BY <1>0, <2>1, <2>3 DEF EscrowTypeOK
    <3>2. w.funding_locked = v.funding_locked
      BY <1>0, <3>1 DEF AfterRelease, Vault
    <3>3. w # NoVault
      <4>1. v.released \in Nat /\ v.next_milestone \in Nat
        BY <1>0 DEF Vault
      <4>2. amount \in Nat
        BY <1>6, EscrowAssumption DEF ReleaseMilestone
      <4>3. v.released + amount \in Nat /\ v.next_milestone + 1 \in Nat
        BY <4>1, <4>2
      <4>4. w \in Vault
        BY <1>0, <3>1, <4>3 DEF AfterRelease, Vault
      <4>5. QED
        BY <4>4, EscrowAssumption
    <3>4. \A j \in 0..4 : release_receipt[q][j] # 0 => release_receipt'[q][j] = release_receipt[q][j]
      BY <2>1, <2>3, <3>1 DEF EscrowTypeOK
    <3>5. Terms(w) = Terms(v)
      BY <1>0, <3>1 DEF Terms, AfterRelease, Vault
    <3>6. QED
      BY <2>1, <2>3, <3>2, <3>3, <3>4, <3>5 DEF Kept
  <2>4. QED
    BY <2>2, <2>3
<1>7. ASSUME NEW p \in Projects, NEW c \in Contributors, ClaimRefund(p, c) PROVE Kept(q)
  <2> DEFINE amount == RefundAmount(vault[p], contribution[p][c])
  <2>1. /\ vault' = [vault EXCEPT ![p] = AfterRefund(vault[p], contribution[p][c], amount)]
        /\ refund_receipt' = [refund_receipt EXCEPT ![p][c] = amount]
        /\ UNCHANGED <<contribution, release_receipt>>
        /\ refund_receipt[p][c] = None
        /\ vault[p].refundable
        /\ contribution[p][c] > 0 /\ contribution[p][c] <= vault[p].remaining_shares
    BY <1>7 DEF ClaimRefund
  <2>2. CASE q # p
    BY <1>0, <2>1, <2>2, KeptUntouched DEF EscrowTypeOK
  <2>3. CASE q = p
    <3> DEFINE shares == contribution[q][c]
    <3>1. /\ w = AfterRefund(v, shares, RefundAmount(v, shares))
          /\ refund_receipt'[q] = [refund_receipt[q] EXCEPT ![c] = RefundAmount(v, shares)]
      BY <1>0, <2>1, <2>3 DEF EscrowTypeOK
    <3>2. shares \in Nat /\ shares > 0 /\ shares <= v.remaining_shares /\ v.refundable
      BY <1>0, <2>1, <2>3 DEF EscrowTypeOK
    <3>3. /\ RefundAmount(v, shares) \in Nat
          /\ AfterRefund(v, shares, RefundAmount(v, shares)) \in Vault
      BY <1>0, <3>2, AfterRefundOK
    <3> DEFINE paid == RefundAmount(v, shares)
    <3> HIDE DEF paid
    <3>4. /\ w.funding_locked = v.funding_locked /\ w.refundable /\ w.released = v.released
          /\ w.deposited = v.deposited /\ w.refunded_total = v.refunded_total + paid
      BY <1>0, <3>1, <3>2 DEF AfterRefund, Vault, paid
    <3>5. w # NoVault /\ w.refunded_total >= v.refunded_total
      BY <1>0, <3>1, <3>3, <3>4, EscrowAssumption DEF paid
    <3>6. \A d \in Contributors :
            refund_receipt[q][d] # None => refund_receipt'[q][d] = refund_receipt[q][d]
      BY <2>1, <2>3, <3>1
    <3>7. Terms(w) = Terms(v)
      BY <1>0, <3>1 DEF Terms, AfterRefund, Vault
    <3>8. QED
      BY <2>1, <3>4, <3>5, <3>6, <3>7 DEF Kept
  <2>4. QED
    BY <2>2, <2>3
<1>8. ASSUME NEW a, NEW policy, SyncAssetPolicy(a, policy) PROVE UNCHANGED vault_vars
  BY <1>8 DEF SyncAssetPolicy
<1>9. ASSUME NEW actor, NEW mode, EscrowSetPauseMode(actor, mode) PROVE UNCHANGED vault_vars
  BY <1>9 DEF EscrowSetPauseMode
<1>10. ASSUME NEW proposed, EscrowProposeGovernor(proposed) PROVE UNCHANGED vault_vars
  BY <1>10 DEF EscrowProposeGovernor
<1>11. ASSUME Tick \/ EscrowAcceptGovernor PROVE UNCHANGED vault_vars
  BY <1>11 DEF Tick, EscrowAcceptGovernor
<1>12. QED
  BY <1>1, <1>2, <1>3, <1>4, <1>5, <1>6, <1>7, <1>8, <1>9, <1>10, <1>11 DEF AnyCall

(***************************************************************************)
(* No call ever rewrites the asset, goal, deadline, milestone amounts or   *)
(* cap that open_vault was given, undoes a lock, a refundable flag or a    *)
(* receipt, lets money in after the lock, or moves money to the payout     *)
(* after refunds are enabled.                                              *)
(***************************************************************************)
THEOREM HistoryIsKept == EscrowSpec => VaultHistory
<1>1. EscrowInv /\ EscrowInv' /\ [AnyCall]_escrow_vars
        => [\A p \in Opened : Kept(p)]_escrow_vars
  BY StepKeepsVaults
<1>2. VaultHistory <=> [][\A p \in Opened : Kept(p)]_escrow_vars
  BY DEF VaultHistory, Kept
<1>3. QED
  BY <1>1, <1>2, Invariance, NextIsAnyCall, PTL DEF EscrowSpec
=============================================================================
