\* Every split of a goal, every release, every claim order; one vault, or two
\* that may share an asset.  Contributors and vaults are interchangeable.
SPECIFICATION EscrowSpec
CONSTANTS
  None = None
  NoVault = NoVault
  Projects = {p1, p2}
  Contributors = {c1, c2, c3}
  Assets = {xlm, usd}
  Accounts = {g1}
  InitGovernor = g1
  PauseGuardian = guardian
  InitAsset = xlm
  InitPolicy <- MCInitPolicy
  PolicyInputs <- MCPolicyInputs
  GoalInputs = {0, 3, 7}
  PlanInputs <- MCPlanInputs
  CapInputs = {5000, 10000}
  DeadlineInputs = {1}
  AmountInputs = {1, 2, 3, 4}
  MaxI128 = 100000000
  MaxTime = 1
SYMMETRY Interchangeable
CONSTRAINT OneOrTwoVaults
INVARIANTS
  EscrowTypeOK
  Solvency
  ReceiptsMatchTotals
  SharesOutstanding
  PoolDrains
  NeverUnderpaid
  DustBounded
  ClaimsAlwaysPayable
PROPERTY VaultHistory
