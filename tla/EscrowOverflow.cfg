\* An i128 scaled down so that the square of max_goal exceeds it, as the square of
\* a goal of 20 whole tokens of an 18-decimal asset exceeds the real one.
SPECIFICATION EscrowSpec
CONSTANTS
  None = None
  NoVault = NoVault
  Projects = {p1}
  Contributors = {c1, c2}
  Assets = {xlm}
  Accounts = {g1}
  InitGovernor = g1
  PauseGuardian = guardian
  InitAsset = xlm
  InitPolicy <- MCLargePolicy
  PolicyInputs <- MCNoPolicyInputs
  GoalInputs = {40000}
  PlanInputs <- MCLargePlan
  CapInputs = {5000}
  DeadlineInputs = {1}
  AmountInputs = {20000}
  MaxI128 = 500000000
  MaxTime = 1
INVARIANT ClaimsAlwaysPayable
