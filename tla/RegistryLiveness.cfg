\* Keepers that apply every timeout and release promptly.  MaxTime is more than
\* the windows of four attempts add up to.
SPECIFICATION KeptSpec
CONSTANTS
  None = None
  NoVault = NoVault
  NoProject = NoProject
  creator = creator
  r1 = r1
  r2 = r2
  a1 = a1
  a2 = a2
  c1 = c1
  c2 = c2
  xlm = xlm
  meta = meta
  Projects = {1}
  Contributors = {c1, c2}
  Wallets = {creator, r1, r2, a1, a2, c1, c2}
  Assets = {xlm}
  Accounts = {g1}
  InitGovernor = g1
  PauseGuardian = guardian
  InitAsset = xlm
  InitPolicy <- MCInitPolicy
  PolicyInputs = {}
  GoalInputs = {}
  PlanInputs = {}
  CapInputs = {}
  DeadlineInputs = {}
  AmountInputs = {2}
  MaxI128 = 100000000
  MaxTime = 12
  Policy <- MCTwoAttempts
  OptionCount = 1
  ProjectInputs <- MCProjectInputs
  MetadataInputs = {meta}
  Hashes = {h1}
  Arbitrations = {"ApproveRelease", "RejectMilestone", "RequireRework"}
  ModeInputs = {}
  GovernorInputs = {}
PROPERTY EveryProjectSettles
\* The registry stops when every project is settled and time has run out.
CHECK_DEADLOCK FALSE
