\* A whole project: two milestones with two attempts each, every decision of
\* every role, at every time the windows allow; or pauses, a rotation and a new
\* policy in the middle of a project.  Followed says which histories.
SPECIFICATION RegistrySpec
CONSTANTS
  None = None
  NoVault = NoVault
  NoProject = NoProject
  creator = creator
  r1 = r1
  r2 = r2
  a1 = a1
  a2 = a2
  c1 = c1
  c2 = c2
  xlm = xlm
  meta = meta
  Projects = {1}
  Contributors = {c1, c2, creator}
  Wallets = {creator, r1, r2, a1, a2, c1, c2}
  Assets = {xlm}
  Accounts = {g1, g2}
  InitGovernor = g1
  PauseGuardian = guardian
  InitAsset = xlm
  InitPolicy <- MCInitPolicy
  PolicyInputs <- MCPolicyInputs
  GoalInputs = {}
  PlanInputs = {}
  CapInputs = {}
  DeadlineInputs = {}
  AmountInputs = {1, 2}
  MaxI128 = 100000000
  MaxTime = 4
  Policy <- MCTwoAttempts
  OptionCount = 1
  ProjectInputs <- MCAllInputs
  MetadataInputs = {meta, meta2}
  Hashes = {h1}
  Arbitrations = {"ApproveRelease", "RejectMilestone", "RequireRework"}
  ModeInputs = {"Running", "PauseNewActivity", "PauseRiskyMutations"}
  GovernorInputs = {g2}
SYMMETRY Seats
CONSTRAINT Followed
INVARIANTS
  RegistryTypeOK
  StatusMatchesVault
  SeparatePowers
  BallotsCounted
  PaidOnlyIfEarned
  OnlyReworkVerdictStrands
  ContractsAgree
  EligiblePowerExact
PROPERTIES
  OnlyForward
  PageOffersEveryMove
  ImplementsAgreement
  FrozenWhilePaused
  EffectiveClockSafe
\* The registry stops when every project is settled and time has run out.
CHECK_DEADLOCK FALSE
