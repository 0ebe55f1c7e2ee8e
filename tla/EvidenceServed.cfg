\* One tab that takes evidence to the registry while the service crashes.
SPECIFICATION ClientSpec
CONSTANTS
  Voters = {alice, bob}
  Accounts = {alice, bob}
  Creator = alice
  OptionInputs = {1, 2}
  MaxU32 = 1
  NoPoll = NoPoll
  NoVote = NoVote
  Null = Null
  None = None
  Mutations = {1, 2}
  MaxAttempts = 2
  Contents = {f1}
  Uploads = {1, 2}
  Deliveries = {1, 2}
  Sessions <- MCEvidence
INVARIANT AnchoredIsServed
CHECK_DEADLOCK FALSE
