\* Two grants in one asset, every vote, both pauses.
SPECIFICATION GrantSpec
CONSTANTS
  NoVault = NoVault
  NoGrant = NoGrant
  xlm = xlm
  Grants = {1, 2}
  Contributors = {c1, c2}
  Assets = {xlm}
  AmountInputs = {1, 2}
  MaxTime = 2
  OptionCount = 1
  GrantInputs <- MCGrantInputs
SYMMETRY Symmetric
INVARIANTS
  StatusMatchesMoney
  ReleasedByVote
  GrantSolvency
