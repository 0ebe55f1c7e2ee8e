\* A contribution to a grant that was cancelled, by a contributor already refunded.
SPECIFICATION GrantSpec
CONSTANTS
  NoVault = NoVault
  NoGrant = NoGrant
  xlm = xlm
  Grants = {1}
  Contributors = {c1, c2}
  Assets = {xlm}
  AmountInputs = {1, 2}
  MaxTime = 1
  OptionCount = 1
  GrantInputs <- MCOneGrantInput
SYMMETRY Symmetric
INVARIANT FullRefund
