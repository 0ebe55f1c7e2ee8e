-------------------------- MODULE MCImpactEscrowV1 --------------------------
(***************************************************************************)
(* Small instances of ImpactEscrowV1 for TLC.                              *)
(***************************************************************************)
EXTENDS ImpactEscrowV1, TLC

Policy(enabled, min, max) ==
  [enabled_for_new_vaults |-> enabled, min_contribution |-> min, max_goal |-> max]

MCInitPolicy     == Policy(TRUE, 1, 9)
MCNoPolicyInputs == {}

\* A tightened policy, one that disables the asset, and an invalid one.
MCPolicyInputs == {Policy(TRUE, 2, 9), Policy(FALSE, 1, 9), Policy(TRUE, 3, 2)}

\* Uneven milestones: the pool left after the first release does not divide
\* evenly among the contributors.
MCPlanInputs == {<<3, 4>>, <<1, 2>>}

\* The bound of the instance: either one vault with a goal of 7, three
\* contributors and a moving clock, or two vaults with a goal of 3 that may
\* share an asset, two contributors, and a governor who changes the policies.
OneVault ==
  /\ Cardinality(Opened) <= 1
  /\ \A p \in Opened : vault[p].goal = 7
  /\ asset_policy = [a \in Assets |-> IF a = InitAsset THEN InitPolicy ELSE None]

TwoVaults ==
  /\ now = 0
  /\ \A p \in Opened : vault[p].goal = 3 /\ vault[p].max_contribution_bps = BPS_DENOMINATOR
  /\ Cardinality({c \in Contributors : \E p \in Projects : contribution[p][c] > 0}) <= 2
  /\ \A p \in Projects, c \in Contributors : contribution[p][c] <= 2

OneOrTwoVaults == OneVault \/ TwoVaults

\* Vaults and contributors are interchangeable in the safety properties.
Interchangeable == Permutations(Projects) \cup Permutations(Contributors)

\* Amounts whose products come close to TLC's own integers.
MCLargePolicy == Policy(TRUE, 1, 40000)
MCLargePlan   == {<<20000, 20000>>}
=============================================================================
