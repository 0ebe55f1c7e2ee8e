-------------------------- MODULE MCGrantRegistry --------------------------
(***************************************************************************)
(* Small instances of GrantRegistry for TLC.                               *)
(***************************************************************************)
EXTENDS GrantRegistry, TLC

CONSTANT xlm

Input(goal, amounts, approval_bps, quorum_bps) ==
  [asset |-> xlm, category |-> 0, goal |-> goal, deadline |-> 1, amounts |-> amounts,
   approval_bps |-> approval_bps, quorum_bps |-> quorum_bps]

\* Two valid grants of unlike thresholds, and one whose amounts miss the goal.
MCGrantInputs ==
  {Input(3, <<1, 2>>, 6000, 5000), Input(3, <<2, 1>>, 5000, 10000),
   Input(4, <<1, 2>>, 6000, 5000)}

MCOneGrantInput == {Input(3, <<1, 2>>, 6000, 5000)}

Symmetric == Permutations(Contributors)
=============================================================================
