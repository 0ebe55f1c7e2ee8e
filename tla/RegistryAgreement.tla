------------------------- MODULE RegistryAgreement --------------------------
(***************************************************************************)
(* The registry and the escrow, composed, implement the agreement between  *)
(* the contributors and the creator of a project.                          *)
(***************************************************************************)
EXTENDS ImpactRegistryV1

\* The status is the registry's; how much has been paid, the escrow's.
Phase(p) ==
  CASE vault[p] = NoVault               -> "proposed"
    [] vault[p] # NoVault /\ vault[p].refundable -> "returning"
    [] HasStatus(p, "Funding")          -> "funding"
    [] HasStatus(p, "Funded")           -> "funded"
    [] HasStatus(p, "Active")           -> "delivering"
    [] HasStatus(p, "Disputed")         -> "delivering"
    [] HasStatus(p, "Completed")        -> "completed"

Plan(p) == IF vault[p] = NoVault THEN <<>> ELSE vault[p].milestone_amounts

PaidSoFar(p) == IF vault[p] = NoVault THEN 0 ELSE vault[p].next_milestone

Held(p) ==
  IF vault[p] = NoVault THEN 0
  ELSE vault[p].deposited - vault[p].released - vault[p].refunded_total

Repaid(p) == {c \in Contributors : refund_receipt[p][c] # None}

Agreement == INSTANCE FundingAgreement WITH
  Plans           <- {input.amounts : input \in ProjectInputs},
  MinContributors <- Policy.min_contributors,
  phase           <- [p \in Projects |-> Phase(p)],
  plan            <- [p \in Projects |-> Plan(p)],
  given           <- contribution,
  paid            <- [p \in Projects |-> PaidSoFar(p)],
  repaid          <- [p \in Projects |-> Repaid(p)],
  held            <- [p \in Projects |-> Held(p)]

(***************************************************************************)
(* Every step of the two contracts is a step of the agreement or leaves it *)
(* alone: funding closes with the gift that meets the goal, delivery needs *)
(* enough contributors, the milestones are paid in order and in full, what *)
(* is not paid goes back to its givers to the last unit, and a completed   *)
(* project owes nobody anything.                                           *)
(***************************************************************************)
ImplementsAgreement == Agreement!Spec
=============================================================================
