------------------------- MODULE MCImpactRegistryV1 -------------------------
(***************************************************************************)
(* Small instances of ImpactRegistryV1 for TLC.                            *)
(***************************************************************************)
EXTENDS ProjectPage, TLC

CONSTANTS creator, r1, r2, a1, a2, c1, c2   \* wallets
CONSTANT xlm                                \* an asset
CONSTANT meta                               \* a metadata hash

AssetTerms(enabled, min, max) ==
  [enabled_for_new_vaults |-> enabled, min_contribution |-> min, max_goal |-> max]

MCInitPolicy     == AssetTerms(TRUE, 1, 9)
\* A policy that disables the asset for new projects and raises the least
\* contribution over what is missing from a half-funded goal.
MCPolicyInputs   == {AssetTerms(FALSE, 3, 9)}

\* Two of two reviewers and arbitrators, all windows one tick, no grace.
MCPolicy(attempts, contribution_bps, vote_power_bps) ==
  [reviewer_count |-> 2, reviewer_threshold |-> 2,
   arbitrator_count |-> 2, arbitrator_threshold |-> 2,
   min_contributors |-> 2, max_attempts |-> attempts,
   quorum_bps |-> 6000, approval_bps |-> 6000, dispute_bps |-> 6000,
   max_contribution_bps |-> contribution_bps, max_vote_power_bps |-> vote_power_bps,
   max_funding_window |-> 2, activation_window |-> 1,
   review_start_grace |-> 0, review_window |-> 1, vote_start_grace |-> 0,
   voting_window |-> 1, arbitration_window |-> 1, rework_window |-> 1]

\* Half of the goal each: the vote is decided by two equal voices.
MCOneAttempt == MCPolicy(1, 5000, 5000)

\* A contributor may fund the whole goal, and has at most half of the votes.
MCTwoAttempts == MCPolicy(2, 10000, 5000)

MCInput(reviewers, arbitrators, amounts) ==
  [creator |-> creator, payout |-> creator, asset |-> xlm, category |-> 0,
   metadata |-> meta, goal |-> SumSeq(amounts), funding_deadline |-> 1,
   amounts |-> amounts, delivery_windows |-> [m \in DOMAIN amounts |-> 1],
   reviewers |-> reviewers, arbitrators |-> arbitrators]

\* The second and the third do not keep the roles apart.
MCProjectInputs ==
  {MCInput({r1, r2}, {a1, a2}, <<2, 2>>),
   MCInput({r1, r2}, {r1, a2}, <<2, 2>>),
   MCInput({r1, creator}, {a1, a2}, <<2, 2>>)}

\* A project that may still be created after a pause, with an odd goal: the cap
\* on voting power is rounded down.
OddGoal == 3
MCLateInputs ==
  {[MCInput({r1, r2}, {a1, a2}, <<1, 2>>) EXCEPT !.funding_deadline = 2]}

MCAllInputs == MCProjectInputs \cup MCLateInputs

Seats == Permutations({r1, r2}) \cup Permutations({a1, a2}) \cup Permutations({c1, c2})

-----------------------------------------------------------------------------
(* Which histories are followed: one kind or the other, not their product. *)

Rotated  == registry_governor # InitGovernor \/ registry_pending # None
Repriced == registry_policy[xlm] # MCInitPolicy
Quiet    == registry_clock = RunningClock /\ ~Rotated /\ ~Repriced

\* The project with the odd goal, funded in every way, meets pauses at any time,
\* a rotation until its first review and a new policy until delivery begins.
Administered(p) ==
  /\ now <= 3
  /\ ~(Rotated /\ Repriced)
  /\ p \in Created =>
       /\ project[p].goal = OddGoal
       /\ Rotated => milestones[p][0].status \in {"Pending", "EvidenceSubmitted"}
       /\ Repriced => project[p].status \in {"Draft", "Funding", "Funded"}
       /\ \A i \in DOMAIN milestones[p] :
            /\ milestones[p][i].attempt = 1
            /\ milestones[p][i].arbitration_approve + milestones[p][i].arbitration_rework = 0

\* Any other project meets a quiet administration, and all that its people may
\* do; each contributor pays at once.
Delivered(p) ==
  /\ Quiet
  /\ p \in Created => project[p].goal # OddGoal
  /\ \A c \in Contributors : contribution[p][c] \in {0, 2}

\* A draft that was changed is followed until it has been funded.
Redrafted(p) == p \in Created /\ project[p].metadata # meta

Followed == \A p \in Projects :
  /\ Administered(p) \/ Delivered(p)
  /\ Redrafted(p) => project[p].status \in {"Draft", "Funding"} /\ now <= 1
=============================================================================
