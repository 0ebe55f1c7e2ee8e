-------------------------- MODULE ImpactRegistryV1 --------------------------
(***************************************************************************)
(* The V1 registry contract composed with the V1 escrow contract.          *)
(*                                                                         *)
(* The registry holds every decision (project lifecycle, roles, evidence,  *)
(* review, contributor vote, arbitration, timeouts, governance) and the    *)
(* escrow holds the money.  A registry method that calls the escrow runs   *)
(* in the same transaction: its action is the conjunction of the           *)
(* registry's own change and the escrow's action, so that an error in      *)
(* either contract disables the whole step.                                *)
(*                                                                         *)
(* Abstractions.  Identifiers, hashes and categories are members of small  *)
(* sets.  Evidence, attestation, vote and arbitration receipts are keyed   *)
(* by milestone and attempt in the contract, and only those of the current *)
(* milestone's current attempt are ever read again: receipts[p] keeps just *)
(* those, and is emptied when the attempt or the current milestone moves   *)
(* on.  Every project uses the immutable policy given to initialize.       *)
(***************************************************************************)
EXTENDS ImpactEscrowV1

CONSTANTS
  Wallets,        \* wallets that may hold a project role, or vote
  Policy,         \* the ProtocolPolicy given to initialize
  OptionCount,    \* external: options of the Signals poll
  ProjectInputs,  \* arguments of create_project that are tried
  MetadataInputs, \* metadata hashes a creator may write into a draft
  Hashes,         \* evidence content hashes
  Arbitrations,   \* arbitration decisions the arbitrators may take
  ModeInputs,     \* pause modes that may be requested
  GovernorInputs, \* accounts that may be proposed as governor
  NoProject       \* an absent Project entry

ReviewerDecisions    == {"Verify", "Reject"}
ContributorDecisions == {"Approve", "Dispute"}
ArbitrationDecisions == {"ApproveRelease", "RejectMilestone", "RequireRework"}

ProjectStatus == {"Draft", "Funding", "Funded", "Active", "Completed",
                  "Failed", "Cancelled", "Disputed"}
MilestoneStatus == {"Pending", "EvidenceSubmitted", "UnderReview", "Verified",
                    "Voting", "Disputed", "Approved", "Rejected", "Released"}

ValidPolicy(policy) ==
  /\ policy.reviewer_count \in 2..5
  /\ policy.reviewer_threshold \in 1..policy.reviewer_count
  /\ policy.arbitrator_count \in 2..5
  /\ policy.arbitrator_threshold \in 1..policy.arbitrator_count
  /\ policy.min_contributors >= 2
  /\ policy.max_attempts > 0
  /\ \A bps \in {policy.quorum_bps, policy.approval_bps, policy.dispute_bps,
                 policy.max_contribution_bps} : bps \in 1..BPS_DENOMINATOR
  /\ policy.max_vote_power_bps \in 1..policy.max_contribution_bps
  /\ \A window \in {policy.max_funding_window, policy.activation_window,
                    policy.review_window, policy.voting_window,
                    policy.arbitration_window, policy.rework_window} : window > 0

\* The fields of a policy that this model reads.
ProtocolPolicy ==
  [reviewer_count : Nat, reviewer_threshold : Nat,
   arbitrator_count : Nat, arbitrator_threshold : Nat,
   min_contributors : Nat, max_attempts : Nat,
   quorum_bps : Nat, approval_bps : Nat, dispute_bps : Nat,
   max_contribution_bps : Nat, max_vote_power_bps : Nat,
   max_funding_window : Nat, activation_window : Nat,
   review_start_grace : Nat, review_window : Nat, vote_start_grace : Nat,
   voting_window : Nat, arbitration_window : Nat, rework_window : Nat]

\* The arguments of create_project, the milestones as two sequences.
ProjectInput ==
  [creator : Wallets, payout : Wallets, asset : Assets, category : Nat,
   metadata : MetadataInputs, goal : Int, funding_deadline : Nat,
   amounts : Seq(Int), delivery_windows : Seq(Nat),
   reviewers : SUBSET Wallets, arbitrators : SUBSET Wallets]

Attempts == 1..Policy.max_attempts

Milestone == [amount : Nat \ {0}, delivery_window : Nat \ {0},
              status : MilestoneStatus, attempt : Attempts,
              evidence_due_at : Nat, stage_started_at : Nat, review_deadline : Nat,
              voting_deadline : Nat, dispute_deadline : Nat, rework_deadline : Nat,
              verify_count : Nat, reject_count : Nat, approve_weight : Nat,
              dispute_weight : Nat, arbitration_approve : Nat,
              arbitration_reject : Nat, arbitration_rework : Nat]

Project == [creator : Wallets, payout : Wallets, asset : Assets,
            metadata : MetadataInputs, goal : Nat \ {0}, funding_deadline : Nat,
            status : ProjectStatus, current_milestone : 0..4,
            contributor_count : Nat, eligible_voting_power : Nat,
            funded_at : Nat, activation_deadline : Nat,
            reviewers : SUBSET Wallets, arbitrators : SUBSET Wallets]

ASSUME RegistryAssumption ==
  /\ IsFiniteSet(Wallets)
  /\ Projects \subseteq Nat
  /\ Contributors \subseteq Wallets
  /\ None \notin Hashes \cup ReviewerDecisions \cup ContributorDecisions
                       \cup ArbitrationDecisions
  /\ NoProject \notin Project
  /\ Policy \in ProtocolPolicy
  /\ ValidPolicy(Policy)
  /\ ProjectInputs \subseteq ProjectInput
  /\ \A input \in ProjectInputs : Len(input.delivery_windows) = Len(input.amounts)
  /\ Arbitrations \subseteq ArbitrationDecisions
  /\ ModeInputs \subseteq PauseModes
  /\ GovernorInputs \subseteq Accounts

VARIABLES
  registry_clock,     \* the registry's own pause_mode and paused seconds
  registry_governor,
  registry_pending,
  registry_policy,    \* the registry's own AssetPolicy entries
  next_project_id,
  project,            \* Project(id), NoProject when absent
  milestones,         \* Milestones(id): a function from milestone indices
  accepted,           \* RoleAccepted(id, role, wallet), a set of wallets per role
  receipts            \* evidence and ballots of the current attempt

registry_admin == <<registry_clock, registry_governor, registry_pending,
                    registry_policy>>
project_vars   == <<next_project_id, project, milestones, accepted, receipts>>
vars           == <<escrow_vars, registry_admin, project_vars>>

RegistryNow == Effective(registry_clock, now)

NewActivity == AcceptsNewActivity(registry_clock)

RiskyMutationsInOtherPause == registry_clock.pause_mode # "PauseNewActivity"

RiskyMutations == AcceptsRiskyMutations(registry_clock)

NoReceipts == [evidence   |-> None,
               attested   |-> [w \in Wallets |-> None],
               voted      |-> [w \in Wallets |-> None],
               arbitrated |-> [w \in Wallets |-> None]]

-----------------------------------------------------------------------------
(* Arithmetic of the protocol.  Amounts are taken to be small enough for   *)
(* the registry's own products with basis points to fit an i128.           *)

\* The lesser of a contribution and the per-contributor cap on voting power.
VotingPower(goal, amount) ==
  LET cap == (goal * Policy.max_vote_power_bps) \div BPS_DENOMINATOR
  IN  IF amount < cap THEN amount ELSE cap

RatioReached(numerator, denominator, threshold_bps) ==
  /\ denominator > 0
  /\ numerator * BPS_DENOMINATOR >= denominator * threshold_bps

\* validate_project_input, at ledger time now.
ValidProjectInput(input) ==
  LET policy == registry_policy[input.asset] IN
  /\ input.goal > 0
  /\ input.funding_deadline > now
  /\ input.funding_deadline <= now + Policy.max_funding_window
  /\ policy # None
  /\ policy.enabled_for_new_vaults
  /\ input.goal <= policy.max_goal
  /\ (input.goal * Policy.max_contribution_bps) \div BPS_DENOMINATOR
       >= policy.min_contribution
  /\ input.goal >= policy.min_contribution * Policy.min_contributors
  /\ Len(input.amounts) \in 2..5
  /\ \A m \in 1..Len(input.amounts) :
       input.amounts[m] > 0 /\ input.delivery_windows[m] > 0
  /\ SumSeq(input.amounts) = input.goal

ValidRolesApartFromEachOther(input) ==
  LET interested == {input.creator, input.payout} IN
  /\ Cardinality(input.reviewers) = Policy.reviewer_count
  /\ Cardinality(input.arbitrators) = Policy.arbitrator_count
  /\ (input.reviewers \cup input.arbitrators) \cap interested = {}

\* validate_roles: the seats are filled by distinct, independent wallets.
ValidRoles(input) ==
  LET interested == {input.creator, input.payout} IN
  /\ Cardinality(input.reviewers) = Policy.reviewer_count
  /\ Cardinality(input.arbitrators) = Policy.arbitrator_count
  /\ input.reviewers \cap (interested \cup input.arbitrators) = {}
  /\ input.arbitrators \cap interested = {}

HasProjectRole(pr, w) == w \in pr.reviewers \cup pr.arbitrators

\* A wallet with a role in the project, its creator and its payout address
\* neither contribute nor vote.
Conflicted(pr, w) == HasProjectRole(pr, w) \/ w \in {pr.creator, pr.payout}

AllRolesAccepted(p) ==
  /\ project[p].reviewers \subseteq accepted[p].reviewers
  /\ project[p].arbitrators \subseteq accepted[p].arbitrators

-----------------------------------------------------------------------------
(* Milestone records.                                                      *)

NewMilestone(amount, delivery_window) ==
  [amount |-> amount, delivery_window |-> delivery_window, status |-> "Pending",
   attempt |-> 1, evidence_due_at |-> 0, stage_started_at |-> RegistryNow,
   review_deadline |-> 0, voting_deadline |-> 0, dispute_deadline |-> 0,
   rework_deadline |-> 0, verify_count |-> 0, reject_count |-> 0,
   approve_weight |-> 0, dispute_weight |-> 0, arbitration_approve |-> 0,
   arbitration_reject |-> 0, arbitration_rework |-> 0]

Entered(m, status) ==
  [m EXCEPT !.status = status, !.stage_started_at = RegistryNow]

\* mark_rejected
MarkRejected(m) ==
  [Entered(m, "Rejected") EXCEPT !.rework_deadline = RegistryNow + Policy.rework_window]

CanReworkOnceMore(m) == m.attempt <= Policy.max_attempts

CanRework(m) == m.attempt < Policy.max_attempts

ResetForReworkKeepingBallots(m) ==
  [Entered(m, "Pending") EXCEPT
     !.attempt = @ + 1, !.evidence_due_at = RegistryNow + Policy.rework_window]

ResetForReworkSameAttempt(m) ==
  [NewMilestone(m.amount, m.delivery_window) EXCEPT
     !.attempt = m.attempt, !.evidence_due_at = RegistryNow + Policy.rework_window]

\* reset_for_rework, once CanRework(m)
ResetForRework(m) ==
  [NewMilestone(m.amount, m.delivery_window) EXCEPT
     !.attempt = m.attempt + 1, !.evidence_due_at = RegistryNow + Policy.rework_window]

\* The milestone whose delivery window starts now.
Started(m) ==
  [m EXCEPT !.evidence_due_at = RegistryNow + m.delivery_window,
            !.stage_started_at = RegistryNow]

Current(p) == project[p].current_milestone

\* Milestone i of project p becomes m, and nothing else in the registry moves.
SetMilestone(p, i, m) == milestones' = [milestones EXCEPT ![p][i] = m]

SetStatus(p, status) == project' = [project EXCEPT ![p].status = status]

ActiveAt(p, i) ==
  /\ project[p] # NoProject
  /\ project[p].status = "Active"
  /\ i \in DOMAIN milestones[p]

ActiveAtCurrent(p, i) == ActiveAt(p, i) /\ Current(p) = i

-----------------------------------------------------------------------------

RegistryInit ==
  /\ EscrowInit
  /\ registry_clock = RunningClock
  /\ registry_governor = InitGovernor
  /\ registry_pending = None
  /\ registry_policy = [a \in Assets |-> IF a = InitAsset THEN InitPolicy ELSE None]
  /\ next_project_id = 1
  /\ project = [p \in Projects |-> NoProject]
  /\ milestones = [p \in Projects |-> <<>>]
  /\ accepted = [p \in Projects |-> [reviewers |-> {}, arbitrators |-> {}]]
  /\ receipts = [p \in Projects |-> NoReceipts]

(* Drafts and roles.                                                       *)

CreateProject(input) ==
  LET p == next_project_id IN
  /\ p \in Projects
  /\ NewActivity
  /\ ValidProjectInput(input)
  /\ ValidRoles(input)
  /\ input.category < OptionCount
  /\ next_project_id' = p + 1
  /\ project' = [project EXCEPT ![p] =
       [creator |-> input.creator, payout |-> input.payout, asset |-> input.asset,
        metadata |-> input.metadata, goal |-> input.goal,
        funding_deadline |-> RegistryNow + (input.funding_deadline - now),
        status |-> "Draft", current_milestone |-> 0, contributor_count |-> 0,
        eligible_voting_power |-> 0, funded_at |-> 0, activation_deadline |-> 0,
        reviewers |-> input.reviewers, arbitrators |-> input.arbitrators]]
  /\ milestones' = [milestones EXCEPT ![p] =
       [i \in 0..(Len(input.amounts) - 1) |->
          NewMilestone(input.amounts[i + 1], input.delivery_windows[i + 1])]]
  /\ UNCHANGED <<escrow_vars, registry_admin, accepted, receipts>>

HasStatus(p, status) == project[p] # NoProject /\ project[p].status = status

UpdateDraft(p, metadata) ==
  /\ NewActivity
  /\ HasStatus(p, "Draft")
  /\ project' = [project EXCEPT ![p].metadata = metadata]
  /\ UNCHANGED <<escrow_vars, registry_admin, next_project_id, milestones,
                 accepted, receipts>>

\* accept_reviewer and accept_arbitrator; role is the field of the roster.
AcceptRole(p, role, w) ==
  /\ NewActivity
  /\ HasStatus(p, "Draft")
  /\ w \in project[p][role] \ accepted[p][role]
  /\ accepted' = [accepted EXCEPT ![p][role] = @ \cup {w}]
  /\ UNCHANGED <<escrow_vars, registry_admin, next_project_id, project,
                 milestones, receipts>>

(* Funding.                                                                *)

OpenFunding(p) ==
  LET pr == project[p] IN
  /\ NewActivity
  /\ HasStatus(p, "Draft")
  /\ AllRolesAccepted(p)
  /\ OpenVault(p, pr.asset, pr.goal, pr.funding_deadline,
       [m \in 1..Cardinality(DOMAIN milestones[p]) |-> milestones[p][m - 1].amount],
       Policy.max_contribution_bps)
  /\ SetStatus(p, "Funding")
  /\ UNCHANGED <<registry_admin, next_project_id, milestones, accepted, receipts>>

FundedNow(pr) ==
  [pr EXCEPT !.status = "Funded", !.funded_at = RegistryNow,
             !.activation_deadline = RegistryNow + Policy.activation_window]

CreditedByCall(pr, previous, amount) ==
  [pr EXCEPT !.eligible_voting_power = @ + VotingPower(pr.goal, amount),
             !.contributor_count = IF previous = 0 THEN @ + 1 ELSE @]

\* The project after a contributor's total rises from previous by amount.
Credited(pr, previous, amount) ==
  [pr EXCEPT !.eligible_voting_power =
               @ + VotingPower(pr.goal, previous + amount) - VotingPower(pr.goal, previous),
             !.contributor_count = IF previous = 0 THEN @ + 1 ELSE @]

Contribute(p, c, amount) ==
  LET pr    == project[p]
      after == Credited(pr, contribution[p][c], amount)
  IN
  /\ NewActivity
  /\ amount > 0
  /\ HasStatus(p, "Funding")
  /\ RegistryNow < pr.funding_deadline
  /\ ~Conflicted(pr, c)
  /\ \/ /\ vault[p].deposited + amount # pr.goal
        /\ Deposit(p, c, amount)
        /\ project' = [project EXCEPT ![p] = after]
     \/ /\ vault[p].deposited + amount = pr.goal
        /\ DepositThenLock(p, c, amount)
        /\ project' = [project EXCEPT ![p] = FundedNow(after)]
  /\ UNCHANGED <<registry_admin, next_project_id, milestones, accepted, receipts>>

\* The first branch is what the code does for a goal that is met but not yet
\* locked; contribute locks in the same transaction, so it is never taken.
FinalizeFunding(p) ==
  /\ RiskyMutations
  /\ HasStatus(p, "Funding")
  /\ IF vault[p].deposited = project[p].goal
     THEN /\ LockFunding(p)
          /\ project' = [project EXCEPT ![p] = FundedNow(@)]
     ELSE /\ RegistryNow >= project[p].funding_deadline
          /\ EnableRefunds(p)
          /\ SetStatus(p, "Failed")
  /\ UNCHANGED <<registry_admin, next_project_id, milestones, accepted, receipts>>

AnyContributors(pr) == pr.contributor_count > 0

EnoughContributors(pr) == pr.contributor_count >= Policy.min_contributors

ActivateProject(p) ==
  /\ RiskyMutations
  /\ HasStatus(p, "Funded")
  /\ \/ /\ ~EnoughContributors(project[p])
        /\ RegistryNow >= project[p].activation_deadline
        /\ EnableRefunds(p)
        /\ SetStatus(p, "Cancelled")
        /\ UNCHANGED milestones
     \/ /\ EnoughContributors(project[p])
        /\ SetStatus(p, "Active")
        /\ SetMilestone(p, 0, Started(milestones[p][0]))
        /\ UNCHANGED escrow_vars
  /\ UNCHANGED <<registry_admin, next_project_id, accepted, receipts>>

CancelProject(p) ==
  /\ RiskyMutations
  /\ \/ HasStatus(p, "Draft")   /\ UNCHANGED escrow_vars
     \/ HasStatus(p, "Funding") /\ EnableRefunds(p)
  /\ SetStatus(p, "Cancelled")
  /\ UNCHANGED <<registry_admin, next_project_id, milestones, accepted, receipts>>

(* Evidence and review of the current milestone.                           *)

\* What a decision of the registry alone leaves alone.
DecisionOnly == UNCHANGED <<escrow_vars, registry_admin, next_project_id, accepted>>

SubmitEvidence(p, i, attempt, hash) ==
  LET m == milestones[p][i] IN
  /\ RiskyMutations
  /\ ActiveAtCurrent(p, i)
  /\ m.status = "Pending"
  /\ m.attempt = attempt
  /\ RegistryNow < m.evidence_due_at
  /\ receipts[p].evidence = None
  /\ SetMilestone(p, i, Entered(m, "EvidenceSubmitted"))
  /\ receipts' = [receipts EXCEPT ![p].evidence = hash]
  /\ DecisionOnly
  /\ UNCHANGED project

OpenReview(p, i) ==
  LET m == milestones[p][i] IN
  /\ RiskyMutations
  /\ ActiveAtCurrent(p, i)
  /\ m.status = "EvidenceSubmitted"
  /\ SetMilestone(p, i, [Entered(m, "UnderReview") EXCEPT
                           !.review_deadline = RegistryNow + Policy.review_window])
  /\ DecisionOnly
  /\ UNCHANGED <<project, receipts>>

Attested(m, decision) ==
  [m EXCEPT !.verify_count = IF decision = "Verify" THEN @ + 1 ELSE @,
            !.reject_count = IF decision = "Reject" THEN @ + 1 ELSE @]

AfterAttestation(m) ==
  IF m.verify_count >= Policy.reviewer_threshold THEN Entered(m, "Verified")
  ELSE IF m.reject_count >= Policy.reviewer_threshold THEN MarkRejected(m)
  ELSE m

\* The evidence a ballot names is the evidence on file for its attempt.
CitesEvidence(p, m, attempt, hash) ==
  m.attempt = attempt /\ receipts[p].evidence = hash

Attest(p, i, w, attempt, hash, decision) ==
  LET m == milestones[p][i] IN
  /\ RiskyMutations
  /\ ActiveAtCurrent(p, i)
  /\ w \in project[p].reviewers \cap accepted[p].reviewers
  /\ m.status = "UnderReview"
  /\ RegistryNow < m.review_deadline
  /\ CitesEvidence(p, m, attempt, hash)
  /\ receipts[p].attested[w] = None
  /\ SetMilestone(p, i, AfterAttestation(Attested(m, decision)))
  /\ receipts' = [receipts EXCEPT ![p].attested[w] = decision]
  /\ DecisionOnly
  /\ UNCHANGED project

\* finalize_review does not ask for the current milestone.
FinalizeReview(p, i) ==
  LET m == milestones[p][i] IN
  /\ RiskyMutations
  /\ ActiveAt(p, i)
  /\ m.status = "UnderReview"
  /\ RegistryNow >= m.review_deadline
  /\ SetMilestone(p, i, MarkRejected(m))
  /\ DecisionOnly
  /\ UNCHANGED <<project, receipts>>

(* The contributors' vote.                                                 *)

OpenVoting(p, i) ==
  LET m == milestones[p][i] IN
  /\ RiskyMutations
  /\ ActiveAtCurrent(p, i)
  /\ m.status = "Verified"
  /\ SetMilestone(p, i, [Entered(m, "Voting") EXCEPT
                           !.voting_deadline = RegistryNow + Policy.voting_window])
  /\ DecisionOnly
  /\ UNCHANGED <<project, receipts>>

Weighed(m, decision, weight) ==
  [m EXCEPT !.approve_weight = IF decision = "Approve" THEN @ + weight ELSE @,
            !.dispute_weight = IF decision = "Dispute" THEN @ + weight ELSE @]

Disputed(m) ==
  [Entered(m, "Disputed") EXCEPT
     !.dispute_deadline = RegistryNow + Policy.arbitration_window]

Vote(p, i, c, attempt, hash, decision) ==
  LET pr     == project[p]
      m      == milestones[p][i]
      weight == VotingPower(pr.goal, contribution[p][c])
      after  == Weighed(m, decision, weight)
  IN
  /\ RiskyMutations
  /\ ActiveAtCurrent(p, i)
  /\ ~Conflicted(pr, c)
  /\ m.status = "Voting"
  /\ RegistryNow < m.voting_deadline
  /\ CitesEvidence(p, m, attempt, hash)
  /\ receipts[p].voted[c] = None
  /\ weight > 0
  /\ IF RatioReached(after.dispute_weight, pr.eligible_voting_power, Policy.dispute_bps)
     THEN SetMilestone(p, i, Disputed(after)) /\ SetStatus(p, "Disputed")
     ELSE SetMilestone(p, i, after) /\ UNCHANGED project
  /\ receipts' = [receipts EXCEPT ![p].voted[c] = decision]
  /\ DecisionOnly

ApprovedByVoteWithoutQuorum(pr, m) ==
  RatioReached(m.approve_weight, m.approve_weight + m.dispute_weight, Policy.approval_bps)

ApprovedByVote(pr, m) ==
  LET participation == m.approve_weight + m.dispute_weight IN
  /\ RatioReached(participation, pr.eligible_voting_power, Policy.quorum_bps)
  /\ RatioReached(m.approve_weight, participation, Policy.approval_bps)

FinalizeVote(p, i) ==
  LET m == milestones[p][i] IN
  /\ RiskyMutations
  /\ ActiveAt(p, i)
  /\ m.status = "Voting"
  /\ RegistryNow >= m.voting_deadline
  /\ SetMilestone(p, i, IF ApprovedByVote(project[p], m)
                        THEN Entered(m, "Approved") ELSE MarkRejected(m))
  /\ DecisionOnly
  /\ UNCHANGED <<project, receipts>>

(* Disputes and rework.                                                    *)

Judged(m, decision) ==
  [m EXCEPT
     !.arbitration_approve = IF decision = "ApproveRelease"  THEN @ + 1 ELSE @,
     !.arbitration_reject  = IF decision = "RejectMilestone" THEN @ + 1 ELSE @,
     !.arbitration_rework  = IF decision = "RequireRework"   THEN @ + 1 ELSE @]

\* arbitrate and finalize_dispute do not ask for the current milestone.
DisputedAt(p, i) ==
  /\ HasStatus(p, "Disputed")
  /\ i \in DOMAIN milestones[p]
  /\ milestones[p][i].status = "Disputed"

Arbitrate(p, i, w, attempt, decision) ==
  LET m == milestones[p][i] IN
  /\ RiskyMutations
  /\ DisputedAt(p, i)
  /\ w \in project[p].arbitrators \cap accepted[p].arbitrators
  /\ m.attempt = attempt
  /\ RegistryNow < m.dispute_deadline
  /\ receipts[p].arbitrated[w] = None
  /\ SetMilestone(p, i, Judged(m, decision))
  /\ receipts' = [receipts EXCEPT ![p].arbitrated[w] = decision]
  /\ DecisionOnly
  /\ UNCHANGED project

FailProjectAlone(p) == SetStatus(p, "Failed") /\ UNCHANGED escrow_vars

FailProject(p) == SetStatus(p, "Failed") /\ EnableRefunds(p)

VerdictWithoutTimeout(m) ==
  LET threshold == Policy.arbitrator_threshold IN
  IF m.arbitration_approve >= threshold THEN "ApproveRelease"
  ELSE IF m.arbitration_rework >= threshold THEN "RequireRework"
  ELSE IF m.arbitration_reject >= threshold THEN "RejectMilestone"
  ELSE "DisputeOpen"

\* The first verdict that reached the threshold, in the order the code asks;
\* a dispute without one is rejected once its deadline has passed.
Verdict(m) ==
  LET threshold == Policy.arbitrator_threshold IN
  IF m.arbitration_approve >= threshold THEN "ApproveRelease"
  ELSE IF m.arbitration_rework >= threshold THEN "RequireRework"
  ELSE IF m.arbitration_reject >= threshold \/ RegistryNow >= m.dispute_deadline
       THEN "RejectMilestone"
  ELSE "DisputeOpen"

FinalizeDispute(p, i) ==
  LET m == milestones[p][i] IN
  /\ RiskyMutations
  /\ DisputedAt(p, i)
  /\ \/ /\ Verdict(m) = "ApproveRelease"
        /\ SetMilestone(p, i, Entered(m, "Approved"))
        /\ SetStatus(p, "Active")
        /\ UNCHANGED <<escrow_vars, receipts>>
     \/ /\ Verdict(m) = "RequireRework"
        /\ CanRework(m)
        /\ SetMilestone(p, i, ResetForRework(m))
        /\ SetStatus(p, "Active")
        /\ receipts' = [receipts EXCEPT ![p] = NoReceipts]
        /\ UNCHANGED escrow_vars
     \/ /\ Verdict(m) = "RejectMilestone"
        /\ SetMilestone(p, i, Entered(m, "Rejected"))
        /\ FailProject(p)
        /\ UNCHANGED receipts
  /\ UNCHANGED <<registry_admin, next_project_id, accepted>>

\* start_rework does not ask for the current milestone either.
StartRework(p, i) ==
  LET m == milestones[p][i] IN
  /\ RiskyMutations
  /\ ActiveAt(p, i)
  /\ m.status = "Rejected"
  /\ RegistryNow < m.rework_deadline
  /\ CanRework(m)
  /\ SetMilestone(p, i, ResetForRework(m))
  /\ receipts' = [receipts EXCEPT ![p] = NoReceipts]
  /\ DecisionOnly
  /\ UNCHANGED project

(* Release.                                                                *)

ReleaseApproved(p, i) ==
  LET m    == milestones[p][i]
      paid == [milestones[p] EXCEPT ![i] = Entered(m, "Released")]
  IN
  /\ RiskyMutations
  /\ ActiveAtCurrent(p, i)
  /\ m.status = "Approved"
  /\ ReleaseMilestone(p, i, m.amount)
  /\ \/ /\ i + 1 \notin DOMAIN milestones[p]
        /\ SetStatus(p, "Completed")
        /\ milestones' = [milestones EXCEPT ![p] = paid]
        /\ UNCHANGED receipts
     \/ /\ i + 1 \in DOMAIN milestones[p]
        /\ project' = [project EXCEPT ![p].current_milestone = i + 1]
        /\ milestones' = [milestones EXCEPT ![p] =
                            [paid EXCEPT ![i + 1] = Started(@)]]
        /\ receipts' = [receipts EXCEPT ![p] = NoReceipts]
  /\ UNCHANGED <<registry_admin, next_project_id, accepted>>

(* Timeouts.                                                               *)

\* timeout_to_rejected: no evidence in time; the last attempt fails the project.
RejectForTimeout(p, i) ==
  LET m == milestones[p][i] IN
  /\ SetMilestone(p, i, MarkRejected(m))
  /\ IF CanRework(m) THEN UNCHANGED <<escrow_vars, project>> ELSE FailProject(p)
  /\ UNCHANGED <<registry_admin, next_project_id, accepted, receipts>>

ApplyTimeoutWithoutFailure(p, i) ==
  LET m == milestones[p][i] IN
  \/ /\ m.status = "Pending"
     /\ RegistryNow >= m.evidence_due_at
     /\ RejectForTimeout(p, i)
  \/ RegistryNow >= m.stage_started_at + Policy.review_start_grace /\ OpenReview(p, i)
  \/ FinalizeReview(p, i)
  \/ RegistryNow >= m.stage_started_at + Policy.vote_start_grace /\ OpenVoting(p, i)
  \/ FinalizeVote(p, i)

ApplyTimeoutToCurrent(p, i) ==
  LET m == milestones[p][i] IN
  \/ /\ m.status = "Pending"
     /\ RegistryNow >= m.evidence_due_at
     /\ RejectForTimeout(p, i)
  \/ RegistryNow >= m.stage_started_at + Policy.review_start_grace /\ OpenReview(p, i)
  \/ FinalizeReview(p, i)
  \/ RegistryNow >= m.stage_started_at + Policy.vote_start_grace /\ OpenVoting(p, i)
  \/ FinalizeVote(p, i)
  \/ /\ m.status = "Rejected"
     /\ RegistryNow >= m.rework_deadline
     /\ FailProject(p)
     /\ UNCHANGED <<registry_admin, next_project_id, milestones, accepted, receipts>>

\* apply_timeout: whatever is due, by anyone.
ApplyTimeout(p) ==
  /\ RiskyMutations
  /\ \/ FinalizeFunding(p)
     \/ ActivateProject(p)
     \/ /\ HasStatus(p, "Disputed")
        /\ RegistryNow >= milestones[p][Current(p)].dispute_deadline
        /\ FinalizeDispute(p, Current(p))
     \/ HasStatus(p, "Active") /\ ApplyTimeoutToCurrent(p, Current(p))

(* Administration, which the registry carries out in both contracts.       *)

SetAssetPolicy(asset, policy) ==
  /\ SyncAssetPolicy(asset, policy)
  /\ registry_policy' = [registry_policy EXCEPT ![asset] = policy]
  /\ UNCHANGED <<registry_clock, registry_governor, registry_pending, project_vars>>

RegistryClockAfterRestarting(mode) == SetModeRestarting(registry_clock, mode, now)

RegistryClockAfter(mode) == SetMode(registry_clock, mode, now)

SetPauseMode(actor, mode) ==
  /\ MaySetMode(actor, registry_governor, PauseGuardian, registry_clock, mode)
  /\ EscrowSetPauseMode(actor, mode)
  /\ registry_clock' = RegistryClockAfter(mode)
  /\ UNCHANGED <<registry_governor, registry_pending, registry_policy, project_vars>>

ProposeGovernor(proposed) ==
  /\ EscrowProposeGovernor(proposed)
  /\ registry_pending' = proposed
  /\ UNCHANGED <<registry_clock, registry_governor, registry_policy, project_vars>>

AcceptGovernor ==
  /\ registry_pending # None
  /\ EscrowAcceptGovernor
  /\ registry_governor' = registry_pending
  /\ registry_pending' = None
  /\ UNCHANGED <<registry_clock, registry_policy, project_vars>>

-----------------------------------------------------------------------------

\* The signed calls of the holders of a role, and of the contributors.
ActorStep(p) ==
  \/ \E metadata \in MetadataInputs : UpdateDraft(p, metadata)
  \/ \E role \in {"reviewers", "arbitrators"}, w \in Wallets : AcceptRole(p, role, w)
  \/ OpenFunding(p) \/ CancelProject(p)
  \/ \E c \in Contributors, amount \in AmountInputs : Contribute(p, c, amount)
  \/ \E i \in DOMAIN milestones[p] :
       \/ StartRework(p, i)
       \/ \E attempt \in Attempts, hash \in Hashes :
            \/ SubmitEvidence(p, i, attempt, hash)
            \/ \E w \in Wallets, decision \in ReviewerDecisions :
                 Attest(p, i, w, attempt, hash, decision)
            \/ \E c \in Contributors, decision \in ContributorDecisions :
                 Vote(p, i, c, attempt, hash, decision)
       \/ \E attempt \in Attempts, w \in Wallets, decision \in Arbitrations :
            Arbitrate(p, i, w, attempt, decision)

\* The calls anyone may make.
PermissionlessStep(p) ==
  \/ FinalizeFunding(p) \/ ActivateProject(p) \/ ApplyTimeout(p)
  \/ \E i \in DOMAIN milestones[p] :
       \/ OpenReview(p, i) \/ FinalizeReview(p, i)
       \/ OpenVoting(p, i) \/ FinalizeVote(p, i)
       \/ FinalizeDispute(p, i)
       \/ ReleaseApproved(p, i)

AdminStep ==
  \/ \E a \in Assets, policy \in PolicyInputs : SetAssetPolicy(a, policy)
  \/ \E actor \in Accounts \cup {PauseGuardian}, mode \in ModeInputs :
       SetPauseMode(actor, mode)
  \/ \E proposed \in GovernorInputs : ProposeGovernor(proposed)
  \/ AcceptGovernor

RegistryTick == Tick /\ UNCHANGED <<registry_admin, project_vars>>

PayRefund(p, c) == ClaimRefund(p, c) /\ UNCHANGED <<registry_admin, project_vars>>

RegistryNext ==
  \/ RegistryTick
  \/ \E input \in ProjectInputs : CreateProject(input)
  \/ \E p \in Projects : ActorStep(p) \/ PermissionlessStep(p)
  \/ \E p \in Projects, c \in Contributors : PayRefund(p, c)
  \/ AdminStep

RegistrySpec == RegistryInit /\ [][RegistryNext]_vars

-----------------------------------------------------------------------------

Ballots(decisions) == [Wallets -> decisions \cup {None}]

RegistryTypeOK ==
  /\ ClockOK(registry_clock, now)
  /\ registry_governor \in Accounts
  /\ registry_pending \in Accounts \cup {None}
  /\ registry_policy \in [Assets -> AssetPolicy \cup {None}]
  /\ next_project_id \in Nat \ {0}
  /\ project \in [Projects -> Project \cup {NoProject}]
  /\ \A p \in Projects :
       IF project[p] = NoProject
       THEN milestones[p] = <<>>
       ELSE /\ \E n \in 2..5 : milestones[p] \in [0..(n - 1) -> Milestone]
            /\ Current(p) \in DOMAIN milestones[p]
  /\ accepted \in [Projects -> [reviewers : SUBSET Wallets,
                                arbitrators : SUBSET Wallets]]
  /\ receipts \in [Projects -> [evidence   : Hashes \cup {None},
                                attested   : Ballots(ReviewerDecisions),
                                voted      : Ballots(ContributorDecisions),
                                arbitrated : Ballots(ArbitrationDecisions)]]

Created == {p \in Projects : project[p] # NoProject}

Settled(p) == project[p].status \in {"Completed", "Failed", "Cancelled"}

(***************************************************************************)
(* The registry's decisions and the escrow's money never part: the status  *)
(* of a project says what state its vault is in, the goal is met and       *)
(* locked before anyone delivers, exactly the milestones before the        *)
(* current one have been paid, and both contracts count the same           *)
(* contributors.                                                           *)
(***************************************************************************)
StatusMatchesVault ==
  \A p \in Created :
    LET pr == project[p]
        v  == vault[p]
        n  == Cardinality(DOMAIN milestones[p])
        paid == IF pr.status = "Completed" THEN n ELSE pr.current_milestone
    IN
    /\ v = NoVault => pr.status \in {"Draft", "Cancelled"}
    /\ v # NoVault =>
         /\ pr.status # "Draft"
         /\ v.contributor_count = pr.contributor_count
         /\ v.refundable <=> pr.status \in {"Failed", "Cancelled"}
         /\ pr.status = "Funding" => ~v.funding_locked /\ v.deposited < v.goal
         /\ pr.status \in {"Funded", "Active", "Disputed", "Completed"} =>
              v.funding_locked /\ v.deposited = v.goal
         /\ pr.status \in {"Active", "Disputed", "Completed"} =>
              pr.contributor_count >= Policy.min_contributors
         /\ v.next_milestone = paid
    /\ \A i \in DOMAIN milestones[p] :
         milestones[p][i].status = "Released" <=> i < paid

(***************************************************************************)
(* The voting power a project counts as eligible, which contribute keeps   *)
(* up by differences, is the sum of the capped powers of its contributors, *)
(* however the contributions were split.                                   *)
(***************************************************************************)
EligiblePowerExact ==
  \A p \in Created :
    project[p].eligible_voting_power =
      SumFunction([c \in Contributors |-> VotingPower(project[p].goal, contribution[p][c])])

Cast(ballots, decision) == {w \in DOMAIN ballots : ballots[w] = decision}

CastWeight(p, decision) ==
  SumFunctionOnSet([c \in Contributors |->
                      VotingPower(project[p].goal, contribution[p][c])],
                   Cast(receipts[p].voted, decision) \cap Contributors)

(***************************************************************************)
(* The counters that decide a milestone are the receipts of its current    *)
(* attempt, no more and no less: nothing cast on an earlier attempt, on an *)
(* earlier milestone, or twice, is ever counted.                           *)
(***************************************************************************)
BallotsCounted ==
  \A p \in Created :
    LET m == milestones[p][Current(p)]
        r == receipts[p]
    IN
    /\ m.verify_count = Cardinality(Cast(r.attested, "Verify"))
    /\ m.reject_count = Cardinality(Cast(r.attested, "Reject"))
    /\ m.approve_weight = CastWeight(p, "Approve")
    /\ m.dispute_weight = CastWeight(p, "Dispute")
    /\ m.arbitration_approve = Cardinality(Cast(r.arbitrated, "ApproveRelease"))
    /\ m.arbitration_reject = Cardinality(Cast(r.arbitrated, "RejectMilestone"))
    /\ m.arbitration_rework = Cardinality(Cast(r.arbitrated, "RequireRework"))

(***************************************************************************)
(* Money is paid for a milestone only if it was earned: the reviewers      *)
(* verified it, and then either the contributors' vote ran its full window *)
(* and met quorum and approval without reaching the dispute threshold, or  *)
(* the dispute was decided by a threshold of arbitrators in its favour.    *)
(***************************************************************************)
PaidOnlyIfEarned ==
  \A p \in Created : \A i \in DOMAIN milestones[p] :
    LET m     == milestones[p][i]
        power == project[p].eligible_voting_power
        votes == m.approve_weight + m.dispute_weight
    IN
    (release_receipt[p][i] > 0 \/ m.status = "Approved") =>
      /\ m.verify_count >= Policy.reviewer_threshold
      /\ \/ m.arbitration_approve >= Policy.arbitrator_threshold
         \/ /\ m.stage_started_at >= m.voting_deadline
            /\ votes > 0
            /\ votes * BPS_DENOMINATOR >= power * Policy.quorum_bps
            /\ m.approve_weight * BPS_DENOMINATOR >= votes * Policy.approval_bps
            /\ m.dispute_weight * BPS_DENOMINATOR < power * Policy.dispute_bps

(***************************************************************************)
(* No wallet decides on a project in two capacities, and none that is paid *)
(* by it or runs it decides at all: those who attested, voted and          *)
(* arbitrated are disjoint, and none is the creator or the payout wallet.  *)
(***************************************************************************)
SeparatePowers ==
  \A p \in Created :
    LET pr         == project[p]
        interested == {pr.creator, pr.payout}
        funders    == {c \in Contributors : contribution[p][c] > 0}
        reviewing  == accepted[p].reviewers
        judging    == accepted[p].arbitrators
    IN
    /\ interested \cap (funders \cup reviewing \cup judging) = {}
    /\ funders \cap (reviewing \cup judging) = {}
    /\ reviewing \cap judging = {}

(***************************************************************************)
(* The two contracts keep copies of the pause clock, the governor and the  *)
(* asset policies, and the copies never differ: both contracts compare     *)
(* deadlines with the same effective time.                                 *)
(***************************************************************************)
ContractsAgree ==
  /\ registry_clock = escrow_clock
  /\ registry_governor = escrow_governor
  /\ registry_pending = escrow_pending
  /\ registry_policy = asset_policy
  /\ \A p \in Created : vault[p] # NoVault =>
       vault[p].funding_deadline = project[p].funding_deadline

(***************************************************************************)
(* While risky mutations are paused no decision and no payout is made and  *)
(* no deadline comes nearer; claims of refunds still go through.           *)
(***************************************************************************)
FrozenWhilePaused ==
  [][registry_clock.pause_mode = "PauseRiskyMutations" =>
       /\ UNCHANGED <<project_vars, contribution, release_receipt>>
       /\ RegistryNow' = RegistryNow]_vars

-----------------------------------------------------------------------------
(* Progress.                                                               *)

StageRank(status) ==
  CASE status = "Pending"           -> 7
    [] status = "EvidenceSubmitted" -> 6
    [] status = "UnderReview"       -> 5
    [] status = "Verified"          -> 4
    [] status = "Voting"            -> 3
    [] status = "Disputed"          -> 2
    [] status \in {"Approved", "Rejected"} -> 1
    [] status = "Released"          -> 0

\* How many moves a project has left at most: milestones to deliver first,
\* then attempts at the current one, then the stage of the attempt.
MovesLeft(p) ==
  LET m        == milestones[p][Current(p)]
      attempt  == Policy.max_attempts - m.attempt
      left     == Cardinality(DOMAIN milestones[p]) - Current(p)
      delivery == Cardinality(DOMAIN milestones[p]) * Policy.max_attempts * 8
  IN
  CASE Settled(p)                                  -> 0
    [] project[p].status \in {"Active", "Disputed"} ->
         ((left - 1) * Policy.max_attempts + attempt) * 8 + StageRank(m.status)
    [] project[p].status = "Funded"                -> delivery + 1
    [] project[p].status = "Funding"               -> delivery + 2
    [] project[p].status = "Draft"                 -> delivery + 3

(***************************************************************************)
(* A project only moves forward.  Every change of its status, of its       *)
(* current milestone, or of a milestone's status or attempt uses up one of *)
(* a bounded number of moves: rework is the only way back, it costs an     *)
(* attempt, and a settled project never changes again.                     *)
(***************************************************************************)
OnlyForward ==
  [][\A p \in Created :
       LET stage(m) == <<m.status, m.attempt>>
       IN
       /\ MovesLeft(p)' <= MovesLeft(p)
       /\ MovesLeft(p)' = MovesLeft(p) =>
            /\ project'[p].status = project[p].status
            /\ Current(p)' = Current(p)
            /\ \A i \in DOMAIN milestones[p] :
                 stage(milestones'[p][i]) = stage(milestones[p][i])]_vars

\* The time by which the current stage of a running project must be over.
StageDeadline(p) ==
  LET pr == project[p]
      m  == milestones[p][pr.current_milestone]
  IN
  CASE pr.status = "Funding"             -> pr.funding_deadline
    [] pr.status = "Funded"              -> pr.activation_deadline
    [] pr.status = "Disputed"            -> m.dispute_deadline
    [] m.status = "Pending"              -> m.evidence_due_at
    [] m.status = "EvidenceSubmitted"    -> m.stage_started_at + Policy.review_start_grace
    [] m.status = "UnderReview"          -> m.review_deadline
    [] m.status = "Verified"             -> m.stage_started_at + Policy.vote_start_grace
    [] m.status = "Voting"               -> m.voting_deadline
    [] m.status = "Rejected"             -> m.rework_deadline
    [] m.status = "Approved"             -> m.stage_started_at

KeeperStep(p) ==
  ApplyTimeout(p) \/ \E i \in DOMAIN milestones[p] : ReleaseApproved(p, i)

\* The deadline of the stage has passed and the contracts are not paused.
Overdue(p) ==
  /\ p \in Created
  /\ ~Settled(p) /\ ~HasStatus(p, "Draft")
  /\ RiskyMutations
  /\ RegistryNow >= StageDeadline(p)

(***************************************************************************)
(* Every stage has a bounded deadline: once it has passed, anyone can move *)
(* the project on.                                                         *)
(***************************************************************************)
TimeoutAlwaysAvailable ==
  \A p \in Projects : Overdue(p) => ENABLED KeeperStep(p)

\* A dispute in which the arbitrators required the rework of a milestone that
\* has no attempt left.
Stranded(p) ==
  /\ HasStatus(p, "Disputed")
  /\ Verdict(milestones[p][Current(p)]) = "RequireRework"
  /\ ~CanRework(milestones[p][Current(p)])

(***************************************************************************)
(* The one stage no timeout ends: finalize_dispute and apply_timeout fail  *)
(* for ever on a verdict of rework that exhausts the attempts.  Every      *)
(* other stage can be moved on by anyone once its deadline has passed.     *)
(***************************************************************************)
OnlyReworkVerdictStrands ==
  \A p \in Projects : Overdue(p) => ENABLED KeeperStep(p) \/ Stranded(p)

(***************************************************************************)
(* Liveness is stated for keepers that are prompt: the clock does not move *)
(* while a timeout or a release is due.  Without that a finite MaxTime     *)
(* could be used up before the last deadline is set.                       *)
(***************************************************************************)
PromptNext ==
  /\ RegistryNext
  /\ now' # now => \A p \in Projects : ~ENABLED KeeperStep(p)

KeptSpec ==
  /\ RegistryInit
  /\ [][PromptNext]_vars
  /\ WF_vars(RegistryTick /\ PromptNext)
  /\ \A p \in Projects : WF_vars(KeeperStep(p))

(***************************************************************************)
(* Once funding is open a project is completed, failed or cancelled,       *)
(* whatever its creator, reviewers, contributors and arbitrators do or     *)
(* fail to do, unless it is stranded in a dispute as above.                *)
(***************************************************************************)
EveryProjectSettles ==
  \A p \in Projects :
    HasStatus(p, "Funding") ~> (p \in Created /\ (Settled(p) \/ Stranded(p)))

=============================================================================
