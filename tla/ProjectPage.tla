----------------------------- MODULE ProjectPage -----------------------------
(***************************************************************************)
(* The page of a project: the buttons it offers to the account connected,  *)
(* and the call of the registry or the escrow that each of them sends.     *)
(*                                                                         *)
(* The page is taken to have read the project just now; how it falls       *)
(* behind, and what becomes of a call on its way, is the module Client.    *)
(***************************************************************************)
EXTENDS RegistryAgreement

\* normalizeProjectStatus
normalizeProjectStatus(status) ==
  CASE status = "Draft"     -> "draft"
    [] status = "Funding"   -> "funding"
    [] status = "Funded"    -> "funded"
    [] status = "Active"    -> "active"
    [] status = "Completed" -> "completed"
    [] status = "Failed"    -> "failed"
    [] status = "Cancelled" -> "cancelled"
    [] status = "Disputed"  -> "disputed"

normalizeMilestoneStatus(status) ==
  CASE status = "Pending"           -> "pending"
    [] status = "EvidenceSubmitted" -> "evidence_submitted"
    [] status = "UnderReview"       -> "under_review"
    [] status = "Verified"          -> "verified"
    [] status = "Voting"            -> "voting"
    [] status = "Disputed"          -> "disputed"
    [] status = "Approved"          -> "approved"
    [] status = "Rejected"          -> "rejected"
    [] status = "Released"          -> "released"

\* What readImpactProject makes of the contracts' state.  The evidence is asked
\* for the current attempt, once there should be one.
View(p) ==
  LET m      == milestones[p][Current(p)]
      status == normalizeMilestoneStatus(m.status)
  IN [status     |-> normalizeProjectStatus(project[p].status),
      milestone  |-> [status   |-> status,
                      index    |-> Current(p),
                      attempt  |-> m.attempt,
                      evidence |-> IF status = "pending" THEN None ELSE receipts[p].evidence],
      refundable |-> vault[p] # NoVault /\ vault[p].refundable]

-----------------------------------------------------------------------------
(* The buttons, by the status of the project.                              *)

Only(condition, labels) == IF condition THEN labels ELSE {}

DraftButtons(p, a) ==
  Only(a \in project[p].reviewers, {"Accept reviewer assignment"})
    \cup Only(a \in project[p].arbitrators, {"Accept arbitrator assignment"})
    \cup Only(a = project[p].creator, {"Open project funding"})

FundingButtons(p, a) ==
  {"Contribute Testnet XLM", "Finalize project funding"}
    \cup Only(a = project[p].creator, {"Cancel project"})

ActiveButtons(p, a) ==
  LET m == View(p).milestone IN
  CASE m.status = "pending" ->
         Only(a = project[p].creator, {"Anchor evidence hash"})
    [] m.status = "evidence_submitted" -> {"Open evidence review"}
    [] m.status = "under_review" ->
         Only(a \in project[p].reviewers /\ m.evidence # None,
              {"Verify milestone evidence", "Reject milestone evidence"})
           \cup {"Finalize evidence review"}
    [] m.status = "verified" -> {"Open contributor voting"}
    [] m.status = "voting" ->
         Only(m.evidence # None,
              {"Approve milestone", "Dispute milestone", "Finalize contributor vote"})
    [] m.status = "approved" -> {"Release milestone payout"}
    [] m.status = "rejected" ->
         Only(a = project[p].creator, {"Start evidence rework"})
    [] OTHER -> {}

DisputeButtons(p, a) ==
  Only(a \in project[p].arbitrators,
       {"Approve release in arbitration", "Require evidence rework",
        "Reject milestone in arbitration"})
    \cup {"Finalize milestone dispute"}

\* Faulty variant: the refund is offered by the registry's status.
RefundOfferedOnFailure(p) == View(p).status = "failed"

RefundOffered(p) == View(p).refundable

Buttons(p, a) ==
  LET status == View(p).status IN
  Only(status = "draft", DraftButtons(p, a))
    \cup Only(status = "funding", FundingButtons(p, a))
    \cup Only(status = "funded", {"Activate project"})
    \cup Only(status = "active", ActiveButtons(p, a))
    \cup Only(status = "disputed", DisputeButtons(p, a))
    \cup Only(status \in {"active", "disputed"}, {"Apply project deadline"})
    \cup Only(RefundOffered(p), {"Claim project refund"})

-----------------------------------------------------------------------------
(* What a click of account a sends, and does when it is carried out.       *)
(* Only contributors are given money to give, and then have votes and      *)
(* refunds.                                                                *)

SendsFunding(p, a, label) ==
  \/ label = "Accept reviewer assignment"   /\ AcceptRole(p, "reviewers", a)
  \/ label = "Accept arbitrator assignment" /\ AcceptRole(p, "arbitrators", a)
  \/ label = "Open project funding"         /\ OpenFunding(p)
  \/ /\ label = "Contribute Testnet XLM" /\ a \in Contributors
     /\ \E amount \in AmountInputs : Contribute(p, a, amount)
  \/ label = "Activate project"             /\ ActivateProject(p)
  \/ label = "Finalize project funding"     /\ FinalizeFunding(p)
  \/ label = "Cancel project"               /\ CancelProject(p)

SendsReview(p, a, label) ==
  LET m == View(p).milestone IN
  \/ /\ label = "Anchor evidence hash"
     /\ \E hash \in Hashes : SubmitEvidence(p, m.index, m.attempt, hash)
  \/ label = "Open evidence review"      /\ OpenReview(p, m.index)
  \/ label = "Verify milestone evidence" /\ Attest(p, m.index, a, m.attempt, m.evidence, "Verify")
  \/ label = "Reject milestone evidence" /\ Attest(p, m.index, a, m.attempt, m.evidence, "Reject")
  \/ label = "Finalize evidence review"  /\ FinalizeReview(p, m.index)
  \/ label = "Start evidence rework"     /\ StartRework(p, m.index)

SendsVote(p, a, label) ==
  LET m == View(p).milestone IN
  \/ label = "Open contributor voting"   /\ OpenVoting(p, m.index)
  \/ /\ a \in Contributors
     /\ \/ label = "Approve milestone" /\ Vote(p, m.index, a, m.attempt, m.evidence, "Approve")
        \/ label = "Dispute milestone" /\ Vote(p, m.index, a, m.attempt, m.evidence, "Dispute")
  \/ label = "Finalize contributor vote" /\ FinalizeVote(p, m.index)
  \/ label = "Release milestone payout"  /\ ReleaseApproved(p, m.index)

SendsDispute(p, a, label) ==
  LET m == View(p).milestone IN
  \/ /\ label = "Approve release in arbitration"
     /\ Arbitrate(p, m.index, a, m.attempt, "ApproveRelease")
  \/ /\ label = "Require evidence rework"
     /\ Arbitrate(p, m.index, a, m.attempt, "RequireRework")
  \/ /\ label = "Reject milestone in arbitration"
     /\ Arbitrate(p, m.index, a, m.attempt, "RejectMilestone")
  \/ label = "Finalize milestone dispute" /\ FinalizeDispute(p, m.index)

Sends(p, a, label) ==
  \/ SendsFunding(p, a, label) \/ SendsReview(p, a, label)
  \/ SendsVote(p, a, label) \/ SendsDispute(p, a, label)
  \/ label = "Apply project deadline" /\ ApplyTimeout(p)
  \/ label = "Claim project refund"   /\ a \in Contributors /\ PayRefund(p, a)

-----------------------------------------------------------------------------

\* What the contracts keep of a project.
About(p) ==
  <<project[p], milestones[p], accepted[p], receipts[p], vault[p],
    contribution[p], refund_receipt[p]>>

\* The one thing the page has no button for: a draft is changed or given up.
DraftEdited(p) ==
  \/ \E metadata \in MetadataInputs : UpdateDraft(p, metadata)
  \/ HasStatus(p, "Draft") /\ CancelProject(p)

(***************************************************************************)
(* Nobody needs more than the page.  Whatever the contracts let anyone do  *)
(* about a project once it is no draft any more, the page offers to that   *)
(* account at that moment, and the click sends just that: no deadline can  *)
(* only be enforced, and no refund only be claimed, by hand-made calls.    *)
(* The page is that of a project it lists, one of the latest 100, and      *)
(* its creator has uploaded what is anchored.                              *)
(***************************************************************************)
PageOffersEveryMove ==
  [][\A p \in Created :
       About(p)' # About(p) =>
         \/ DraftEdited(p)
         \/ \E a \in Wallets : \E label \in Buttons(p, a) : Sends(p, a, label)]_vars
=============================================================================
