------------------------- MODULE ImpactRegistryV1_proofs -------------------------
(***************************************************************************)
(* The registry's decisions and the escrow's money, proved for every set   *)
(* of projects, wallets and assets, every valid policy and every sequence  *)
(* of calls: types, that the two contracts never part, that only what was  *)
(* earned is paid, that no wallet has two powers, and that ballots and     *)
(* voting power are counted exactly.                                       *)
(***************************************************************************)
EXTENDS ImpactRegistryV1, ImpactEscrowV1_proofs

MilestoneLists ==
  {<<>>} \cup [0..1 -> Milestone] \cup [0..2 -> Milestone]
         \cup [0..3 -> Milestone] \cup [0..4 -> Milestone]

Roster == [reviewers : SUBSET Wallets, arbitrators : SUBSET Wallets]

Receipts == [evidence   : Hashes \cup {None},
             attested   : Ballots(ReviewerDecisions),
             voted      : Ballots(ContributorDecisions),
             arbitrated : Ballots(ArbitrationDecisions)]

NoRoles == [reviewers |-> {}, arbitrators |-> {}]

BeforeDelivery == {"Draft", "Funding", "Funded"}

Uncounted(m) ==
  /\ m.verify_count = 0 /\ m.reject_count = 0
  /\ m.approve_weight = 0 /\ m.dispute_weight = 0
  /\ m.arbitration_approve = 0 /\ m.arbitration_reject = 0 /\ m.arbitration_rework = 0

Untouched(m) == m.status = "Pending" /\ Uncounted(m)

\* How many milestones of a project have been paid.
PaidCount(pr) ==
  IF pr.status = "Completed" THEN pr.current_milestone + 1 ELSE pr.current_milestone

(***************************************************************************)
(* The milestones of a project are paid in order: those before the current *)
(* one are released, those after it have not been touched.                 *)
(***************************************************************************)
Staged(pr, ms) ==
  /\ pr.current_milestone \in DOMAIN ms
  /\ \A i \in DOMAIN ms : ms[i].status = "Released" <=> i < PaidCount(pr)
  /\ \A i \in DOMAIN ms : i > pr.current_milestone => Untouched(ms[i])
  /\ pr.status = "Completed" => pr.current_milestone + 1 \notin DOMAIN ms
  /\ pr.status \in BeforeDelivery => pr.current_milestone = 0 /\ Untouched(ms[0])

\* The status of a project says what state its vault is in.
Backed(pr, v) ==
  IF v = NoVault
  THEN pr.status \in {"Draft", "Cancelled"} /\ pr.contributor_count = 0
  ELSE /\ pr.status # "Draft"
       /\ v.goal = pr.goal
       /\ v.funding_deadline = pr.funding_deadline
       /\ v.contributor_count = pr.contributor_count
       /\ v.refundable <=> pr.status \in {"Failed", "Cancelled"}
       /\ pr.status = "Funding" => ~v.funding_locked /\ v.deposited < v.goal
       /\ pr.status \in {"Funded", "Active", "Disputed", "Completed"} =>
            v.funding_locked /\ v.deposited = v.goal
       /\ pr.status \in {"Active", "Disputed", "Completed"} =>
            pr.contributor_count >= Policy.min_contributors
       /\ v.next_milestone = PaidCount(pr)

\* Whoever reviews, arbitrates, funds, runs or is paid does nothing else.
Apart(pr, seats, given) ==
  LET interested == {pr.creator, pr.payout} IN
  /\ pr.reviewers \cap (interested \cup pr.arbitrators) = {}
  /\ pr.arbitrators \cap interested = {}
  /\ seats.reviewers \subseteq pr.reviewers
  /\ seats.arbitrators \subseteq pr.arbitrators
  /\ \A c \in Contributors : given[c] > 0 => ~Conflicted(pr, c)

\* What a milestone must have been through to be paid.
Deserved(m, power) ==
  LET votes == m.approve_weight + m.dispute_weight IN
  \/ m.arbitration_approve >= Policy.arbitrator_threshold
  \/ /\ m.stage_started_at >= m.voting_deadline
     /\ votes > 0
     /\ votes * BPS_DENOMINATOR >= power * Policy.quorum_bps
     /\ m.approve_weight * BPS_DENOMINATOR >= votes * Policy.approval_bps
     /\ m.dispute_weight * BPS_DENOMINATOR < power * Policy.dispute_bps

\* A milestone at effective time t of a project with this much voting power.
Earned(m, power, t) ==
  /\ m.stage_started_at <= t
  /\ m.status \in {"Verified", "Voting", "Disputed", "Approved", "Released"} =>
       m.verify_count >= Policy.reviewer_threshold
  /\ m.status \in {"Pending", "EvidenceSubmitted", "UnderReview", "Verified"} =>
       m.dispute_weight = 0
  /\ m.status = "Voting" => ~RatioReached(m.dispute_weight, power, Policy.dispute_bps)
  /\ m.status \in {"Approved", "Released"} => Deserved(m, power)

Powers(pr, given) == [c \in Contributors |-> VotingPower(pr.goal, given[c])]

\* The eligible voting power is the sum of what each contributor has.
Eligible(pr, given) ==
  pr.eligible_voting_power = SumFunctionOnSet(Powers(pr, given), Contributors)

WeightOf(pr, given, r, decision) ==
  SumFunctionOnSet(Powers(pr, given), Cast(r.voted, decision) \cap Contributors)

\* The counters of a milestone are the ballots of its current attempt.
Counted(m, r, pr, given) ==
  /\ m.verify_count = Cardinality(Cast(r.attested, "Verify"))
  /\ m.reject_count = Cardinality(Cast(r.attested, "Reject"))
  /\ m.approve_weight = WeightOf(pr, given, r, "Approve")
  /\ m.dispute_weight = WeightOf(pr, given, r, "Dispute")
  /\ m.arbitration_approve = Cardinality(Cast(r.arbitrated, "ApproveRelease"))
  /\ m.arbitration_reject = Cardinality(Cast(r.arbitrated, "RejectMilestone"))
  /\ m.arbitration_rework = Cardinality(Cast(r.arbitrated, "RequireRework"))

ProjectOK(p) ==
  LET pr == project[p]  ms == milestones[p] IN
  IF pr = NoProject
  THEN ms = <<>> /\ vault[p] = NoVault /\ accepted[p] = NoRoles /\ receipts[p] = NoReceipts
  ELSE /\ ms # <<>>
       /\ Staged(pr, ms)
       /\ Backed(pr, vault[p])
       /\ Apart(pr, accepted[p], contribution[p])
       /\ \A i \in DOMAIN ms : Earned(ms[i], pr.eligible_voting_power, RegistryNow)
       /\ Eligible(pr, contribution[p])
       /\ Counted(ms[pr.current_milestone], receipts[p], pr, contribution[p])
       /\ pr.status \in BeforeDelivery => receipts[p] = NoReceipts

AdminAgree ==
  /\ registry_clock = escrow_clock
  /\ registry_governor = escrow_governor
  /\ registry_pending = escrow_pending
  /\ registry_policy = asset_policy

ProjectTypes ==
  /\ project \in [Projects -> Project \cup {NoProject}]
  /\ milestones \in [Projects -> MilestoneLists]
  /\ accepted \in [Projects -> Roster]
  /\ receipts \in [Projects -> Receipts]

IdsFresh ==
  /\ next_project_id \in Nat \ {0}
  /\ \A p \in Projects : p >= next_project_id => project[p] = NoProject

\* The inductive invariant.
RegistryInv ==
  /\ Books
  /\ AdminAgree
  /\ ProjectTypes
  /\ IdsFresh
  /\ \A p \in Projects : ProjectOK(p)

-----------------------------------------------------------------------------
(* Policies, lists of milestones, and what the calls write into them.       *)

\* A valid policy asks for somebody, and for shares between 0 and 1.
LEMMA PolicyNumbers ==
  /\ Policy.reviewer_threshold \in Nat \ {0} /\ Policy.arbitrator_threshold \in Nat \ {0}
  /\ Policy.min_contributors \in Nat /\ Policy.max_attempts \in Nat \ {0}
  /\ Policy.quorum_bps \in Nat \ {0} /\ Policy.approval_bps \in Nat \ {0}
  /\ Policy.dispute_bps \in Nat \ {0} /\ Policy.max_vote_power_bps \in Nat \ {0}
  /\ Policy.max_contribution_bps \in Nat \ {0}
  /\ Policy.activation_window \in Nat /\ Policy.review_window \in Nat
  /\ Policy.voting_window \in Nat /\ Policy.arbitration_window \in Nat
  /\ Policy.rework_window \in Nat
<1>1. /\ Policy.reviewer_threshold \in Nat /\ Policy.arbitrator_threshold \in Nat
      /\ Policy.min_contributors \in Nat /\ Policy.max_attempts \in Nat
      /\ Policy.quorum_bps \in Nat /\ Policy.approval_bps \in Nat
      /\ Policy.dispute_bps \in Nat /\ Policy.max_vote_power_bps \in Nat
      /\ Policy.max_contribution_bps \in Nat
      /\ Policy.activation_window \in Nat /\ Policy.review_window \in Nat
      /\ Policy.voting_window \in Nat /\ Policy.arbitration_window \in Nat
      /\ Policy.rework_window \in Nat
  BY RegistryAssumption DEF ProtocolPolicy
<1>2. /\ Policy.reviewer_threshold > 0 /\ Policy.arbitrator_threshold > 0
      /\ Policy.max_attempts > 0 /\ Policy.quorum_bps > 0 /\ Policy.approval_bps > 0
      /\ Policy.dispute_bps > 0 /\ Policy.max_vote_power_bps > 0
      /\ Policy.max_contribution_bps > 0
  <2>1. ValidPolicy(Policy)
    BY RegistryAssumption
  <2>2. /\ Policy.reviewer_threshold \in 1..Policy.reviewer_count
        /\ Policy.arbitrator_threshold \in 1..Policy.arbitrator_count
        /\ Policy.max_vote_power_bps \in 1..Policy.max_contribution_bps
        /\ Policy.max_attempts > 0
    BY <2>1 DEF ValidPolicy
  <2>3. \A bps \in {Policy.quorum_bps, Policy.approval_bps, Policy.dispute_bps,
                    Policy.max_contribution_bps} : bps \in 1..BPS_DENOMINATOR
    BY <2>1 DEF ValidPolicy
  <2>4. QED
    BY <1>1, <2>2, <2>3
<1>3. QED
  BY <1>1, <1>2

\* A list that is not empty has two to five milestones, counted from 0.
LEMMA ListShape ==
  ASSUME NEW ms \in MilestoneLists, ms # <<>>
  PROVE  \E n \in 2..5 : /\ DOMAIN ms = 0..(n - 1)
                         /\ ms \in [0..(n - 1) -> Milestone]
<1>1. CASE ms \in [0..1 -> Milestone]
  <2>1. 2 \in 2..5 /\ 2 - 1 = 1
    OBVIOUS
  <2>2. QED
    BY <1>1, <2>1
<1>2. CASE ms \in [0..2 -> Milestone]
  <2>1. 3 \in 2..5 /\ 3 - 1 = 2
    OBVIOUS
  <2>2. QED
    BY <1>2, <2>1
<1>3. CASE ms \in [0..3 -> Milestone]
  <2>1. 4 \in 2..5 /\ 4 - 1 = 3
    OBVIOUS
  <2>2. QED
    BY <1>3, <2>1
<1>4. CASE ms \in [0..4 -> Milestone]
  <2>1. 5 \in 2..5 /\ 5 - 1 = 4
    OBVIOUS
  <2>2. QED
    BY <1>4, <2>1
<1>5. QED
  BY <1>1, <1>2, <1>3, <1>4 DEF MilestoneLists

\* What a call that rewrites one milestone leaves of the list.
LEMMA Replaced ==
  ASSUME NEW ms \in MilestoneLists, ms # <<>>, NEW i \in DOMAIN ms, NEW x \in Milestone
  PROVE  LET new == [ms EXCEPT ![i] = x] IN
         /\ new \in MilestoneLists /\ new # <<>>
         /\ DOMAIN new = DOMAIN ms
         /\ new[i] = x
         /\ \A j \in DOMAIN ms : j # i => new[j] = ms[j]
<1> DEFINE new == [ms EXCEPT ![i] = x]
<1>1. PICK n \in 2..5 : DOMAIN ms = 0..(n - 1) /\ ms \in [0..(n - 1) -> Milestone]
  BY ListShape
<1>2. new \in [0..(n - 1) -> Milestone]
  BY <1>1
<1>3. new \in MilestoneLists
  <2>1. n = 2 \/ n = 3 \/ n = 4 \/ n = 5
    OBVIOUS
  <2>2. CASE n = 2
    BY <1>2, <2>2 DEF MilestoneLists
  <2>3. CASE n = 3
    BY <1>2, <2>3 DEF MilestoneLists
  <2>4. CASE n = 4
    BY <1>2, <2>4 DEF MilestoneLists
  <2>5. CASE n = 5
    BY <1>2, <2>5 DEF MilestoneLists
  <2>6. QED
    BY <2>1, <2>2, <2>3, <2>4, <2>5
<1>4. DOMAIN new = DOMAIN ms /\ new[i] = x /\ \A j \in DOMAIN ms : j # i => new[j] = ms[j]
  BY <1>1
<1>5. new # <<>>
  BY <1>4
<1>6. QED
  BY <1>3, <1>4, <1>5

\* The number of milestones, and what lies around an index.
LEMMA ListIndices ==
  ASSUME NEW ms \in MilestoneLists, ms # <<>>
  PROVE  /\ Cardinality(DOMAIN ms) \in 2..5
         /\ DOMAIN ms = 0..(Cardinality(DOMAIN ms) - 1)
         /\ \A i \in DOMAIN ms : i \in 0..4 /\ ms[i] \in Milestone
<1>1. PICK n \in 2..5 : DOMAIN ms = 0..(n - 1) /\ ms \in [0..(n - 1) -> Milestone]
  BY ListShape
<1>2. 0 \in Int /\ n - 1 \in Int
  OBVIOUS
<1>3. Cardinality(0..(n - 1)) = n
  BY <1>2, FS_Interval
<1>4. QED
  BY <1>1, <1>3

SameCounts(m, n) ==
  /\ n.verify_count = m.verify_count /\ n.reject_count = m.reject_count
  /\ n.approve_weight = m.approve_weight /\ n.dispute_weight = m.dispute_weight
  /\ n.arbitration_approve = m.arbitration_approve
  /\ n.arbitration_reject = m.arbitration_reject
  /\ n.arbitration_rework = m.arbitration_rework

\* n is m in another stage, entered now, with the same counters.
Moved(m, n, status) ==
  /\ n \in Milestone
  /\ n.status = status
  /\ n.stage_started_at = RegistryNow
  /\ n.attempt = m.attempt
  /\ SameCounts(m, n)

\* Entering a stage.
LEMMA EnteredOK ==
  ASSUME NEW m \in Milestone, NEW status \in MilestoneStatus, RegistryNow \in Nat
  PROVE  /\ Moved(m, Entered(m, status), status)
         /\ Entered(m, status).voting_deadline = m.voting_deadline
<1> DEFINE n == Entered(m, status)
<1>1. n \in Milestone
  BY DEF Entered, Milestone
<1>2. QED
  BY <1>1 DEF Entered, Milestone, Moved, SameCounts

\* Entering a stage that sets a deadline.
LEMMA StageOK ==
  ASSUME NEW m \in Milestone, RegistryNow \in Nat
  PROVE  /\ Moved(m, MarkRejected(m), "Rejected")
         /\ Moved(m, Disputed(m), "Disputed")
         /\ Moved(m, [Entered(m, "UnderReview") EXCEPT
                        !.review_deadline = RegistryNow + Policy.review_window], "UnderReview")
         /\ Moved(m, [Entered(m, "Voting") EXCEPT
                        !.voting_deadline = RegistryNow + Policy.voting_window], "Voting")
<1>0. /\ RegistryNow + Policy.rework_window \in Nat
      /\ RegistryNow + Policy.arbitration_window \in Nat
      /\ RegistryNow + Policy.review_window \in Nat
      /\ RegistryNow + Policy.voting_window \in Nat
  BY PolicyNumbers
<1>1. {"Rejected", "Disputed", "UnderReview", "Voting"} \subseteq MilestoneStatus
  BY DEF MilestoneStatus
<1> DEFINE rejected == Entered(m, "Rejected")
           disputed == Entered(m, "Disputed")
           review   == Entered(m, "UnderReview")
           voting   == Entered(m, "Voting")
<1>2. /\ Moved(m, rejected, "Rejected") /\ Moved(m, disputed, "Disputed")
      /\ Moved(m, review, "UnderReview") /\ Moved(m, voting, "Voting")
  BY <1>1, EnteredOK
<1> HIDE DEF rejected, disputed, review, voting
<1>3. Moved(m, [rejected EXCEPT !.rework_deadline = RegistryNow + Policy.rework_window],
            "Rejected")
  BY <1>0, <1>2 DEF Moved, SameCounts, Milestone
<1>4. Moved(m, [disputed EXCEPT !.dispute_deadline = RegistryNow + Policy.arbitration_window],
            "Disputed")
  BY <1>0, <1>2 DEF Moved, SameCounts, Milestone
<1>5. Moved(m, [review EXCEPT !.review_deadline = RegistryNow + Policy.review_window],
            "UnderReview")
  BY <1>0, <1>2 DEF Moved, SameCounts, Milestone
<1>6. Moved(m, [voting EXCEPT !.voting_deadline = RegistryNow + Policy.voting_window],
            "Voting")
  BY <1>0, <1>2 DEF Moved, SameCounts, Milestone
<1>7. QED
  BY <1>3, <1>4, <1>5, <1>6 DEF MarkRejected, Disputed, rejected, disputed, review, voting

\* A milestone as create_project writes it.
LEMMA NewMilestoneOK ==
  ASSUME NEW amount \in Nat \ {0}, NEW window \in Nat \ {0}, RegistryNow \in Nat
  PROVE  /\ NewMilestone(amount, window) \in Milestone
         /\ Untouched(NewMilestone(amount, window))
         /\ NewMilestone(amount, window).stage_started_at = RegistryNow
<1>1. 1 \in Attempts /\ "Pending" \in MilestoneStatus
  BY PolicyNumbers DEF Attempts, MilestoneStatus
<1>2. NewMilestone(amount, window) \in Milestone
  BY <1>1 DEF NewMilestone, Milestone
<1>3. QED
  BY <1>2 DEF NewMilestone, Untouched, Uncounted

\* A milestone as reset_for_rework leaves it.
LEMMA ResetForReworkOK ==
  ASSUME NEW m \in Milestone, CanRework(m), RegistryNow \in Nat
  PROVE  /\ ResetForRework(m) \in Milestone
         /\ Untouched(ResetForRework(m))
         /\ ResetForRework(m).stage_started_at = RegistryNow
<1>1. m.amount \in Nat \ {0} /\ m.delivery_window \in Nat \ {0} /\ m.attempt \in Attempts
  BY DEF Milestone
<1> DEFINE new == NewMilestone(m.amount, m.delivery_window)
<1>2. new \in Milestone /\ Untouched(new) /\ new.stage_started_at = RegistryNow
  BY <1>1, NewMilestoneOK
<1> HIDE DEF new
<1>3. m.attempt + 1 \in Attempts /\ RegistryNow + Policy.rework_window \in Nat
  BY <1>1, PolicyNumbers DEF CanRework, Attempts
<1>4. ResetForRework(m)
        = [new EXCEPT !.attempt = m.attempt + 1,
                      !.evidence_due_at = RegistryNow + Policy.rework_window]
  BY DEF ResetForRework, new
<1>5. QED
  BY <1>2, <1>3, <1>4 DEF Milestone, Untouched, Uncounted

\* The milestone whose delivery window starts.
LEMMA StartedOK ==
  ASSUME NEW m \in Milestone, RegistryNow \in Nat
  PROVE  /\ Started(m) \in Milestone
         /\ Started(m).status = m.status
         /\ Started(m).stage_started_at = RegistryNow
         /\ SameCounts(m, Started(m))
<1>1. RegistryNow + m.delivery_window \in Nat
  BY DEF Milestone
<1>2. QED
  BY <1>1 DEF Started, Milestone, SameCounts

\* The attributes of Milestone records the proofs compare as numbers.
LEMMA MilestoneNumbers ==
  ASSUME NEW m \in Milestone
  PROVE  /\ m.stage_started_at \in Nat /\ m.voting_deadline \in Nat
         /\ m.verify_count \in Nat /\ m.reject_count \in Nat
         /\ m.approve_weight \in Nat /\ m.dispute_weight \in Nat
         /\ m.arbitration_approve \in Nat /\ m.arbitration_reject \in Nat
         /\ m.arbitration_rework \in Nat
         /\ m.status \in MilestoneStatus
BY DEF Milestone

-----------------------------------------------------------------------------
(* What a step of one project has to show.                                  *)

\* The state of a step, with what the escrow and the clock show of it.
Grounds ==
  /\ RegistryInv
  /\ Books' /\ AdminAgree'
  /\ RegistryNow \in Nat /\ RegistryNow' \in Nat /\ RegistryNow' >= RegistryNow

OnlyTouches(p) ==
  \A q \in Projects : q # p =>
    /\ project'[q] = project[q] /\ milestones'[q] = milestones[q]
    /\ accepted'[q] = accepted[q] /\ receipts'[q] = receipts[q]
    /\ vault'[q] = vault[q] /\ contribution'[q] = contribution[q]

\* What is known of a project that exists.
LEMMA OfProject ==
  ASSUME RegistryInv, NEW p \in Projects, project[p] # NoProject
  PROVE  LET pr == project[p]  ms == milestones[p] IN
         /\ pr \in Project
         /\ ms \in MilestoneLists /\ ms # <<>>
         /\ Staged(pr, ms)
         /\ Backed(pr, vault[p])
         /\ Apart(pr, accepted[p], contribution[p])
         /\ \A i \in DOMAIN ms : Earned(ms[i], pr.eligible_voting_power, RegistryNow)
         /\ Eligible(pr, contribution[p])
         /\ Counted(ms[pr.current_milestone], receipts[p], pr, contribution[p])
         /\ pr.status \in BeforeDelivery => receipts[p] = NoReceipts
         /\ pr.current_milestone \in DOMAIN ms
         /\ \A i \in DOMAIN ms : i \in 0..4 /\ ms[i] \in Milestone
         /\ receipts[p] \in Receipts /\ accepted[p] \in Roster
         /\ contribution[p] \in [Contributors -> Nat]
         /\ EscrowTypeOK
<1>1. /\ project[p] \in Project /\ milestones[p] \in MilestoneLists
      /\ receipts[p] \in Receipts /\ accepted[p] \in Roster
  BY DEF RegistryInv, ProjectTypes
<1>2. EscrowTypeOK /\ contribution[p] \in [Contributors -> Nat]
  BY DEF RegistryInv, Books, EscrowInv, EscrowTypeOK
<1>3. ProjectOK(p)
  BY DEF RegistryInv
<1>4. milestones[p] # <<>> /\ Staged(project[p], milestones[p])
  BY <1>3 DEF ProjectOK
<1>5. \A i \in DOMAIN milestones[p] : i \in 0..4 /\ milestones[p][i] \in Milestone
  BY <1>1, <1>4, ListIndices
<1>6. project[p].current_milestone \in DOMAIN milestones[p]
  BY <1>4 DEF Staged
<1>7. QED
  BY <1>1, <1>2, <1>3, <1>4, <1>5, <1>6 DEF ProjectOK

\* A milestone stays earned as time passes.
LEMMA EarnedLater ==
  ASSUME NEW m \in Milestone, NEW power, NEW t \in Nat, NEW u \in Nat, t <= u,
         Earned(m, power, t)
  PROVE  Earned(m, power, u)
<1>1. m.stage_started_at \in Nat
  BY MilestoneNumbers
<1>2. QED
  BY <1>1 DEF Earned

\* A project that a step does not touch.
LEMMA Elsewhere ==
  ASSUME Grounds, NEW q \in Projects,
         project'[q] = project[q], milestones'[q] = milestones[q],
         accepted'[q] = accepted[q], receipts'[q] = receipts[q],
         vault'[q] = vault[q], contribution'[q] = contribution[q]
  PROVE  ProjectOK(q)'
<1>1. RegistryInv /\ ProjectOK(q)
  BY DEF Grounds, RegistryInv
<1>2. CASE project[q] = NoProject
  BY <1>1, <1>2 DEF ProjectOK
<1>3. CASE project[q] # NoProject
  <2> DEFINE pr == project[q]
             ms == milestones[q]
  <2>1. \A i \in DOMAIN ms : Earned(ms[i], pr.eligible_voting_power, RegistryNow)'
    <3> SUFFICES ASSUME NEW i \in DOMAIN ms
                 PROVE  Earned(ms[i], pr.eligible_voting_power, RegistryNow')
      BY DEF Earned, Deserved, RatioReached
    <3>1. ms[i] \in Milestone /\ Earned(ms[i], pr.eligible_voting_power, RegistryNow)
      BY <1>1, <1>3, OfProject
    <3>2. QED
      BY <3>1, EarnedLater DEF Grounds
  <2>2. QED
    BY <1>1, <1>3, <2>1 DEF ProjectOK
<1>4. QED
  BY <1>2, <1>3

\* A step that touches one project.
LEMMA OneProjectStep ==
  ASSUME Grounds, NEW p \in Projects, OnlyTouches(p),
         ProjectTypes', IdsFresh', ProjectOK(p)'
  PROVE  RegistryInv'
<1>1. ASSUME NEW q \in Projects PROVE ProjectOK(q)'
  BY Elsewhere DEF OnlyTouches
<1>2. QED
  BY <1>1 DEF RegistryInv, Grounds

\* A step that touches none.
LEMMA NoProjectStep ==
  ASSUME Grounds, UNCHANGED <<project_vars, vault, contribution>>
  PROVE  RegistryInv'
<1>1. ASSUME NEW q \in Projects PROVE ProjectOK(q)'
  BY Elsewhere DEF project_vars
<1>2. ProjectTypes' /\ IdsFresh'
  BY DEF Grounds, RegistryInv, ProjectTypes, IdsFresh, project_vars
<1>3. QED
  BY <1>1, <1>2 DEF RegistryInv, Grounds

-----------------------------------------------------------------------------
(* Decisions on the current milestone: evidence, review, vote, arbitration, *)
(* rework and the timeouts.  Each rewrites one milestone of one project,    *)
(* perhaps its ballots and its status, and fails it with its refunds.       *)

Decision(p, i, n, r, status) ==
  /\ milestones' = [milestones EXCEPT ![p][i] = n]
  /\ receipts' = [receipts EXCEPT ![p] = r]
  /\ project' = [project EXCEPT ![p].status = status]
  /\ UNCHANGED <<registry_admin, next_project_id, accepted>>
  /\ IF status = "Failed" THEN EnableRefunds(p) ELSE UNCHANGED escrow_vars

\* What the invariant asks of the new milestone, its ballots and the status.
Allowed(p, i, n, r, status) ==
  /\ project[p] # NoProject
  /\ project[p].status \in {"Active", "Disputed"}
  /\ status \in {"Active", "Disputed", "Failed"}
  /\ i = Current(p)
  /\ n \in Milestone
  /\ n.status # "Released"
  /\ Earned(n, project[p].eligible_voting_power, RegistryNow)
  /\ r \in Receipts
  /\ Counted(n, r, project[p], contribution[p])

\* A decision changes neither effective time nor who contributed what.
LEMMA DecisionFrame ==
  ASSUME RegistryInv, NEW p \in Projects, NEW i, NEW n, NEW r, NEW status,
         Decision(p, i, n, r, status)
  PROVE  /\ UNCHANGED <<contribution, registry_clock, now, next_project_id, accepted>>
         /\ RegistryNow' = RegistryNow
         /\ \A q \in Projects : q # p => vault'[q] = vault[q]
         /\ status # "Failed" => vault' = vault
         /\ status = "Failed" => /\ vault[p] # NoVault
                                 /\ vault'[p] = WithRefunds(vault[p])
<1>0. EscrowTypeOK
  BY DEF RegistryInv, Books, EscrowInv
<1>1. UNCHANGED <<registry_clock, next_project_id, accepted>>
  BY DEF Decision, registry_admin
<1>2. CASE status = "Failed"
  <2>1. EnableRefunds(p)
    BY <1>2 DEF Decision
  <2>2. UNCHANGED <<contribution, now>> /\ vault[p] # NoVault
        /\ vault' = [vault EXCEPT ![p] = WithRefunds(vault[p])]
    BY <2>1 DEF EnableRefunds
  <2>3. QED
    BY <1>0, <1>1, <1>2, <2>2 DEF RegistryNow, Effective, Paused, EscrowTypeOK
<1>3. CASE status # "Failed"
  <2>1. UNCHANGED <<contribution, now, vault>>
    BY <1>3 DEF Decision, escrow_vars, vault_vars
  <2>2. QED
    BY <1>1, <1>3, <2>1 DEF RegistryNow, Effective, Paused
<1>4. QED
  BY <1>2, <1>3

\* A decision that is allowed keeps the invariant.
LEMMA DecisionStep ==
  ASSUME Grounds, NEW p \in Projects, NEW i, NEW n, NEW r, NEW status,
         Decision(p, i, n, r, status), Allowed(p, i, n, r, status)
  PROVE  RegistryInv'
<1> DEFINE pr  == project[p]
           ms  == milestones[p]
           new == [pr EXCEPT !.status = status]
           mn  == [ms EXCEPT ![i] = n]
<1>0. RegistryInv
  BY DEF Grounds
<1>1. /\ pr # NoProject /\ pr.status \in {"Active", "Disputed"}
      /\ status \in {"Active", "Disputed", "Failed"}
      /\ i = pr.current_milestone
      /\ n \in Milestone /\ n.status # "Released"
      /\ Earned(n, pr.eligible_voting_power, RegistryNow)
      /\ r \in Receipts
      /\ Counted(n, r, pr, contribution[p])
  BY DEF Allowed, Current
<1>2. /\ pr \in Project /\ ms \in MilestoneLists /\ ms # <<>>
      /\ Staged(pr, ms) /\ Backed(pr, vault[p])
      /\ Apart(pr, accepted[p], contribution[p])
      /\ \A j \in DOMAIN ms : Earned(ms[j], pr.eligible_voting_power, RegistryNow)
      /\ Eligible(pr, contribution[p])
      /\ i \in DOMAIN ms
      /\ \A j \in DOMAIN ms : j \in 0..4
  BY <1>0, <1>1, OfProject
<1>3. /\ ProjectTypes /\ EscrowTypeOK
      /\ project' = [project EXCEPT ![p] = new]
      /\ milestones' = [milestones EXCEPT ![p] = mn]
      /\ receipts' = [receipts EXCEPT ![p] = r]
  BY <1>0 DEF Decision, RegistryInv, Books, EscrowInv
<1>4. /\ UNCHANGED <<contribution, next_project_id, accepted>>
      /\ RegistryNow' = RegistryNow
      /\ \A q \in Projects : q # p => vault'[q] = vault[q]
      /\ status # "Failed" => vault' = vault
      /\ status = "Failed" => vault[p] # NoVault /\ vault'[p] = WithRefunds(vault[p])
  BY <1>0, DecisionFrame
<1>5. /\ new \in Project /\ new # NoProject /\ new.status = status
      /\ new.creator = pr.creator /\ new.payout = pr.payout
      /\ new.reviewers = pr.reviewers /\ new.arbitrators = pr.arbitrators
      /\ new.goal = pr.goal /\ new.funding_deadline = pr.funding_deadline
      /\ new.current_milestone = pr.current_milestone
      /\ new.contributor_count = pr.contributor_count
      /\ new.eligible_voting_power = pr.eligible_voting_power
  <2>1. status \in ProjectStatus
    BY <1>1 DEF ProjectStatus
  <2>2. new \in Project
    BY <1>2, <2>1 DEF Project
  <2>3. new # NoProject
    BY <2>2, RegistryAssumption
  <2>4. QED
    BY <1>2, <2>2, <2>3 DEF Project
<1>6. /\ mn \in MilestoneLists /\ mn # <<>> /\ DOMAIN mn = DOMAIN ms
      /\ mn[i] = n /\ \A j \in DOMAIN ms : j # i => mn[j] = ms[j]
  BY <1>1, <1>2, Replaced
<1> HIDE DEF new, mn
<1>7. /\ project'[p] = new /\ milestones'[p] = mn /\ receipts'[p] = r
      /\ accepted'[p] = accepted[p] /\ contribution'[p] = contribution[p]
  BY <1>3, <1>4 DEF ProjectTypes
<1>8. ProjectTypes'
  BY <1>1, <1>3, <1>4, <1>5, <1>6 DEF ProjectTypes
<1>9. OnlyTouches(p)
  BY <1>3, <1>4 DEF ProjectTypes, OnlyTouches
<1>10. IdsFresh'
  BY <1>0, <1>1, <1>3, <1>4 DEF RegistryInv, IdsFresh, ProjectTypes
<1>11. Staged(new, mn)
  <2>1. PaidCount(new) = pr.current_milestone /\ PaidCount(pr) = pr.current_milestone
    BY <1>1, <1>5 DEF PaidCount
  <2>2. \A j \in DOMAIN mn : mn[j].status = "Released" <=> j < pr.current_milestone
    <3>1. i \in 0..4 /\ ~(i < pr.current_milestone)
      BY <1>1, <1>2
    <3>2. QED
      BY <1>1, <1>2, <1>6, <2>1, <3>1 DEF Staged
  <2>3. \A j \in DOMAIN mn : j > pr.current_milestone => Untouched(mn[j])
    <3>1. i \in 0..4 /\ ~(i > pr.current_milestone)
      BY <1>1, <1>2
    <3>2. QED
      BY <1>2, <1>6, <3>1 DEF Staged
  <2>4. QED
    BY <1>1, <1>2, <1>5, <1>6, <2>1, <2>2, <2>3 DEF Staged, BeforeDelivery
<1>12. Backed(new, vault'[p])
  <2>1. PaidCount(new) = PaidCount(pr)
    BY <1>1, <1>5 DEF PaidCount
  <2>2. CASE status # "Failed"
    BY <1>1, <1>2, <1>4, <1>5, <2>1, <2>2 DEF Backed
  <2>3. CASE status = "Failed"
    <3> DEFINE v == vault[p]
               w == vault'[p]
    <3>1. v \in Vault /\ v # NoVault /\ w = WithRefunds(v)
      BY <1>3, <1>4, <2>3 DEF EscrowTypeOK
    <3>2. /\ w.goal = v.goal /\ w.funding_deadline = v.funding_deadline
          /\ w.contributor_count = v.contributor_count /\ w.refundable
          /\ w.next_milestone = v.next_milestone /\ DOMAIN w = DOMAIN v
      BY <3>1 DEF WithRefunds, Vault
    <3>3. w # NoVault
      <4>1. EscrowTypeOK'
        BY DEF Grounds, Books, EscrowInv
      <4>2. VaultOK(v)
        BY <1>0, <3>1 DEF RegistryInv, Books, EscrowInv, Accounting, Opened
      <4>3. ~v.refundable
        BY <2>3 DEF Decision, EnableRefunds
      <4>4. w \in Vault
        BY <3>1, <4>2, <4>3, WithRefundsOK
      <4>5. QED
        BY <4>4, EscrowAssumption
    <3>4. QED
      BY <1>1, <1>2, <1>5, <2>1, <2>3, <3>1, <3>2, <3>3 DEF Backed
  <2>4. QED
    BY <2>2, <2>3
<1>13. Apart(new, accepted[p], contribution[p])
  BY <1>2, <1>5 DEF Apart, Conflicted, HasProjectRole
<1>14. \A j \in DOMAIN mn : Earned(mn[j], new.eligible_voting_power, RegistryNow)
  BY <1>1, <1>2, <1>5, <1>6
<1>15. Eligible(new, contribution[p])
  BY <1>2, <1>5 DEF Eligible, Powers
<1>16. Counted(mn[new.current_milestone], r, new, contribution[p])
  BY <1>1, <1>5, <1>6 DEF Counted, WeightOf, Powers
<1>17. ~(new.status \in BeforeDelivery)
  BY <1>1, <1>5 DEF BeforeDelivery
<1>18. \A j \in DOMAIN mn : Earned(mn[j], new.eligible_voting_power, RegistryNow')
  BY <1>4, <1>14
<1>19. ProjectOK(p)'
  BY <1>4, <1>5, <1>6, <1>7, <1>11, <1>12, <1>13, <1>15, <1>16, <1>17, <1>18 DEF ProjectOK
<1>20. QED
  BY <1>8, <1>9, <1>10, <1>19, OneProjectStep

-----------------------------------------------------------------------------
(* Ballots and counters.                                                    *)

\* The receipts of an attempt nobody has voted on.
LEMMA NoReceiptsOK == NoReceipts \in Receipts /\ NoReceipts.evidence = None
  /\ \A w \in Wallets : /\ NoReceipts.attested[w] = None
                        /\ NoReceipts.voted[w] = None
                        /\ NoReceipts.arbitrated[w] = None
BY DEF NoReceipts, Receipts, Ballots

\* None is not a decision.
LEMMA NoneDecidesNothing ==
  None \notin ReviewerDecisions /\ None \notin ContributorDecisions
    /\ None \notin ArbitrationDecisions
BY RegistryAssumption

\* Counters that have not moved count ballots that have not moved.
LEMMA CountedSame ==
  ASSUME NEW m, NEW n, NEW r, NEW s, NEW pr, NEW given,
         Counted(m, r, pr, given), SameCounts(m, n),
         s.attested = r.attested, s.voted = r.voted, s.arbitrated = r.arbitrated
  PROVE  Counted(n, s, pr, given)
BY DEF Counted, SameCounts, WeightOf

\* A milestone without counts has no ballots.
LEMMA CountedReset ==
  ASSUME NEW n, Uncounted(n), NEW pr, NEW given
  PROVE  Counted(n, NoReceipts, pr, given)
<1>1. /\ DOMAIN NoReceipts.attested = Wallets /\ DOMAIN NoReceipts.voted = Wallets
      /\ DOMAIN NoReceipts.arbitrated = Wallets
  BY DEF NoReceipts
<1>2. /\ "Verify" # None /\ "Reject" # None /\ "Approve" # None /\ "Dispute" # None
      /\ "ApproveRelease" # None /\ "RejectMilestone" # None /\ "RequireRework" # None
  BY NoneDecidesNothing DEF ReviewerDecisions, ContributorDecisions, ArbitrationDecisions
<1>3. /\ Cast(NoReceipts.attested, "Verify") = {} /\ Cast(NoReceipts.attested, "Reject") = {}
      /\ Cast(NoReceipts.voted, "Approve") = {} /\ Cast(NoReceipts.voted, "Dispute") = {}
      /\ Cast(NoReceipts.arbitrated, "ApproveRelease") = {}
      /\ Cast(NoReceipts.arbitrated, "RejectMilestone") = {}
      /\ Cast(NoReceipts.arbitrated, "RequireRework") = {}
  BY <1>1, <1>2, NoReceiptsOK DEF Cast
<1>4. Cardinality({}) = 0
  BY FS_EmptySet
<1>5. /\ WeightOf(pr, given, NoReceipts, "Approve") = 0
      /\ WeightOf(pr, given, NoReceipts, "Dispute") = 0
  <2>1. {} \cap Contributors = {}
    OBVIOUS
  <2>2. SumFunctionOnSet(Powers(pr, given), {}) = 0
    BY SumEmpty
  <2>3. QED
    BY <1>3, <2>1, <2>2 DEF WeightOf
<1>6. QED
  BY <1>3, <1>4, <1>5 DEF Counted, Uncounted

\* A wallet that had not decided decides.
LEMMA BallotAdded ==
  ASSUME NEW D, None \notin D, NEW ballots \in Ballots(D), NEW w \in Wallets,
         ballots[w] = None, NEW decision \in D,
         NEW more \in Ballots(D), more[w] = decision,
         \A x \in Wallets : x # w => more[x] = ballots[x],
         NEW d \in D
  PROVE  /\ w \notin Cast(ballots, d) /\ IsFiniteSet(Cast(ballots, d))
         /\ Cast(more, d) = IF d = decision THEN Cast(ballots, d) \cup {w}
                                            ELSE Cast(ballots, d)
         /\ Cardinality(Cast(more, d))
              = IF d = decision THEN Cardinality(Cast(ballots, d)) + 1
                                ELSE Cardinality(Cast(ballots, d))
<1>1. DOMAIN more = Wallets /\ DOMAIN ballots = Wallets
  BY DEF Ballots
<1>2. w \notin Cast(ballots, d) /\ Cast(ballots, d) \subseteq Wallets
  BY <1>1 DEF Cast
<1>3. IsFiniteSet(Cast(ballots, d))
  BY <1>2, FS_Subset, RegistryAssumption
<1>4. Cast(more, d) = IF d = decision THEN Cast(ballots, d) \cup {w} ELSE Cast(ballots, d)
  <2>1. CASE d = decision
    BY <1>1, <2>1 DEF Cast
  <2>2. CASE d # decision
    BY <1>1, <2>2 DEF Cast
  <2>3. QED
    BY <2>1, <2>2
<1>5. Cardinality(Cast(ballots, d) \cup {w}) = Cardinality(Cast(ballots, d)) + 1
  BY <1>2, <1>3, FS_AddElement
<1>6. QED
  BY <1>2, <1>3, <1>4, <1>5

-----------------------------------------------------------------------------
(* The decisions that only move the stage, or start the attempt over.       *)

\* A stage that may follow, for the counters of the milestone.
LEMMA EarnedByMove ==
  ASSUME NEW m \in Milestone, NEW n, NEW status, Moved(m, n, status), NEW power \in Nat,
         RegistryNow \in Nat,
         status \in {"Verified", "Voting", "Disputed", "Approved"} =>
           m.verify_count >= Policy.reviewer_threshold,
         status \in {"Pending", "EvidenceSubmitted", "UnderReview", "Verified", "Voting"} =>
           m.dispute_weight = 0,
         status = "Approved" => Deserved(n, power),
         status # "Released"
  PROVE  Earned(n, power, RegistryNow)
<1>1. /\ n.status = status /\ n.stage_started_at = RegistryNow
      /\ n.verify_count = m.verify_count /\ n.dispute_weight = m.dispute_weight
  BY DEF Moved, SameCounts
<1>2. ASSUME m.dispute_weight = 0, power > 0
      PROVE  ~(n.dispute_weight * BPS_DENOMINATOR >= power * Policy.dispute_bps)
  <2>1. power * Policy.dispute_bps > 0
    BY <1>2, PolicyNumbers
  <2>2. n.dispute_weight * BPS_DENOMINATOR = 0
    BY <1>1, <1>2 DEF BPS_DENOMINATOR
  <2>3. power * Policy.dispute_bps \in Nat
    BY PolicyNumbers
  <2>4. QED
    BY <2>1, <2>2, <2>3
<1>3. status = "Voting" => ~RatioReached(n.dispute_weight, power, Policy.dispute_bps)
  BY <1>2 DEF RatioReached
<1>4. QED
  BY <1>1, <1>3 DEF Earned

\* A move of the current milestone to another stage is allowed.
LEMMA MoveAllowed ==
  ASSUME RegistryInv, RegistryNow \in Nat, NEW p \in Projects, NEW i, NEW n, NEW r,
         NEW next, NEW status \in MilestoneStatus,
         project[p] # NoProject, project[p].status \in {"Active", "Disputed"},
         next \in {"Active", "Disputed", "Failed"},
         i = Current(p),
         Moved(milestones[p][i], n, status),
         r \in Receipts, r.attested = receipts[p].attested,
         r.voted = receipts[p].voted, r.arbitrated = receipts[p].arbitrated,
         status \in {"Verified", "Voting", "Disputed", "Approved"} =>
           milestones[p][i].verify_count >= Policy.reviewer_threshold,
         status \in {"Pending", "EvidenceSubmitted", "UnderReview", "Verified", "Voting"} =>
           milestones[p][i].dispute_weight = 0,
         status = "Approved" => Deserved(n, project[p].eligible_voting_power),
         status # "Released"
  PROVE  Allowed(p, i, n, r, next)
<1> DEFINE m  == milestones[p][i]
           pr == project[p]
<1>1. /\ m \in Milestone /\ pr \in Project
      /\ Counted(m, receipts[p], pr, contribution[p])
  BY OfProject DEF Current
<1>2. pr.eligible_voting_power \in Nat
  BY <1>1 DEF Project
<1>3. Earned(n, pr.eligible_voting_power, RegistryNow)
  BY <1>1, <1>2, EarnedByMove
<1>4. Counted(n, r, pr, contribution[p])
  BY <1>1, CountedSame DEF Moved
<1>5. QED
  BY <1>3, <1>4 DEF Allowed, Moved

\* Starting the attempt over is allowed.
LEMMA ResetAllowed ==
  ASSUME RegistryInv, RegistryNow \in Nat, NEW p \in Projects, NEW i,
         project[p] # NoProject, project[p].status \in {"Active", "Disputed"},
         i = Current(p), CanRework(milestones[p][i])
  PROVE  Allowed(p, i, ResetForRework(milestones[p][i]), NoReceipts, "Active")
<1> DEFINE m == milestones[p][i]
           n == ResetForRework(m)
<1>1. m \in Milestone
  BY OfProject DEF Current
<1>2. n \in Milestone /\ Untouched(n) /\ n.stage_started_at = RegistryNow
  BY <1>1, ResetForReworkOK
<1> HIDE DEF n
<1>3. Earned(n, project[p].eligible_voting_power, RegistryNow)
  BY <1>2 DEF Earned, Untouched, Uncounted
<1>4. Counted(n, NoReceipts, project[p], contribution[p])
  BY <1>2, CountedReset DEF Untouched
<1>5. Allowed(p, i, n, NoReceipts, "Active")
  BY <1>2, <1>3, <1>4, NoReceiptsOK DEF Allowed, Untouched
<1>6. QED
  BY <1>5 DEF n

\* Of a running project, only the current milestone is in the middle of a stage.
LEMMA OnlyCurrent ==
  ASSUME RegistryInv, NEW p \in Projects, project[p] # NoProject,
         project[p].status \in {"Active", "Disputed"},
         NEW i \in DOMAIN milestones[p], milestones[p][i].status \notin {"Pending", "Released"}
  PROVE  i = Current(p)
<1>1. /\ project[p] \in Project /\ Staged(project[p], milestones[p]) /\ i \in 0..4
  BY OfProject
<1>2. project[p].current_milestone \in 0..4
  BY <1>1 DEF Project
<1>3. PaidCount(project[p]) = project[p].current_milestone
  BY DEF PaidCount
<1>4. QED
  BY <1>1, <1>2, <1>3 DEF Staged, Untouched, Current

\* A decision of the registry alone, in the form of a Decision.
LEMMA RegistryAlone ==
  ASSUME RegistryInv, NEW p \in Projects, NEW i, NEW n, NEW r,
         project[p] # NoProject, project[p].status # "Failed",
         SetMilestone(p, i, n), receipts' = [receipts EXCEPT ![p] = r],
         DecisionOnly, UNCHANGED project
  PROVE  Decision(p, i, n, r, project[p].status)
<1>1. project \in [Projects -> Project \cup {NoProject}] /\ project[p] \in Project
  BY DEF RegistryInv, ProjectTypes
<1>2. project[p] = [project[p] EXCEPT !.status = project[p].status]
  BY <1>1 DEF Project
<1>3. project' = [project EXCEPT ![p].status = project[p].status]
  BY <1>1, <1>2
<1>4. QED
  BY <1>3 DEF Decision, SetMilestone, DecisionOnly

\* The receipts of the other projects, and of this one.
LEMMA SameReceipts ==
  ASSUME RegistryInv, NEW p \in Projects, UNCHANGED receipts
  PROVE  receipts' = [receipts EXCEPT ![p] = receipts[p]] /\ receipts[p] \in Receipts
BY DEF RegistryInv, ProjectTypes

\* What ActiveAtCurrent and its like say of the milestone they name.
LEMMA OfCurrent ==
  ASSUME RegistryInv, NEW p \in Projects, project[p] # NoProject,
         project[p].status \in {"Active", "Disputed"}, NEW i, i = Current(p)
  PROVE  /\ project[p] \in Project
         /\ milestones[p][i] \in Milestone
         /\ milestones[p][i].status \in MilestoneStatus
         /\ Earned(milestones[p][i], project[p].eligible_voting_power, RegistryNow)
         /\ Counted(milestones[p][i], receipts[p], project[p], contribution[p])
         /\ receipts[p] \in Receipts
         /\ contribution[p] \in [Contributors -> Nat]
         /\ i \in DOMAIN milestones[p]
<1>1. milestones[p][i] \in Milestone
  BY OfProject DEF Current
<1>2. QED
  BY <1>1, OfProject, MilestoneNumbers DEF Current

\* submit_evidence
LEMMA SubmitEvidenceInv ==
  ASSUME Grounds, NEW p \in Projects, NEW i \in DOMAIN milestones[p], NEW attempt,
         NEW hash \in Hashes, SubmitEvidence(p, i, attempt, hash)
  PROVE  RegistryInv'
<1> DEFINE m == milestones[p][i]
           n == Entered(m, "EvidenceSubmitted")
           r == [receipts[p] EXCEPT !.evidence = hash]
<1>0. RegistryInv /\ RegistryNow \in Nat
  BY DEF Grounds
<1>1. /\ project[p] # NoProject /\ project[p].status = "Active" /\ i = Current(p)
      /\ m.status = "Pending"
      /\ SetMilestone(p, i, n) /\ receipts' = [receipts EXCEPT ![p] = r]
      /\ DecisionOnly /\ UNCHANGED project
  BY DEF SubmitEvidence, ActiveAtCurrent, ActiveAt
<1>2. /\ m \in Milestone /\ receipts[p] \in Receipts
      /\ Earned(m, project[p].eligible_voting_power, RegistryNow)
  BY <1>0, <1>1, OfCurrent
<1>3. Moved(m, n, "EvidenceSubmitted") /\ "EvidenceSubmitted" \in MilestoneStatus
  BY <1>0, <1>2, EnteredOK DEF MilestoneStatus
<1>4. /\ r \in Receipts /\ r.attested = receipts[p].attested
      /\ r.voted = receipts[p].voted /\ r.arbitrated = receipts[p].arbitrated
  BY <1>2 DEF Receipts
<1>5. m.dispute_weight = 0
  BY <1>1, <1>2 DEF Earned
<1> HIDE DEF n, r
<1>6. Decision(p, i, n, r, "Active")
  BY <1>0, <1>1, RegistryAlone
<1>7. Allowed(p, i, n, r, "Active")
  BY <1>0, <1>1, <1>3, <1>4, <1>5, MoveAllowed
<1>8. QED
  BY <1>6, <1>7, DecisionStep

\* A move of the stage that leaves receipts and project alone.
LEMMA StageStep ==
  ASSUME Grounds, NEW p \in Projects, NEW i, NEW n, NEW status \in MilestoneStatus,
         project[p] # NoProject, project[p].status = "Active", i = Current(p),
         SetMilestone(p, i, n), DecisionOnly, UNCHANGED <<project, receipts>>,
         Moved(milestones[p][i], n, status),
         status \in {"Verified", "Voting", "Disputed", "Approved"} =>
           milestones[p][i].verify_count >= Policy.reviewer_threshold,
         status \in {"Pending", "EvidenceSubmitted", "UnderReview", "Verified", "Voting"} =>
           milestones[p][i].dispute_weight = 0,
         status = "Approved" => Deserved(n, project[p].eligible_voting_power),
         status # "Released"
  PROVE  RegistryInv'
<1>0. RegistryInv /\ RegistryNow \in Nat
  BY DEF Grounds
<1>1. receipts' = [receipts EXCEPT ![p] = receipts[p]] /\ receipts[p] \in Receipts
  BY <1>0, SameReceipts
<1>2. Decision(p, i, n, receipts[p], "Active")
  BY <1>0, <1>1, RegistryAlone
<1>3. Allowed(p, i, n, receipts[p], "Active")
  BY <1>0, <1>1, MoveAllowed
<1>4. QED
  BY <1>2, <1>3, DecisionStep

\* open_review
LEMMA OpenReviewInv ==
  ASSUME Grounds, NEW p \in Projects, NEW i \in DOMAIN milestones[p], OpenReview(p, i)
  PROVE  RegistryInv'
<1> DEFINE m == milestones[p][i]
           n == [Entered(m, "UnderReview") EXCEPT
                   !.review_deadline = RegistryNow + Policy.review_window]
<1>0. RegistryInv /\ RegistryNow \in Nat
  BY DEF Grounds
<1>1. /\ project[p] # NoProject /\ project[p].status = "Active" /\ i = Current(p)
      /\ m.status = "EvidenceSubmitted"
      /\ SetMilestone(p, i, n) /\ DecisionOnly /\ UNCHANGED <<project, receipts>>
  BY DEF OpenReview, ActiveAtCurrent, ActiveAt
<1>2. m \in Milestone /\ Earned(m, project[p].eligible_voting_power, RegistryNow)
  BY <1>0, <1>1, OfCurrent
<1>3. Moved(m, n, "UnderReview") /\ "UnderReview" \in MilestoneStatus
  BY <1>0, <1>2, StageOK DEF MilestoneStatus
<1>4. m.dispute_weight = 0
  BY <1>1, <1>2 DEF Earned
<1> HIDE DEF n
<1>5. QED
  BY <1>1, <1>3, <1>4, StageStep

\* finalize_review
LEMMA FinalizeReviewInv ==
  ASSUME Grounds, NEW p \in Projects, NEW i \in DOMAIN milestones[p], FinalizeReview(p, i)
  PROVE  RegistryInv'
<1> DEFINE m == milestones[p][i]
           n == MarkRejected(m)
<1>0. RegistryInv /\ RegistryNow \in Nat
  BY DEF Grounds
<1>1. /\ project[p] # NoProject /\ project[p].status = "Active" /\ m.status = "UnderReview"
      /\ SetMilestone(p, i, n) /\ DecisionOnly /\ UNCHANGED <<project, receipts>>
  BY DEF FinalizeReview, ActiveAt
<1>2. i = Current(p)
  BY <1>0, <1>1, OnlyCurrent
<1>3. m \in Milestone
  BY <1>0, <1>1, <1>2, OfCurrent
<1>4. Moved(m, n, "Rejected") /\ "Rejected" \in MilestoneStatus
  BY <1>0, <1>3, StageOK DEF MilestoneStatus
<1> HIDE DEF n
<1>5. QED
  BY <1>1, <1>2, <1>4, StageStep

\* open_voting
LEMMA OpenVotingInv ==
  ASSUME Grounds, NEW p \in Projects, NEW i \in DOMAIN milestones[p], OpenVoting(p, i)
  PROVE  RegistryInv'
<1> DEFINE m == milestones[p][i]
           n == [Entered(m, "Voting") EXCEPT
                   !.voting_deadline = RegistryNow + Policy.voting_window]
<1>0. RegistryInv /\ RegistryNow \in Nat
  BY DEF Grounds
<1>1. /\ project[p] # NoProject /\ project[p].status = "Active" /\ i = Current(p)
      /\ m.status = "Verified"
      /\ SetMilestone(p, i, n) /\ DecisionOnly /\ UNCHANGED <<project, receipts>>
  BY DEF OpenVoting, ActiveAtCurrent, ActiveAt
<1>2. m \in Milestone /\ Earned(m, project[p].eligible_voting_power, RegistryNow)
  BY <1>0, <1>1, OfCurrent
<1>3. Moved(m, n, "Voting") /\ "Voting" \in MilestoneStatus
  BY <1>0, <1>2, StageOK DEF MilestoneStatus
<1>4. m.dispute_weight = 0 /\ m.verify_count >= Policy.reviewer_threshold
  BY <1>1, <1>2 DEF Earned
<1> HIDE DEF n
<1>5. QED
  BY <1>1, <1>3, <1>4, StageStep

\* A vote that ran its window, met quorum and approval, and was not disputed.
LEMMA VoteDeserved ==
  ASSUME NEW m \in Milestone, NEW pr, pr.eligible_voting_power \in Nat,
         RegistryNow \in Nat, RegistryNow >= m.voting_deadline,
         ~RatioReached(m.dispute_weight, pr.eligible_voting_power, Policy.dispute_bps),
         ApprovedByVote(pr, m)
  PROVE  Deserved(Entered(m, "Approved"), pr.eligible_voting_power)
<1> DEFINE n     == Entered(m, "Approved")
           power == pr.eligible_voting_power
           votes == m.approve_weight + m.dispute_weight
<1>1. /\ n.stage_started_at = RegistryNow /\ n.voting_deadline = m.voting_deadline
      /\ n.approve_weight = m.approve_weight /\ n.dispute_weight = m.dispute_weight
  <2>1. "Approved" \in MilestoneStatus
    BY DEF MilestoneStatus
  <2>2. QED
    BY <2>1, EnteredOK DEF Moved, SameCounts
<1>2. /\ m.approve_weight \in Nat /\ m.dispute_weight \in Nat /\ m.voting_deadline \in Nat
  BY MilestoneNumbers
<1>3. /\ power > 0 /\ votes > 0
      /\ votes * BPS_DENOMINATOR >= power * Policy.quorum_bps
      /\ m.approve_weight * BPS_DENOMINATOR >= votes * Policy.approval_bps
  BY DEF ApprovedByVote, RatioReached
<1>4. m.dispute_weight * BPS_DENOMINATOR < power * Policy.dispute_bps
  <2>1. ~(m.dispute_weight * BPS_DENOMINATOR >= power * Policy.dispute_bps)
    BY <1>3 DEF RatioReached
  <2>2. /\ m.dispute_weight * BPS_DENOMINATOR \in Nat
        /\ power * Policy.dispute_bps \in Nat
    BY <1>2, PolicyNumbers DEF BPS_DENOMINATOR
  <2>3. QED
    BY <2>1, <2>2
<1> HIDE DEF n, power
<1>5. n.stage_started_at >= n.voting_deadline
  BY <1>1, <1>2
<1>6. QED
  BY <1>1, <1>3, <1>4, <1>5 DEF Deserved, n, power

\* finalize_vote
LEMMA FinalizeVoteInv ==
  ASSUME Grounds, NEW p \in Projects, NEW i \in DOMAIN milestones[p], FinalizeVote(p, i)
  PROVE  RegistryInv'
<1> DEFINE m == milestones[p][i]
<1>0. RegistryInv /\ RegistryNow \in Nat
  BY DEF Grounds
<1>1. /\ project[p] # NoProject /\ project[p].status = "Active" /\ m.status = "Voting"
      /\ RegistryNow >= m.voting_deadline
      /\ SetMilestone(p, i, IF ApprovedByVote(project[p], m)
                            THEN Entered(m, "Approved") ELSE MarkRejected(m))
      /\ DecisionOnly /\ UNCHANGED <<project, receipts>>
  BY DEF FinalizeVote, ActiveAt
<1>2. i = Current(p)
  BY <1>0, <1>1, OnlyCurrent
<1>3. /\ m \in Milestone /\ project[p] \in Project
      /\ Earned(m, project[p].eligible_voting_power, RegistryNow)
  BY <1>0, <1>1, <1>2, OfCurrent
<1>4. CASE ApprovedByVote(project[p], m)
  <2> DEFINE n == Entered(m, "Approved")
  <2>1. Moved(m, n, "Approved") /\ "Approved" \in MilestoneStatus
    BY <1>0, <1>3, EnteredOK DEF MilestoneStatus
  <2>2. project[p].eligible_voting_power \in Nat
    BY <1>3 DEF Project
  <2>3. /\ m.verify_count >= Policy.reviewer_threshold
        /\ ~RatioReached(m.dispute_weight, project[p].eligible_voting_power,
                         Policy.dispute_bps)
    BY <1>1, <1>3 DEF Earned
  <2>4. Deserved(n, project[p].eligible_voting_power)
    BY <1>0, <1>1, <1>3, <1>4, <2>2, <2>3, VoteDeserved
  <2>5. SetMilestone(p, i, n)
    BY <1>1, <1>4
  <2> HIDE DEF n
  <2>6. QED
    BY <1>1, <1>2, <2>1, <2>3, <2>4, <2>5, StageStep
<1>5. CASE ~ApprovedByVote(project[p], m)
  <2> DEFINE n == MarkRejected(m)
  <2>1. Moved(m, n, "Rejected") /\ "Rejected" \in MilestoneStatus
    BY <1>0, <1>3, StageOK DEF MilestoneStatus
  <2>2. SetMilestone(p, i, n)
    BY <1>1, <1>5
  <2> HIDE DEF n
  <2>3. QED
    BY <1>1, <1>2, <2>1, <2>2, StageStep
<1>6. QED
  BY <1>4, <1>5

-----------------------------------------------------------------------------
(* Ballots: attestations, votes and arbitration.                            *)

\* What one attestation does to a milestone under review.
LEMMA AttestedOK ==
  ASSUME NEW m \in Milestone, NEW decision \in ReviewerDecisions
  PROVE  LET a == Attested(m, decision) IN
         /\ a \in Milestone /\ a.status = m.status
         /\ a.stage_started_at = m.stage_started_at
         /\ a.verify_count = IF decision = "Verify" THEN m.verify_count + 1 ELSE m.verify_count
         /\ a.reject_count = IF decision = "Reject" THEN m.reject_count + 1 ELSE m.reject_count
         /\ a.approve_weight = m.approve_weight /\ a.dispute_weight = m.dispute_weight
         /\ a.arbitration_approve = m.arbitration_approve
         /\ a.arbitration_reject = m.arbitration_reject
         /\ a.arbitration_rework = m.arbitration_rework
<1>1. m.verify_count + 1 \in Nat /\ m.reject_count + 1 \in Nat
  BY MilestoneNumbers
<1>2. CASE decision = "Verify"
  BY <1>1, <1>2 DEF Attested, Milestone
<1>3. CASE decision = "Reject"
  BY <1>1, <1>3 DEF Attested, Milestone
<1>4. QED
  BY <1>2, <1>3 DEF ReviewerDecisions

\* The counters of an attestation that the receipts take in too.
LEMMA AttestedCounted ==
  ASSUME NEW m \in Milestone, NEW r \in Receipts, NEW pr, NEW given, Counted(m, r, pr, given),
         NEW w \in Wallets, r.attested[w] = None, NEW decision \in ReviewerDecisions
  PROVE  LET s == [r EXCEPT !.attested[w] = decision] IN
         s \in Receipts /\ Counted(Attested(m, decision), s, pr, given)
<1> DEFINE s == [r EXCEPT !.attested[w] = decision]
           a == Attested(m, decision)
           D == ReviewerDecisions
           more == [r.attested EXCEPT ![w] = decision]
<1>1. r.attested \in Ballots(D) /\ None \notin D /\ "Verify" \in D /\ "Reject" \in D
  BY RegistryAssumption DEF Receipts, ReviewerDecisions
<1>9. /\ more \in Ballots(D) /\ more[w] = decision
      /\ \A x \in Wallets : x # w => more[x] = r.attested[x]
  BY <1>1 DEF Ballots
<1>3. s = [r EXCEPT !.attested = more]
  BY DEF Receipts
<1> HIDE DEF more, D
<1>2. /\ Cardinality(Cast(more, "Verify"))
           = IF "Verify" = decision THEN Cardinality(Cast(r.attested, "Verify")) + 1
                                    ELSE Cardinality(Cast(r.attested, "Verify"))
      /\ Cardinality(Cast(more, "Reject"))
           = IF "Reject" = decision THEN Cardinality(Cast(r.attested, "Reject")) + 1
                                    ELSE Cardinality(Cast(r.attested, "Reject"))
  <2>1. decision \in D
    BY DEF D
  <2>2. QED
    BY <1>1, <1>9, <2>1, BallotAdded
<1>4. s \in Receipts /\ s.attested = more /\ s.voted = r.voted /\ s.arbitrated = r.arbitrated
  BY <1>3, <1>9 DEF Receipts, D
<1> HIDE DEF s
<1>5. /\ a.verify_count = IF decision = "Verify" THEN m.verify_count + 1 ELSE m.verify_count
      /\ a.reject_count = IF decision = "Reject" THEN m.reject_count + 1 ELSE m.reject_count
      /\ a.approve_weight = m.approve_weight /\ a.dispute_weight = m.dispute_weight
      /\ a.arbitration_approve = m.arbitration_approve
      /\ a.arbitration_reject = m.arbitration_reject
      /\ a.arbitration_rework = m.arbitration_rework
  BY AttestedOK
<1> HIDE DEF a
<1>6. /\ WeightOf(pr, given, s, "Approve") = WeightOf(pr, given, r, "Approve")
      /\ WeightOf(pr, given, s, "Dispute") = WeightOf(pr, given, r, "Dispute")
  BY <1>4 DEF WeightOf
<1>7. Counted(a, s, pr, given)
  BY <1>2, <1>4, <1>5, <1>6 DEF Counted
<1>8. QED
  BY <1>4, <1>7 DEF a, s

\* attest_evidence
LEMMA AttestInv ==
  ASSUME Grounds, NEW p \in Projects, NEW i \in DOMAIN milestones[p], NEW w \in Wallets,
         NEW attempt, NEW hash, NEW decision \in ReviewerDecisions,
         Attest(p, i, w, attempt, hash, decision)
  PROVE  RegistryInv'
<1> DEFINE m == milestones[p][i]
           a == Attested(m, decision)
           n == AfterAttestation(a)
           r == [receipts[p] EXCEPT !.attested[w] = decision]
           power == project[p].eligible_voting_power
<1>0. RegistryInv /\ RegistryNow \in Nat
  BY DEF Grounds
<1>1. /\ project[p] # NoProject /\ project[p].status = "Active" /\ i = Current(p)
      /\ m.status = "UnderReview" /\ receipts[p].attested[w] = None
      /\ SetMilestone(p, i, n)
      /\ DecisionOnly /\ UNCHANGED project
  BY DEF Attest, ActiveAtCurrent, ActiveAt
<1>2. receipts' = [receipts EXCEPT ![p] = r]
  BY <1>0 DEF Attest, RegistryInv, ProjectTypes
<1>3. /\ m \in Milestone /\ receipts[p] \in Receipts /\ project[p] \in Project
      /\ Earned(m, power, RegistryNow)
      /\ Counted(m, receipts[p], project[p], contribution[p])
  BY <1>0, <1>1, OfCurrent
<1>4. r \in Receipts /\ Counted(a, r, project[p], contribution[p])
  BY <1>1, <1>3, AttestedCounted
<1>5. /\ a \in Milestone /\ a.status = "UnderReview" /\ a.dispute_weight = m.dispute_weight
      /\ a.stage_started_at = m.stage_started_at
  BY <1>1, <1>3, AttestedOK
<1>6. a.dispute_weight = 0 /\ a.stage_started_at <= RegistryNow /\ power \in Nat
  BY <1>1, <1>3, <1>5 DEF Earned, Project
<1> HIDE DEF a, r
<1>7. CASE a.verify_count >= Policy.reviewer_threshold
  <2>1. n = Entered(a, "Verified")
    BY <1>7 DEF AfterAttestation
  <2> HIDE DEF n
  <2>2. Moved(a, n, "Verified")
    BY <1>0, <1>5, <2>1, EnteredOK DEF MilestoneStatus
  <2>3. Earned(n, power, RegistryNow)
    BY <1>0, <1>5, <1>6, <1>7, <2>2, EarnedByMove
  <2>4. Counted(n, r, project[p], contribution[p])
    BY <1>4, <2>2, CountedSame DEF Moved
  <2>5. Allowed(p, i, n, r, "Active")
    BY <1>1, <1>4, <2>2, <2>3, <2>4 DEF Allowed, Moved
  <2>6. Decision(p, i, n, r, "Active")
    BY <1>0, <1>1, <1>2, RegistryAlone
  <2>7. QED
    BY <2>5, <2>6, DecisionStep
<1>8. CASE ~(a.verify_count >= Policy.reviewer_threshold)
           /\ a.reject_count >= Policy.reviewer_threshold
  <2>1. n = MarkRejected(a)
    BY <1>8 DEF AfterAttestation
  <2> HIDE DEF n
  <2>2. Moved(a, n, "Rejected")
    BY <1>0, <1>5, <2>1, StageOK
  <2>3. Earned(n, power, RegistryNow)
    BY <1>0, <1>5, <1>6, <2>2, EarnedByMove
  <2>4. Counted(n, r, project[p], contribution[p])
    BY <1>4, <2>2, CountedSame DEF Moved
  <2>5. Allowed(p, i, n, r, "Active")
    BY <1>1, <1>4, <2>2, <2>3, <2>4 DEF Allowed, Moved
  <2>6. Decision(p, i, n, r, "Active")
    BY <1>0, <1>1, <1>2, RegistryAlone
  <2>7. QED
    BY <2>5, <2>6, DecisionStep
<1>9. CASE ~(a.verify_count >= Policy.reviewer_threshold)
           /\ ~(a.reject_count >= Policy.reviewer_threshold)
  <2>1. n = a
    BY <1>9 DEF AfterAttestation
  <2> HIDE DEF n
  <2>2. Earned(n, power, RegistryNow)
    BY <1>5, <1>6, <2>1 DEF Earned
  <2>3. Allowed(p, i, n, r, "Active")
    BY <1>1, <1>4, <1>5, <2>1, <2>2 DEF Allowed
  <2>4. Decision(p, i, n, r, "Active")
    BY <1>0, <1>1, <1>2, RegistryAlone
  <2>5. QED
    BY <2>3, <2>4, DecisionStep
<1>10. QED
  BY <1>7, <1>8, <1>9

\* What one vote of an arbitrator does to a disputed milestone.
LEMMA JudgedOK ==
  ASSUME NEW m \in Milestone, NEW decision \in ArbitrationDecisions
  PROVE  LET a == Judged(m, decision) IN
         /\ a \in Milestone /\ a.status = m.status
         /\ a.stage_started_at = m.stage_started_at /\ a.verify_count = m.verify_count
         /\ a.reject_count = m.reject_count
         /\ a.approve_weight = m.approve_weight /\ a.dispute_weight = m.dispute_weight
         /\ a.arbitration_approve = IF decision = "ApproveRelease"
                                    THEN m.arbitration_approve + 1 ELSE m.arbitration_approve
         /\ a.arbitration_reject = IF decision = "RejectMilestone"
                                   THEN m.arbitration_reject + 1 ELSE m.arbitration_reject
         /\ a.arbitration_rework = IF decision = "RequireRework"
                                   THEN m.arbitration_rework + 1 ELSE m.arbitration_rework
<1>1. /\ m.arbitration_approve + 1 \in Nat /\ m.arbitration_reject + 1 \in Nat
      /\ m.arbitration_rework + 1 \in Nat
  BY MilestoneNumbers
<1>2. CASE decision = "ApproveRelease"
  BY <1>1, <1>2 DEF Judged, Milestone
<1>3. CASE decision = "RejectMilestone"
  BY <1>1, <1>3 DEF Judged, Milestone
<1>4. CASE decision = "RequireRework"
  BY <1>1, <1>4 DEF Judged, Milestone
<1>5. QED
  BY <1>2, <1>3, <1>4 DEF ArbitrationDecisions

\* arbitrate
LEMMA ArbitrateInv ==
  ASSUME Grounds, NEW p \in Projects, NEW i \in DOMAIN milestones[p], NEW w \in Wallets,
         NEW attempt, NEW decision \in Arbitrations, Arbitrate(p, i, w, attempt, decision)
  PROVE  RegistryInv'
<1> DEFINE m == milestones[p][i]
           a == Judged(m, decision)
           r == [receipts[p] EXCEPT !.arbitrated[w] = decision]
           D == ArbitrationDecisions
           more == [receipts[p].arbitrated EXCEPT ![w] = decision]
<1>0. RegistryInv /\ RegistryNow \in Nat
  BY DEF Grounds
<1>1. /\ project[p] # NoProject /\ project[p].status = "Disputed"
      /\ m.status = "Disputed" /\ receipts[p].arbitrated[w] = None
      /\ SetMilestone(p, i, a)
      /\ DecisionOnly /\ UNCHANGED project
  BY DEF Arbitrate, DisputedAt, HasStatus
<1>2. i = Current(p)
  BY <1>0, <1>1, OnlyCurrent
<1>3. receipts' = [receipts EXCEPT ![p] = r]
  BY <1>0 DEF Arbitrate, RegistryInv, ProjectTypes
<1>4. /\ m \in Milestone /\ receipts[p] \in Receipts
      /\ Earned(m, project[p].eligible_voting_power, RegistryNow)
      /\ Counted(m, receipts[p], project[p], contribution[p])
  BY <1>0, <1>1, <1>2, OfCurrent
<1>5. /\ decision \in D /\ None \notin D /\ receipts[p].arbitrated \in Ballots(D)
      /\ "ApproveRelease" \in D /\ "RejectMilestone" \in D /\ "RequireRework" \in D
  BY <1>4, RegistryAssumption DEF Receipts, ArbitrationDecisions
<1>7. r = [receipts[p] EXCEPT !.arbitrated = more]
  BY <1>4 DEF Receipts
<1>16. /\ more \in Ballots(D) /\ more[w] = decision
       /\ \A x \in Wallets : x # w => more[x] = receipts[p].arbitrated[x]
  BY <1>5 DEF Ballots
<1> HIDE DEF more
<1>6. \A d \in D : Cardinality(Cast(more, d))
           = IF d = decision THEN Cardinality(Cast(receipts[p].arbitrated, d)) + 1
                             ELSE Cardinality(Cast(receipts[p].arbitrated, d))
  <2> HIDE DEF D
  <2>1. QED
    BY <1>1, <1>5, <1>16, BallotAdded
<1>8. /\ r \in Receipts /\ r.arbitrated = more
      /\ r.attested = receipts[p].attested /\ r.voted = receipts[p].voted
  BY <1>4, <1>7, <1>16 DEF Receipts
<1>9. /\ a \in Milestone /\ a.status = "Disputed"
      /\ a.stage_started_at = m.stage_started_at /\ a.verify_count = m.verify_count
      /\ a.reject_count = m.reject_count
      /\ a.approve_weight = m.approve_weight /\ a.dispute_weight = m.dispute_weight
      /\ a.arbitration_approve = IF decision = "ApproveRelease"
                                 THEN m.arbitration_approve + 1 ELSE m.arbitration_approve
      /\ a.arbitration_reject = IF decision = "RejectMilestone"
                                THEN m.arbitration_reject + 1 ELSE m.arbitration_reject
      /\ a.arbitration_rework = IF decision = "RequireRework"
                                THEN m.arbitration_rework + 1 ELSE m.arbitration_rework
  BY <1>1, <1>4, <1>5, JudgedOK
<1> HIDE DEF r, a
<1>10. /\ WeightOf(project[p], contribution[p], r, "Approve")
            = WeightOf(project[p], contribution[p], receipts[p], "Approve")
       /\ WeightOf(project[p], contribution[p], r, "Dispute")
            = WeightOf(project[p], contribution[p], receipts[p], "Dispute")
  BY <1>8 DEF WeightOf
<1>11. Counted(a, r, project[p], contribution[p])
  BY <1>4, <1>5, <1>6, <1>8, <1>9, <1>10 DEF Counted
<1>12. Earned(a, project[p].eligible_voting_power, RegistryNow)
  BY <1>1, <1>4, <1>9 DEF Earned
<1>13. Allowed(p, i, a, r, "Disputed")
  BY <1>1, <1>2, <1>8, <1>9, <1>11, <1>12 DEF Allowed
<1>14. Decision(p, i, a, r, "Disputed")
  BY <1>0, <1>1, <1>3, RegistryAlone
<1>15. QED
  BY <1>13, <1>14, DecisionStep

\* Voting power is a number of units.
LEMMA VotingPowerNat ==
  ASSUME NEW goal \in Nat, NEW amount \in Nat
  PROVE  VotingPower(goal, amount) \in Nat
<1> DEFINE cap == (goal * Policy.max_vote_power_bps) \div BPS_DENOMINATOR
<1>1. goal * Policy.max_vote_power_bps \in Nat /\ BPS_DENOMINATOR \in Nat \ {0}
  BY PolicyNumbers DEF BPS_DENOMINATOR
<1>2. cap \in Nat
  BY <1>1, Floor
<1> HIDE DEF cap
<1>3. VotingPower(goal, amount) = IF amount < cap THEN amount ELSE cap
  BY DEF VotingPower, cap
<1>4. QED
  BY <1>2, <1>3

\* The powers of the contributors of a project are numbers of units.
LEMMA PowersNat ==
  ASSUME NEW pr, pr.goal \in Nat, NEW given \in [Contributors -> Nat]
  PROVE  \A c \in Contributors : Powers(pr, given)[c] \in Nat
BY VotingPowerNat DEF Powers

\* What one vote does to a milestone.
LEMMA WeighedOK ==
  ASSUME NEW m \in Milestone, NEW decision \in ContributorDecisions, NEW weight \in Nat
  PROVE  LET a == Weighed(m, decision, weight) IN
         /\ a \in Milestone /\ a.status = m.status
         /\ a.stage_started_at = m.stage_started_at
         /\ a.verify_count = m.verify_count /\ a.reject_count = m.reject_count
         /\ a.approve_weight = IF decision = "Approve"
                               THEN m.approve_weight + weight ELSE m.approve_weight
         /\ a.dispute_weight = IF decision = "Dispute"
                               THEN m.dispute_weight + weight ELSE m.dispute_weight
         /\ a.arbitration_approve = m.arbitration_approve
         /\ a.arbitration_reject = m.arbitration_reject
         /\ a.arbitration_rework = m.arbitration_rework
<1>1. m.approve_weight + weight \in Nat /\ m.dispute_weight + weight \in Nat
  BY MilestoneNumbers
<1>2. CASE decision = "Approve"
  BY <1>1, <1>2 DEF Weighed, Milestone
<1>3. CASE decision = "Dispute"
  BY <1>1, <1>3 DEF Weighed, Milestone
<1>4. QED
  BY <1>2, <1>3 DEF ContributorDecisions

\* The weight behind a decision grows by the power of whoever takes it.
LEMMA WeightAdded ==
  ASSUME NEW pr, pr.goal \in Nat, NEW given \in [Contributors -> Nat],
         NEW r, NEW s, NEW c \in Contributors, NEW d,
         c \notin Cast(r.voted, d), Cast(s.voted, d) = Cast(r.voted, d) \cup {c}
  PROVE  WeightOf(pr, given, s, d)
           = WeightOf(pr, given, r, d) + VotingPower(pr.goal, given[c])
<1> DEFINE S == Cast(r.voted, d) \cap Contributors
           f == Powers(pr, given)
<1>1. Cast(s.voted, d) \cap Contributors = S \cup {c}
  OBVIOUS
<1>2. IsFiniteSet(S) /\ c \notin S
  BY FS_Subset, EscrowAssumption
<1>3. \A x \in S : f[x] \in Int
  BY PowersNat
<1>4. f[c] \in Int /\ f[c] = VotingPower(pr.goal, given[c])
  BY PowersNat DEF Powers
<1>5. WeightOf(pr, given, s, d) = SumFunctionOnSet(f, S \cup {c})
  BY <1>1 DEF WeightOf
<1>6. WeightOf(pr, given, r, d) = SumFunctionOnSet(f, S)
  BY DEF WeightOf
<1> HIDE DEF S, f
<1>7. SumFunctionOnSet(f, S \cup {c}) = SumFunctionOnSet(f, S) + f[c]
  BY <1>2, <1>3, <1>4, SumAdd
<1>8. QED
  BY <1>4, <1>5, <1>6, <1>7

\* The counters of a vote that the receipts take in too.
LEMMA WeighedCounted ==
  ASSUME NEW m \in Milestone, NEW r \in Receipts, NEW pr, pr.goal \in Nat,
         NEW given \in [Contributors -> Nat], Counted(m, r, pr, given),
         NEW c \in Contributors, r.voted[c] = None, NEW decision \in ContributorDecisions
  PROVE  LET s == [r EXCEPT !.voted[c] = decision]
             a == Weighed(m, decision, VotingPower(pr.goal, given[c]))
         IN  s \in Receipts /\ Counted(a, s, pr, given)
<1> DEFINE s == [r EXCEPT !.voted[c] = decision]
           weight == VotingPower(pr.goal, given[c])
           a == Weighed(m, decision, weight)
           D == ContributorDecisions
           more == [r.voted EXCEPT ![c] = decision]
<1>1. /\ r.voted \in Ballots(D) /\ None \notin D /\ "Approve" \in D /\ "Dispute" \in D
      /\ c \in Wallets
  BY RegistryAssumption DEF Receipts, ContributorDecisions
<1>2. /\ more \in Ballots(D) /\ more[c] = decision
      /\ \A x \in Wallets : x # c => more[x] = r.voted[x]
  BY <1>1 DEF Ballots
<1>3. s = [r EXCEPT !.voted = more]
  BY DEF Receipts
<1> HIDE DEF more
<1>4. /\ s \in Receipts /\ s.voted = more /\ s.attested = r.attested
      /\ s.arbitrated = r.arbitrated
  BY <1>2, <1>3 DEF Receipts
<1> HIDE DEF s
<1>5. \A d \in D : /\ c \notin Cast(r.voted, d)
                   /\ Cast(s.voted, d) = IF d = decision THEN Cast(r.voted, d) \cup {c}
                                                         ELSE Cast(r.voted, d)
  <2> HIDE DEF D
  <2>0. decision \in D
    BY DEF D
  <2>1. QED
    BY <1>1, <1>2, <1>4, <2>0, BallotAdded
<1>6. ASSUME NEW d \in D
      PROVE  WeightOf(pr, given, s, d)
               = IF d = decision THEN WeightOf(pr, given, r, d) + weight
                                 ELSE WeightOf(pr, given, r, d)
  <2> HIDE DEF D, s
  <2>1. CASE d = decision
    <3>1. c \notin Cast(r.voted, d) /\ Cast(s.voted, d) = Cast(r.voted, d) \cup {c}
      BY <1>5, <2>1
    <3>2. WeightOf(pr, given, s, d) = WeightOf(pr, given, r, d) + weight
      BY <3>1, WeightAdded
    <3>3. QED
      BY <2>1, <3>2
  <2>2. CASE d # decision
    <3>1. Cast(s.voted, d) = Cast(r.voted, d)
      BY <1>5, <2>2
    <3>2. QED
      BY <2>2, <3>1 DEF WeightOf
  <2>3. QED
    BY <2>1, <2>2
<1>7. weight \in Nat
  BY VotingPowerNat
<1> HIDE DEF weight
<1>8. /\ a.verify_count = m.verify_count /\ a.reject_count = m.reject_count
      /\ a.approve_weight = IF decision = "Approve"
                            THEN m.approve_weight + weight ELSE m.approve_weight
      /\ a.dispute_weight = IF decision = "Dispute"
                            THEN m.dispute_weight + weight ELSE m.dispute_weight
      /\ a.arbitration_approve = m.arbitration_approve
      /\ a.arbitration_reject = m.arbitration_reject
      /\ a.arbitration_rework = m.arbitration_rework
  BY <1>7, WeighedOK
<1> HIDE DEF a
<1>9. Counted(a, s, pr, given)
  <2> HIDE DEF D
  <2>1. QED
    BY <1>1, <1>4, <1>6, <1>8 DEF Counted
<1>10. QED
  BY <1>4, <1>9 DEF a, s, weight

\* vote_milestone
LEMMA VoteInv ==
  ASSUME Grounds, NEW p \in Projects, NEW i \in DOMAIN milestones[p], NEW c \in Contributors,
         NEW attempt, NEW hash, NEW decision \in ContributorDecisions,
         Vote(p, i, c, attempt, hash, decision)
  PROVE  RegistryInv'
<1> DEFINE m == milestones[p][i]
           pr == project[p]
           weight == VotingPower(pr.goal, contribution[p][c])
           a == Weighed(m, decision, weight)
           r == [receipts[p] EXCEPT !.voted[c] = decision]
           power == pr.eligible_voting_power
           reached == RatioReached(a.dispute_weight, power, Policy.dispute_bps)
<1>0. RegistryInv /\ RegistryNow \in Nat
  BY DEF Grounds
<1>1. /\ pr # NoProject /\ pr.status = "Active" /\ i = Current(p)
      /\ m.status = "Voting" /\ receipts[p].voted[c] = None
      /\ DecisionOnly
  BY DEF Vote, ActiveAtCurrent, ActiveAt
<1>2. IF reached THEN SetMilestone(p, i, Disputed(a)) /\ SetStatus(p, "Disputed")
                 ELSE SetMilestone(p, i, a) /\ UNCHANGED project
  BY DEF Vote
<1>3. receipts' = [receipts EXCEPT ![p] = r]
  BY <1>0 DEF Vote, RegistryInv, ProjectTypes
<1>4. /\ m \in Milestone /\ receipts[p] \in Receipts /\ pr \in Project
      /\ Earned(m, power, RegistryNow)
      /\ Counted(m, receipts[p], pr, contribution[p])
      /\ contribution[p] \in [Contributors -> Nat]
  BY <1>0, <1>1, OfCurrent
<1>5. pr.goal \in Nat /\ contribution[p][c] \in Nat /\ power \in Nat
  BY <1>4 DEF Project
<1>6. weight \in Nat
  BY <1>5, VotingPowerNat
<1>7. r \in Receipts /\ Counted(a, r, pr, contribution[p])
  BY <1>1, <1>4, <1>5, WeighedCounted
<1> HIDE DEF weight
<1>8. /\ a \in Milestone /\ a.status = "Voting" /\ a.verify_count = m.verify_count
      /\ a.stage_started_at = m.stage_started_at
  BY <1>1, <1>4, <1>6, WeighedOK
<1>9. a.verify_count >= Policy.reviewer_threshold /\ a.stage_started_at <= RegistryNow
  BY <1>1, <1>4, <1>8 DEF Earned
<1> HIDE DEF a, r
<1>10. CASE reached
  <2> DEFINE n == Disputed(a)
  <2>1. Moved(a, n, "Disputed")
    BY <1>0, <1>8, StageOK
  <2>2. SetMilestone(p, i, n) /\ SetStatus(p, "Disputed")
    BY <1>2, <1>10
  <2> HIDE DEF n
  <2>3. Earned(n, power, RegistryNow)
    BY <1>0, <1>5, <1>8, <1>9, <2>1, EarnedByMove
  <2>4. Counted(n, r, pr, contribution[p])
    BY <1>7, <2>1, CountedSame DEF Moved
  <2>5. Allowed(p, i, n, r, "Disputed")
    BY <1>1, <1>7, <2>1, <2>3, <2>4 DEF Allowed, Moved
  <2>6. Decision(p, i, n, r, "Disputed")
    BY <1>1, <1>3, <2>2 DEF Decision, SetMilestone, SetStatus, DecisionOnly
  <2>7. QED
    BY <2>5, <2>6, DecisionStep
<1>11. CASE ~reached
  <2>1. Earned(a, power, RegistryNow)
    BY <1>8, <1>9, <1>11 DEF Earned
  <2>2. Allowed(p, i, a, r, "Active")
    BY <1>1, <1>7, <1>8, <2>1 DEF Allowed
  <2>3. SetMilestone(p, i, a) /\ UNCHANGED project
    BY <1>2, <1>11
  <2>4. Decision(p, i, a, r, "Active")
    BY <1>0, <1>1, <1>3, <2>3, RegistryAlone
  <2>5. QED
    BY <2>2, <2>4, DecisionStep
<1>12. QED
  BY <1>10, <1>11

-----------------------------------------------------------------------------
(* The end of a dispute, rework, and the timeouts that fail a project.      *)

\* finalize_dispute
LEMMA FinalizeDisputeInv ==
  ASSUME Grounds, NEW p \in Projects, NEW i, FinalizeDispute(p, i)
  PROVE  RegistryInv'
<1> DEFINE m == milestones[p][i]
<1>0. RegistryInv /\ RegistryNow \in Nat
  BY DEF Grounds
<1>1. /\ project[p] # NoProject /\ project[p].status = "Disputed"
      /\ i \in DOMAIN milestones[p] /\ m.status = "Disputed"
      /\ UNCHANGED <<registry_admin, next_project_id, accepted>>
  BY DEF FinalizeDispute, DisputedAt, HasStatus
<1>2. i = Current(p)
  BY <1>0, <1>1, OnlyCurrent
<1>3. /\ m \in Milestone /\ receipts[p] \in Receipts
      /\ Earned(m, project[p].eligible_voting_power, RegistryNow)
  BY <1>0, <1>1, <1>2, OfCurrent
<1>4. CASE /\ Verdict(m) = "ApproveRelease" /\ SetMilestone(p, i, Entered(m, "Approved"))
           /\ SetStatus(p, "Active") /\ UNCHANGED <<escrow_vars, receipts>>
  <2> DEFINE n == Entered(m, "Approved")
  <2>1. Moved(m, n, "Approved") /\ "Approved" \in MilestoneStatus
    BY <1>0, <1>3, EnteredOK DEF MilestoneStatus
  <2>2. SetMilestone(p, i, n)
    BY <1>4
  <2> HIDE DEF n
  <2>3. m.arbitration_approve >= Policy.arbitrator_threshold
    BY <1>4 DEF Verdict
  <2>4. Deserved(n, project[p].eligible_voting_power)
    BY <2>1, <2>3 DEF Deserved, Moved, SameCounts
  <2>5. m.verify_count >= Policy.reviewer_threshold
    BY <1>1, <1>3 DEF Earned
  <2>6. receipts' = [receipts EXCEPT ![p] = receipts[p]]
    BY <1>0, <1>4, SameReceipts
  <2>7. Allowed(p, i, n, receipts[p], "Active")
    BY <1>0, <1>1, <1>2, <1>3, <2>1, <2>4, <2>5, MoveAllowed
  <2>8. Decision(p, i, n, receipts[p], "Active")
    BY <1>1, <1>4, <2>2, <2>6 DEF Decision, SetMilestone, SetStatus
  <2>9. QED
    BY <2>7, <2>8, DecisionStep
<1>5. CASE /\ CanRework(m) /\ SetMilestone(p, i, ResetForRework(m))
           /\ SetStatus(p, "Active") /\ receipts' = [receipts EXCEPT ![p] = NoReceipts]
           /\ UNCHANGED escrow_vars
  <2>1. Allowed(p, i, ResetForRework(m), NoReceipts, "Active")
    BY <1>0, <1>1, <1>2, <1>5, ResetAllowed
  <2>2. Decision(p, i, ResetForRework(m), NoReceipts, "Active")
    BY <1>1, <1>5 DEF Decision, SetMilestone, SetStatus
  <2>3. QED
    BY <2>1, <2>2, DecisionStep
<1>6. CASE /\ SetMilestone(p, i, Entered(m, "Rejected")) /\ FailProject(p)
           /\ UNCHANGED receipts
  <2> DEFINE n == Entered(m, "Rejected")
  <2>1. Moved(m, n, "Rejected") /\ "Rejected" \in MilestoneStatus
    BY <1>0, <1>3, EnteredOK DEF MilestoneStatus
  <2>2. SetMilestone(p, i, n)
    BY <1>6
  <2> HIDE DEF n
  <2>3. receipts' = [receipts EXCEPT ![p] = receipts[p]]
    BY <1>0, <1>6, SameReceipts
  <2>4. Allowed(p, i, n, receipts[p], "Failed")
    BY <1>0, <1>1, <1>2, <1>3, <2>1, MoveAllowed
  <2>5. Decision(p, i, n, receipts[p], "Failed")
    BY <1>1, <1>6, <2>2, <2>3 DEF Decision, SetMilestone, SetStatus, FailProject
  <2>6. QED
    BY <2>4, <2>5, DecisionStep
<1>7. QED
  BY <1>4, <1>5, <1>6 DEF FinalizeDispute

\* start_rework
LEMMA StartReworkInv ==
  ASSUME Grounds, NEW p \in Projects, NEW i \in DOMAIN milestones[p], StartRework(p, i)
  PROVE  RegistryInv'
<1> DEFINE m == milestones[p][i]
<1>0. RegistryInv /\ RegistryNow \in Nat
  BY DEF Grounds
<1>1. /\ project[p] # NoProject /\ project[p].status = "Active" /\ m.status = "Rejected"
      /\ CanRework(m) /\ SetMilestone(p, i, ResetForRework(m))
      /\ receipts' = [receipts EXCEPT ![p] = NoReceipts]
      /\ DecisionOnly /\ UNCHANGED project
  BY DEF StartRework, ActiveAt
<1>2. i = Current(p)
  BY <1>0, <1>1, OnlyCurrent
<1>3. Allowed(p, i, ResetForRework(m), NoReceipts, "Active")
  BY <1>0, <1>1, <1>2, ResetAllowed
<1>4. Decision(p, i, ResetForRework(m), NoReceipts, "Active")
  BY <1>0, <1>1, RegistryAlone
<1>5. QED
  BY <1>3, <1>4, DecisionStep

\* timeout_to_rejected
LEMMA RejectForTimeoutInv ==
  ASSUME Grounds, NEW p \in Projects, NEW i, project[p] # NoProject,
         project[p].status = "Active", i = Current(p), RejectForTimeout(p, i)
  PROVE  RegistryInv'
<1> DEFINE m == milestones[p][i]
           n == MarkRejected(m)
<1>0. RegistryInv /\ RegistryNow \in Nat
  BY DEF Grounds
<1>1. /\ SetMilestone(p, i, n)
      /\ IF CanRework(m) THEN UNCHANGED <<escrow_vars, project>> ELSE FailProject(p)
      /\ UNCHANGED <<registry_admin, next_project_id, accepted, receipts>>
  BY DEF RejectForTimeout
<1>2. m \in Milestone /\ receipts[p] \in Receipts
  BY <1>0, OfCurrent
<1>3. Moved(m, n, "Rejected") /\ "Rejected" \in MilestoneStatus
  BY <1>0, <1>2, StageOK DEF MilestoneStatus
<1> HIDE DEF n
<1>4. receipts' = [receipts EXCEPT ![p] = receipts[p]]
  BY <1>0, <1>1, SameReceipts
<1>5. CASE CanRework(m)
  <2>1. DecisionOnly /\ UNCHANGED <<project, receipts>>
    BY <1>1, <1>5 DEF DecisionOnly
  <2>2. QED
    BY <1>1, <1>3, <2>1, StageStep
<1>6. CASE ~CanRework(m)
  <2>1. Allowed(p, i, n, receipts[p], "Failed")
    BY <1>0, <1>2, <1>3, MoveAllowed
  <2>2. Decision(p, i, n, receipts[p], "Failed")
    BY <1>1, <1>4, <1>6 DEF Decision, SetMilestone, SetStatus, FailProject
  <2>3. QED
    BY <2>1, <2>2, DecisionStep
<1>7. QED
  BY <1>5, <1>6

\* The timeout of a rework that nobody began.
LEMMA NoReworkInv ==
  ASSUME Grounds, NEW p \in Projects, NEW i, project[p] # NoProject,
         project[p].status = "Active", i = Current(p), FailProject(p),
         UNCHANGED <<registry_admin, next_project_id, milestones, accepted, receipts>>,
         milestones[p][i].status = "Rejected"
  PROVE  RegistryInv'
<1> DEFINE m == milestones[p][i]
<1>0. RegistryInv /\ ProjectTypes
  BY DEF Grounds, RegistryInv
<1>1. /\ m \in Milestone /\ receipts[p] \in Receipts
      /\ Earned(m, project[p].eligible_voting_power, RegistryNow)
      /\ Counted(m, receipts[p], project[p], contribution[p])
      /\ i \in DOMAIN milestones[p]
  BY <1>0, OfCurrent
<1>2. receipts' = [receipts EXCEPT ![p] = receipts[p]]
  BY <1>0, SameReceipts
<1>3. milestones' = [milestones EXCEPT ![p][i] = m]
  <2>1. milestones[p] \in MilestoneLists /\ milestones[p] # <<>>
    BY <1>0, OfProject
  <2>2. PICK n \in 2..5 : milestones[p] \in [0..(n - 1) -> Milestone]
    BY <2>1, ListShape
  <2>3. [milestones[p] EXCEPT ![i] = m] = milestones[p]
    BY <1>1, <2>2
  <2>4. QED
    BY <1>0, <2>3 DEF ProjectTypes
<1>4. Decision(p, i, m, receipts[p], "Failed")
  BY <1>2, <1>3 DEF Decision, SetStatus, FailProject
<1>5. Allowed(p, i, m, receipts[p], "Failed")
  BY <1>1 DEF Allowed
<1>6. QED
  BY <1>4, <1>5, DecisionStep

-----------------------------------------------------------------------------
(* Steps that write a project, and what its vault must look like then.      *)

\* What a step that writes the project p has to show of what it writes.
LEMMA ProjectWritten ==
  ASSUME Grounds, NEW p \in Projects, NEW new \in Project, NEW mn \in MilestoneLists, mn # <<>>,
         NEW seats \in Roster, NEW r \in Receipts,
         project' = [project EXCEPT ![p] = new],
         milestones' = [milestones EXCEPT ![p] = mn],
         accepted' = [accepted EXCEPT ![p] = seats],
         receipts' = [receipts EXCEPT ![p] = r],
         \A q \in Projects : q # p => vault'[q] = vault[q] /\ contribution'[q] = contribution[q],
         next_project_id' \in Nat, next_project_id' >= next_project_id, p < next_project_id',
         Staged(new, mn), Backed(new, vault'[p]), Apart(new, seats, contribution'[p]),
         \A i \in DOMAIN mn : Earned(mn[i], new.eligible_voting_power, RegistryNow'),
         Eligible(new, contribution'[p]),
         Counted(mn[new.current_milestone], r, new, contribution'[p]),
         new.status \in BeforeDelivery => r = NoReceipts
  PROVE  RegistryInv'
<1>1. ProjectTypes /\ IdsFresh
  BY DEF Grounds, RegistryInv
<1>2. /\ project'[p] = new /\ milestones'[p] = mn /\ accepted'[p] = seats /\ receipts'[p] = r
      /\ new # NoProject
  BY <1>1, RegistryAssumption DEF ProjectTypes
<1>3. ProjectTypes'
  BY <1>1 DEF ProjectTypes
<1>4. OnlyTouches(p)
  BY <1>1 DEF ProjectTypes, OnlyTouches
<1>5. IdsFresh'
  <2>1. Projects \subseteq Nat /\ next_project_id \in Nat \ {0}
    BY <1>1, RegistryAssumption DEF IdsFresh
  <2>2. ASSUME NEW q \in Projects, q >= next_project_id'
        PROVE  project'[q] = NoProject
    <3>1. q # p /\ q >= next_project_id
      BY <2>1, <2>2
    <3>2. QED
      BY <1>1, <1>4, <3>1 DEF IdsFresh, OnlyTouches
  <2>3. QED
    BY <2>1, <2>2 DEF IdsFresh
<1>6. ProjectOK(p)'
  BY <1>2 DEF ProjectOK
<1>7. QED
  BY <1>3, <1>4, <1>5, <1>6, OneProjectStep

\* The project new has the terms, the people and the totals of pr.
SameTerms(pr, new) ==
  /\ new.creator = pr.creator /\ new.payout = pr.payout
  /\ new.reviewers = pr.reviewers /\ new.arbitrators = pr.arbitrators
  /\ new.goal = pr.goal /\ new.funding_deadline = pr.funding_deadline
  /\ new.current_milestone = pr.current_milestone
  /\ new.contributor_count = pr.contributor_count
  /\ new.eligible_voting_power = pr.eligible_voting_power

\* The identifiers in use.
LEMMA IdInUse ==
  ASSUME RegistryInv, NEW p \in Projects, project[p] # NoProject
  PROVE  next_project_id \in Nat /\ p < next_project_id
<1>1. p \in Nat /\ next_project_id \in Nat /\ ~(p >= next_project_id)
  BY RegistryAssumption DEF RegistryInv, IdsFresh
<1>2. QED
  BY <1>1

\* A step that moves a project on, and neither its milestones nor its ballots.
LEMMA StatusStep ==
  ASSUME Grounds, NEW p \in Projects, project[p] # NoProject, NEW new \in Project,
         project' = [project EXCEPT ![p] = new], SameTerms(project[p], new),
         UNCHANGED <<milestones, accepted, receipts, next_project_id, contribution>>,
         \A q \in Projects : q # p => vault'[q] = vault[q],
         project[p].status # "Completed", new.status # "Completed",
         new.status \in BeforeDelivery => project[p].status \in BeforeDelivery,
         Backed(new, vault'[p])
  PROVE  RegistryInv'
<1> DEFINE pr == project[p]
           ms == milestones[p]
<1>0. RegistryInv /\ ProjectTypes
  BY DEF Grounds, RegistryInv
<1>1. /\ ms \in MilestoneLists /\ ms # <<>> /\ Staged(pr, ms)
      /\ Apart(pr, accepted[p], contribution[p])
      /\ Eligible(pr, contribution[p])
      /\ Counted(ms[pr.current_milestone], receipts[p], pr, contribution[p])
      /\ pr.status \in BeforeDelivery => receipts[p] = NoReceipts
      /\ receipts[p] \in Receipts /\ accepted[p] \in Roster
  BY <1>0, OfProject
<1>2. \A i \in DOMAIN ms : Earned(ms[i], new.eligible_voting_power, RegistryNow')
  <2> SUFFICES ASSUME NEW i \in DOMAIN ms
               PROVE  Earned(ms[i], new.eligible_voting_power, RegistryNow')
    OBVIOUS
  <2>1. ms[i] \in Milestone /\ Earned(ms[i], pr.eligible_voting_power, RegistryNow)
    BY <1>0, OfProject
  <2>2. QED
    BY <2>1, EarnedLater DEF Grounds, SameTerms
<1>3. PaidCount(new) = PaidCount(pr)
  BY DEF PaidCount, SameTerms
<1>4. Staged(new, ms)
  BY <1>1, <1>3 DEF Staged, SameTerms
<1>5. Apart(new, accepted[p], contribution[p])
  BY <1>1 DEF Apart, Conflicted, HasProjectRole, SameTerms
<1>6. Eligible(new, contribution[p])
  BY <1>1 DEF Eligible, Powers, SameTerms
<1>7. Counted(ms[new.current_milestone], receipts[p], new, contribution[p])
  BY <1>1 DEF Counted, WeightOf, Powers, SameTerms
<1>8. /\ milestones' = [milestones EXCEPT ![p] = ms]
      /\ accepted' = [accepted EXCEPT ![p] = accepted[p]]
      /\ receipts' = [receipts EXCEPT ![p] = receipts[p]]
  BY <1>0 DEF ProjectTypes
<1>9. contribution'[p] = contribution[p]
      /\ \A q \in Projects : q # p => contribution'[q] = contribution[q]
  OBVIOUS
<1>10. /\ next_project_id' \in Nat /\ next_project_id' >= next_project_id
       /\ p < next_project_id'
  BY <1>0, IdInUse
<1>11. new.status \in BeforeDelivery => receipts[p] = NoReceipts
  BY <1>1
<1> HIDE DEF pr, ms
<1>12. QED
  BY <1>1, <1>2, <1>4, <1>5, <1>6, <1>7, <1>8, <1>9, <1>10, <1>11, ProjectWritten

\* What enable_refunds leaves of the vaults.
LEMMA RefundsEnabled ==
  ASSUME RegistryInv, NEW p \in Projects, EnableRefunds(p)
  PROVE  LET v == vault[p]  w == vault'[p] IN
         /\ v \in Vault /\ v # NoVault /\ ~v.refundable
         /\ w \in Vault /\ w # NoVault
         /\ w.goal = v.goal /\ w.funding_deadline = v.funding_deadline
         /\ w.contributor_count = v.contributor_count /\ w.refundable
         /\ w.next_milestone = v.next_milestone
         /\ \A q \in Projects : q # p => vault'[q] = vault[q]
         /\ UNCHANGED <<contribution, release_receipt>>
<1> DEFINE v == vault[p]
           w == vault'[p]
<1>1. v # NoVault /\ ~v.refundable /\ vault' = [vault EXCEPT ![p] = WithRefunds(v)]
      /\ UNCHANGED <<contribution, release_receipt>>
  BY DEF EnableRefunds
<1>2. vault \in [Projects -> Vault \cup {NoVault}] /\ Accounting
  BY DEF RegistryInv, Books, EscrowInv, EscrowTypeOK
<1>3. v \in Vault /\ VaultOK(v) /\ w = WithRefunds(v)
      /\ \A q \in Projects : q # p => vault'[q] = vault[q]
  BY <1>1, <1>2 DEF Accounting, Opened
<1>4. w \in Vault
  BY <1>1, <1>3, WithRefundsOK
<1>5. w # NoVault
  BY <1>4, EscrowAssumption
<1>6. /\ w.goal = v.goal /\ w.funding_deadline = v.funding_deadline
      /\ w.contributor_count = v.contributor_count /\ w.refundable
      /\ w.next_milestone = v.next_milestone
  BY <1>3 DEF WithRefunds, Vault
<1>7. QED
  BY <1>1, <1>3, <1>4, <1>5, <1>6

\* A project that is called off with its refunds.
LEMMA CalledOff ==
  ASSUME Grounds, NEW p \in Projects, project[p] # NoProject,
         project[p].status # "Completed", NEW status \in {"Failed", "Cancelled"},
         EnableRefunds(p), SetStatus(p, status),
         UNCHANGED <<next_project_id, milestones, accepted, receipts>>
  PROVE  RegistryInv'
<1> DEFINE pr  == project[p]
           new == [pr EXCEPT !.status = status]
<1>0. RegistryInv /\ ProjectTypes
  BY DEF Grounds, RegistryInv
<1>1. pr \in Project /\ Backed(pr, vault[p])
  BY <1>0, OfProject
<1>2. new \in Project /\ SameTerms(pr, new) /\ new.status = status
  BY <1>1 DEF Project, SameTerms, ProjectStatus
<1>3. project' = [project EXCEPT ![p] = new]
  BY DEF SetStatus
<1> HIDE DEF new
<1>4. /\ vault[p] # NoVault /\ vault'[p] # NoVault
      /\ vault'[p].goal = vault[p].goal
      /\ vault'[p].funding_deadline = vault[p].funding_deadline
      /\ vault'[p].contributor_count = vault[p].contributor_count
      /\ vault'[p].refundable
      /\ vault'[p].next_milestone = vault[p].next_milestone
      /\ \A q \in Projects : q # p => vault'[q] = vault[q]
      /\ UNCHANGED contribution
  BY <1>0, RefundsEnabled
<1>5. PaidCount(new) = PaidCount(pr)
  BY <1>2 DEF PaidCount, SameTerms
<1>6. Backed(new, vault'[p])
  BY <1>1, <1>2, <1>4, <1>5 DEF Backed, SameTerms
<1>7. new.status # "Completed" /\ ~(new.status \in BeforeDelivery)
  BY <1>2 DEF BeforeDelivery
<1>8. QED
  BY <1>0, <1>2, <1>3, <1>4, <1>6, <1>7, StatusStep

-----------------------------------------------------------------------------
(* Drafts, roles and funding.                                               *)

\* update_draft
LEMMA UpdateDraftInv ==
  ASSUME Grounds, NEW p \in Projects, NEW metadata \in MetadataInputs, UpdateDraft(p, metadata)
  PROVE  RegistryInv'
<1> DEFINE pr  == project[p]
           new == [pr EXCEPT !.metadata = metadata]
<1>0. RegistryInv
  BY DEF Grounds
<1>1. /\ pr # NoProject /\ pr.status = "Draft" /\ project' = [project EXCEPT ![p] = new]
      /\ UNCHANGED <<milestones, accepted, receipts, next_project_id, contribution, vault>>
  BY DEF UpdateDraft, HasStatus, escrow_vars, vault_vars
<1>2. pr \in Project /\ Backed(pr, vault[p])
  BY <1>0, <1>1, OfProject
<1>3. new \in Project /\ SameTerms(pr, new) /\ new.status = "Draft"
  BY <1>1, <1>2 DEF Project, SameTerms
<1> HIDE DEF new
<1>4. Backed(new, vault'[p])
  BY <1>1, <1>2, <1>3 DEF Backed, SameTerms, PaidCount
<1>5. QED
  BY <1>1, <1>3, <1>4, StatusStep

\* accept_reviewer and accept_arbitrator
LEMMA AcceptRoleInv ==
  ASSUME Grounds, NEW p \in Projects, NEW role \in {"reviewers", "arbitrators"},
         NEW w \in Wallets, AcceptRole(p, role, w)
  PROVE  RegistryInv'
<1> DEFINE pr == project[p]
           ms == milestones[p]
           seats == [accepted[p] EXCEPT ![role] = @ \cup {w}]
<1>0. RegistryInv /\ ProjectTypes
  BY DEF Grounds, RegistryInv
<1>1. /\ pr # NoProject /\ pr.status = "Draft" /\ w \in pr[role]
      /\ UNCHANGED <<project, milestones, receipts, next_project_id, contribution, vault>>
      /\ UNCHANGED <<registry_clock, now>>
  BY DEF AcceptRole, HasStatus, escrow_vars, vault_vars, registry_admin
<1>2. accepted' = [accepted EXCEPT ![p] = seats]
  BY <1>0 DEF AcceptRole, ProjectTypes
<1>3. /\ pr \in Project /\ ms \in MilestoneLists /\ ms # <<>> /\ Staged(pr, ms)
      /\ Backed(pr, vault[p])
      /\ Apart(pr, accepted[p], contribution[p])
      /\ \A i \in DOMAIN ms : Earned(ms[i], pr.eligible_voting_power, RegistryNow)
      /\ Eligible(pr, contribution[p])
      /\ Counted(ms[pr.current_milestone], receipts[p], pr, contribution[p])
      /\ pr.status \in BeforeDelivery => receipts[p] = NoReceipts
      /\ receipts[p] \in Receipts /\ accepted[p] \in Roster
  BY <1>0, <1>1, OfProject
<1>4. seats \in Roster /\ Apart(pr, seats, contribution[p])
  <2>1. CASE role = "reviewers"
    <3>1. seats = [accepted[p] EXCEPT !.reviewers = @ \cup {w}]
      BY <2>1
    <3>2. /\ seats \in Roster /\ seats.arbitrators = accepted[p].arbitrators
          /\ seats.reviewers = accepted[p].reviewers \cup {w}
      BY <1>3, <3>1 DEF Roster
    <3>3. w \in pr.reviewers
      BY <1>1, <2>1
    <3>4. QED
      BY <1>3, <3>2, <3>3 DEF Apart
  <2>2. CASE role = "arbitrators"
    <3>1. seats = [accepted[p] EXCEPT !.arbitrators = @ \cup {w}]
      BY <2>2
    <3>2. /\ seats \in Roster /\ seats.reviewers = accepted[p].reviewers
          /\ seats.arbitrators = accepted[p].arbitrators \cup {w}
      BY <1>3, <3>1 DEF Roster
    <3>3. w \in pr.arbitrators
      BY <1>1, <2>2
    <3>4. QED
      BY <1>3, <3>2, <3>3 DEF Apart
  <2>3. QED
    BY <2>1, <2>2
<1> HIDE DEF seats
<1>5. /\ project' = [project EXCEPT ![p] = pr]
      /\ milestones' = [milestones EXCEPT ![p] = ms]
      /\ receipts' = [receipts EXCEPT ![p] = receipts[p]]
  BY <1>0, <1>1 DEF ProjectTypes
<1>6. RegistryNow' = RegistryNow
  BY <1>1 DEF RegistryNow, Effective, Paused
<1>7. /\ next_project_id' \in Nat /\ next_project_id' >= next_project_id
      /\ p < next_project_id'
  BY <1>0, <1>1, IdInUse
<1>8. /\ contribution'[p] = contribution[p] /\ vault'[p] = vault[p]
      /\ \A q \in Projects : q # p => vault'[q] = vault[q] /\ contribution'[q] = contribution[q]
  BY <1>1
<1> HIDE DEF pr, ms
<1>9. QED
  BY <1>2, <1>3, <1>4, <1>5, <1>6, <1>7, <1>8, ProjectWritten

\* The amounts that open_funding reads off the milestones are a plan.
LEMMA PlanOK ==
  ASSUME NEW ms \in MilestoneLists, ms # <<>>
  PROVE  [m \in 1..Cardinality(DOMAIN ms) |-> ms[m - 1].amount] \in Seq(Int)
<1>1. /\ Cardinality(DOMAIN ms) \in 2..5
      /\ DOMAIN ms = 0..(Cardinality(DOMAIN ms) - 1)
      /\ \A i \in DOMAIN ms : ms[i] \in Milestone
  BY ListIndices
<1> DEFINE n == Cardinality(DOMAIN ms)
<1>2. n \in Nat
  BY <1>1
<1>3. ASSUME NEW m \in 1..n PROVE ms[m - 1].amount \in Int
  <2>1. m - 1 \in 0..(n - 1)
    BY <1>2
  <2>2. ms[m - 1] \in Milestone
    BY <1>1, <2>1
  <2>3. QED
    BY <2>2 DEF Milestone
<1> HIDE DEF n
<1>4. [m \in 1..n |-> ms[m - 1].amount] \in [1..n -> Int]
  BY <1>3
<1>5. [m \in 1..n |-> ms[m - 1].amount] \in Seq(Int)
  BY <1>2, <1>4
<1>6. QED
  BY <1>5 DEF n

\* A vault that has just been opened.
LEMMA FreshVault ==
  ASSUME EscrowTypeOK, NEW p \in Projects, NEW a \in Assets, NEW goal \in Int,
         NEW deadline \in Int, NEW amounts \in Seq(Int), NEW cap,
         OpenVault(p, a, goal, deadline, amounts, cap)
  PROVE  LET w == vault'[p] IN
         /\ vault[p] = NoVault /\ w # NoVault
         /\ w.goal = goal /\ w.funding_deadline = deadline /\ w.deposited = 0
         /\ w.contributor_count = 0 /\ w.next_milestone = 0
         /\ ~w.funding_locked /\ ~w.refundable
         /\ \A q \in Projects : q # p => vault'[q] = vault[q]
         /\ UNCHANGED contribution
<1> DEFINE w == vault'[p]
           x == [asset |-> a, goal |-> goal, funding_deadline |-> deadline,
                 milestone_amounts |-> amounts, max_contribution_bps |-> cap,
                 deposited |-> 0, released |-> 0, refunded_total |-> 0,
                 remaining_pool |-> 0, remaining_shares |-> 0,
                 contributor_count |-> 0, next_milestone |-> 0,
                 funding_locked |-> FALSE, refundable |-> FALSE]
<1>1. /\ vault[p] = NoVault /\ goal > 0 /\ cap \in 1..BPS_DENOMINATOR
      /\ vault' = [vault EXCEPT ![p] = x] /\ UNCHANGED contribution
  BY DEF OpenVault
<1>2. goal \in Nat \ {0}
  BY <1>1
<1>3. x \in Vault
  BY <1>1, <1>2 DEF Vault
<1>4. w = x /\ \A q \in Projects : q # p => vault'[q] = vault[q]
  BY <1>1 DEF EscrowTypeOK
<1>5. w # NoVault
  BY <1>3, <1>4, EscrowAssumption
<1> HIDE DEF w
<1>6. /\ w.goal = goal /\ w.funding_deadline = deadline /\ w.deposited = 0
      /\ w.contributor_count = 0 /\ w.next_milestone = 0
      /\ ~w.funding_locked /\ ~w.refundable
  BY <1>4
<1>7. QED
  BY <1>1, <1>4, <1>5, <1>6 DEF w

\* open_funding
LEMMA OpenFundingInv ==
  ASSUME Grounds, NEW p \in Projects, OpenFunding(p)
  PROVE  RegistryInv'
<1> DEFINE pr   == project[p]
           ms   == milestones[p]
           new  == [pr EXCEPT !.status = "Funding"]
           plan == [m \in 1..Cardinality(DOMAIN ms) |-> ms[m - 1].amount]
<1>0. RegistryInv /\ EscrowTypeOK
  BY DEF Grounds, RegistryInv, Books, EscrowInv
<1>1. /\ pr # NoProject /\ pr.status = "Draft"
      /\ OpenVault(p, pr.asset, pr.goal, pr.funding_deadline, plan, Policy.max_contribution_bps)
      /\ project' = [project EXCEPT ![p] = new]
      /\ UNCHANGED <<milestones, accepted, receipts, next_project_id>>
  BY DEF OpenFunding, HasStatus, SetStatus
<1>2. /\ pr \in Project /\ ms \in MilestoneLists /\ ms # <<>>
      /\ Staged(pr, ms) /\ Backed(pr, vault[p])
  BY <1>0, <1>1, OfProject
<1>3. plan \in Seq(Int)
  BY <1>2, PlanOK
<1> HIDE DEF plan
<1>4. pr.asset \in Assets /\ pr.goal \in Int /\ pr.goal > 0 /\ pr.funding_deadline \in Int
  BY <1>2 DEF Project
<1>5. /\ vault[p] = NoVault /\ vault'[p] # NoVault
      /\ vault'[p].goal = pr.goal /\ vault'[p].funding_deadline = pr.funding_deadline
      /\ vault'[p].deposited = 0
      /\ vault'[p].contributor_count = 0 /\ vault'[p].next_milestone = 0
      /\ ~vault'[p].funding_locked /\ ~vault'[p].refundable
      /\ \A q \in Projects : q # p => vault'[q] = vault[q]
      /\ UNCHANGED contribution
  BY <1>0, <1>1, <1>3, <1>4, FreshVault
<1>6. new \in Project /\ SameTerms(pr, new) /\ new.status = "Funding"
  BY <1>2 DEF Project, SameTerms, ProjectStatus
<1>7. pr.current_milestone = 0 /\ pr.contributor_count = 0
  BY <1>1, <1>2, <1>5 DEF Staged, Backed, BeforeDelivery
<1> HIDE DEF new
<1>8. Backed(new, vault'[p])
  <2>1. PaidCount(new) = 0
    BY <1>6, <1>7 DEF PaidCount, SameTerms
  <2>2. QED
    BY <1>4, <1>5, <1>6, <1>7, <2>1 DEF Backed, SameTerms
<1>9. pr.status \in BeforeDelivery /\ pr.status # "Completed" /\ new.status # "Completed"
  BY <1>1, <1>6 DEF BeforeDelivery
<1>10. QED
  BY <1>1, <1>5, <1>6, <1>8, <1>9, StatusStep

\* A goal that is met has been locked in the deposit that met it.
LEMMA FundingIsShort ==
  ASSUME RegistryInv, NEW p \in Projects, project[p] # NoProject,
         project[p].status = "Funding"
  PROVE  /\ vault[p] \in Vault /\ vault[p] # NoVault
         /\ vault[p].deposited # project[p].goal
<1>1. Backed(project[p], vault[p]) /\ EscrowTypeOK
  BY OfProject
<1>2. vault[p] # NoVault /\ vault[p].deposited < vault[p].goal
      /\ vault[p].goal = project[p].goal
  BY <1>1 DEF Backed
<1>3. vault[p] \in Vault
  BY <1>1, <1>2 DEF EscrowTypeOK
<1>4. vault[p].deposited \in Nat /\ vault[p].goal \in Nat
  BY <1>3 DEF Vault
<1>5. QED
  BY <1>2, <1>3, <1>4

\* finalize_funding
LEMMA FinalizeFundingInv ==
  ASSUME Grounds, NEW p \in Projects, FinalizeFunding(p)
  PROVE  RegistryInv'
<1>0. RegistryInv
  BY DEF Grounds
<1>1. project[p] # NoProject /\ project[p].status = "Funding"
  BY DEF FinalizeFunding, HasStatus
<1>2. vault[p].deposited # project[p].goal
  BY <1>0, <1>1, FundingIsShort
<1>3. /\ EnableRefunds(p) /\ SetStatus(p, "Failed")
      /\ UNCHANGED <<next_project_id, milestones, accepted, receipts>>
  BY <1>2 DEF FinalizeFunding
<1>4. QED
  BY <1>1, <1>3, CalledOff

\* cancel_project
LEMMA CancelProjectInv ==
  ASSUME Grounds, NEW p \in Projects, CancelProject(p)
  PROVE  RegistryInv'
<1> DEFINE pr  == project[p]
           new == [pr EXCEPT !.status = "Cancelled"]
<1>0. RegistryInv
  BY DEF Grounds
<1>1. /\ SetStatus(p, "Cancelled") /\ pr # NoProject
      /\ UNCHANGED <<next_project_id, milestones, accepted, receipts>>
  BY DEF CancelProject, HasStatus
<1>2. CASE HasStatus(p, "Funding") /\ EnableRefunds(p)
  BY <1>1, <1>2, CalledOff DEF HasStatus
<1>3. CASE HasStatus(p, "Draft") /\ UNCHANGED escrow_vars
  <2>1. pr.status = "Draft" /\ UNCHANGED <<vault, contribution>>
    BY <1>3 DEF HasStatus, escrow_vars, vault_vars
  <2>2. pr \in Project /\ Backed(pr, vault[p])
    BY <1>0, <1>1, OfProject
  <2>3. new \in Project /\ SameTerms(pr, new) /\ new.status = "Cancelled"
    BY <2>2 DEF Project, SameTerms, ProjectStatus
  <2>4. project' = [project EXCEPT ![p] = new]
    BY <1>1 DEF SetStatus
  <2> HIDE DEF new
  <2>5. Backed(new, vault'[p])
    BY <2>1, <2>2, <2>3 DEF Backed, SameTerms
  <2>6. new.status # "Completed" /\ ~(new.status \in BeforeDelivery)
    BY <2>3 DEF BeforeDelivery
  <2>7. QED
    BY <1>1, <2>1, <2>3, <2>4, <2>5, <2>6, StatusStep
<1>4. QED
  BY <1>2, <1>3 DEF CancelProject

\* activate_project, with contributors enough.
LEMMA StartProjectInv ==
  ASSUME Grounds, NEW p \in Projects, HasStatus(p, "Funded"), EnoughContributors(project[p]),
         SetStatus(p, "Active"), SetMilestone(p, 0, Started(milestones[p][0])),
         UNCHANGED <<escrow_vars, registry_admin, next_project_id, accepted, receipts>>
  PROVE  RegistryInv'
<1> DEFINE pr  == project[p]
           ms  == milestones[p]
           m   == ms[0]
           n   == Started(m)
           new == [pr EXCEPT !.status = "Active"]
           mn  == [ms EXCEPT ![0] = n]
<1>0. RegistryInv /\ ProjectTypes /\ RegistryNow \in Nat
  BY DEF Grounds, RegistryInv
<1>1. pr # NoProject /\ pr.status = "Funded" /\ UNCHANGED <<vault, contribution, registry_clock, now>>
  BY DEF HasStatus, escrow_vars, vault_vars, registry_admin
<1>2. /\ pr \in Project /\ ms \in MilestoneLists /\ ms # <<>> /\ Staged(pr, ms)
      /\ Backed(pr, vault[p])
      /\ Apart(pr, accepted[p], contribution[p])
      /\ \A i \in DOMAIN ms : Earned(ms[i], pr.eligible_voting_power, RegistryNow)
      /\ Eligible(pr, contribution[p])
      /\ Counted(ms[pr.current_milestone], receipts[p], pr, contribution[p])
      /\ receipts[p] \in Receipts /\ accepted[p] \in Roster
      /\ \A i \in DOMAIN ms : i \in 0..4 /\ ms[i] \in Milestone
  BY <1>0, <1>1, OfProject
<1>3. pr.current_milestone = 0 /\ Untouched(m) /\ 0 \in DOMAIN ms /\ m \in Milestone
  BY <1>1, <1>2 DEF Staged, BeforeDelivery
<1>4. /\ n \in Milestone /\ n.status = "Pending" /\ n.stage_started_at = RegistryNow
      /\ SameCounts(m, n) /\ n.dispute_weight = 0
  BY <1>0, <1>3, StartedOK DEF Untouched, Uncounted, SameCounts
<1> HIDE DEF n
<1>5. /\ mn \in MilestoneLists /\ mn # <<>> /\ DOMAIN mn = DOMAIN ms
      /\ mn[0] = n /\ \A j \in DOMAIN ms : j # 0 => mn[j] = ms[j]
  BY <1>2, <1>3, <1>4, Replaced
<1>6. new \in Project /\ SameTerms(pr, new) /\ new.status = "Active"
  BY <1>2 DEF Project, SameTerms, ProjectStatus
<1>7. /\ project' = [project EXCEPT ![p] = new]
      /\ milestones' = [milestones EXCEPT ![p] = mn]
      /\ accepted' = [accepted EXCEPT ![p] = accepted[p]]
      /\ receipts' = [receipts EXCEPT ![p] = receipts[p]]
  BY <1>0 DEF SetStatus, SetMilestone, ProjectTypes, n
<1> HIDE DEF new, mn
<1>8. RegistryNow' = RegistryNow
  BY <1>1 DEF RegistryNow, Effective, Paused
<1>9. PaidCount(new) = 0 /\ PaidCount(pr) = 0 /\ new.current_milestone = 0
  BY <1>1, <1>3, <1>6 DEF PaidCount, SameTerms
<1>10. Staged(new, mn)
  <2>1. \A i \in DOMAIN mn : mn[i].status = "Released" <=> i < 0
    BY <1>2, <1>4, <1>5, <1>9 DEF Staged
  <2>2. \A i \in DOMAIN mn : i > 0 => Untouched(mn[i])
    BY <1>2, <1>3, <1>5 DEF Staged
  <2>3. QED
    BY <1>3, <1>5, <1>6, <1>9, <2>1, <2>2 DEF Staged, BeforeDelivery
<1>11. Backed(new, vault'[p])
  <2>1. pr.contributor_count >= Policy.min_contributors
    BY DEF EnoughContributors
  <2>2. QED
    BY <1>1, <1>2, <1>6, <1>9, <2>1 DEF Backed, SameTerms
<1>12. Apart(new, accepted[p], contribution'[p])
  BY <1>1, <1>2, <1>6 DEF Apart, Conflicted, HasProjectRole, SameTerms
<1>13. \A i \in DOMAIN mn : Earned(mn[i], new.eligible_voting_power, RegistryNow')
  <2>1. Earned(n, new.eligible_voting_power, RegistryNow)
    BY <1>0, <1>4 DEF Earned
  <2>2. QED
    BY <1>2, <1>5, <1>6, <1>8, <2>1 DEF SameTerms
<1>14. Eligible(new, contribution'[p])
  BY <1>1, <1>2, <1>6 DEF Eligible, Powers, SameTerms
<1>15. Counted(mn[new.current_milestone], receipts[p], new, contribution'[p])
  <2>1. Counted(n, receipts[p], pr, contribution[p])
    BY <1>2, <1>3, <1>4, CountedSame
  <2>2. QED
    BY <1>1, <1>5, <1>6, <1>9, <2>1 DEF Counted, WeightOf, Powers, SameTerms
<1>16. ~(new.status \in BeforeDelivery)
  BY <1>6 DEF BeforeDelivery
<1>17. /\ next_project_id' \in Nat /\ next_project_id' >= next_project_id
       /\ p < next_project_id'
  BY <1>0, <1>1, IdInUse
<1>18. \A q \in Projects : q # p => vault'[q] = vault[q] /\ contribution'[q] = contribution[q]
  BY <1>1
<1>19. QED
  BY <1>2, <1>5, <1>6, <1>7, <1>10, <1>11, <1>12, <1>13, <1>14, <1>15, <1>16, <1>17, <1>18,
     ProjectWritten

\* activate_project
LEMMA ActivateProjectInv ==
  ASSUME Grounds, NEW p \in Projects, ActivateProject(p)
  PROVE  RegistryInv'
<1>1. HasStatus(p, "Funded")
      /\ UNCHANGED <<registry_admin, next_project_id, accepted, receipts>>
  BY DEF ActivateProject
<1>2. CASE EnableRefunds(p) /\ SetStatus(p, "Cancelled") /\ UNCHANGED milestones
  BY <1>1, <1>2, CalledOff DEF HasStatus
<1>3. CASE /\ EnoughContributors(project[p]) /\ SetStatus(p, "Active")
           /\ SetMilestone(p, 0, Started(milestones[p][0])) /\ UNCHANGED escrow_vars
  BY <1>1, <1>3, StartProjectInv
<1>4. QED
  BY <1>2, <1>3 DEF ActivateProject

\* Nobody has worked on a project that is not active yet.
LEMMA AllUntouched ==
  ASSUME RegistryInv, NEW p \in Projects, project[p] # NoProject,
         project[p].status \in BeforeDelivery
  PROVE  \A i \in DOMAIN milestones[p] : Untouched(milestones[p][i])
<1>1. Staged(project[p], milestones[p]) /\ \A i \in DOMAIN milestones[p] : i \in 0..4
  BY OfProject
<1>2. project[p].current_milestone = 0 /\ Untouched(milestones[p][0])
  BY <1>1 DEF Staged
<1>3. \A i \in DOMAIN milestones[p] : i > 0 => Untouched(milestones[p][i])
  BY <1>1, <1>2 DEF Staged
<1>4. QED
  BY <1>1, <1>2, <1>3

\* What nobody has worked on owes nothing, whatever the voting power.
LEMMA UntouchedEarned ==
  ASSUME NEW m \in Milestone, Untouched(m), NEW power, NEW any, NEW t \in Nat, NEW u \in Nat,
         t <= u, Earned(m, power, t)
  PROVE  Earned(m, any, u)
<1>1. m.stage_started_at <= u
  BY MilestoneNumbers DEF Earned
<1>2. QED
  BY <1>1 DEF Earned, Untouched, Uncounted

\* Whoever has given nothing has no voting power.
LEMMA VotingPowerZero ==
  ASSUME NEW goal \in Nat
  PROVE  VotingPower(goal, 0) = 0
<1> DEFINE cap == (goal * Policy.max_vote_power_bps) \div BPS_DENOMINATOR
<1>1. goal * Policy.max_vote_power_bps \in Nat /\ BPS_DENOMINATOR \in Nat \ {0}
  BY PolicyNumbers DEF BPS_DENOMINATOR
<1>2. cap \in Nat
  BY <1>1, Floor
<1> HIDE DEF cap
<1>3. VotingPower(goal, 0) = IF 0 < cap THEN 0 ELSE cap
  BY DEF VotingPower, cap
<1>4. QED
  BY <1>2, <1>3

\* The voting power that contribute adds keeps the sum exact.
LEMMA PowerCredited ==
  ASSUME RegistryInv, NEW p \in Projects, project[p] # NoProject,
         NEW c \in Contributors, NEW amount \in Nat,
         NEW more \in [Contributors -> Nat], more[c] = contribution[p][c] + amount,
         \A d \in Contributors \ {c} : more[d] = contribution[p][d]
  PROVE  LET pr == project[p]
             power == pr.eligible_voting_power
                        + VotingPower(pr.goal, contribution[p][c] + amount)
                        - VotingPower(pr.goal, contribution[p][c])
         IN  /\ power \in Nat
             /\ power = SumFunctionOnSet(Powers(pr, more), Contributors)
<1> DEFINE pr    == project[p]
           given == contribution[p]
           f == Powers(pr, given)
           g == Powers(pr, more)
<1>1. pr \in Project /\ Eligible(pr, given) /\ given \in [Contributors -> Nat]
  BY OfProject
<1>2. pr.goal \in Nat /\ pr.eligible_voting_power \in Nat
  BY <1>1 DEF Project
<1>3. /\ \A d \in Contributors : f[d] \in Nat
      /\ \A d \in Contributors : g[d] \in Nat
  BY <1>1, <1>2, PowersNat
<1>4. /\ f[c] = VotingPower(pr.goal, given[c])
      /\ g[c] = VotingPower(pr.goal, given[c] + amount)
      /\ \A d \in Contributors \ {c} : g[d] = f[d]
  BY DEF Powers
<1>5. pr.eligible_voting_power = SumFunctionOnSet(f, Contributors)
  BY <1>1 DEF Eligible
<1> HIDE DEF f, g
<1>6. IsFiniteSet(Contributors) /\ f[c] \in Int /\ g[c] \in Int
      /\ \A d \in Contributors \ {c} : f[d] \in Int /\ g[d] = f[d]
  BY <1>3, <1>4, EscrowAssumption
<1>7. SumFunctionOnSet(g, Contributors) = SumFunctionOnSet(f, Contributors) + (g[c] - f[c])
  BY <1>6, SumChange
<1>8. SumFunctionOnSet(g, Contributors) \in Nat
  BY <1>3, <1>6, SumNat
<1>9. pr.eligible_voting_power + g[c] - f[c] = SumFunctionOnSet(g, Contributors)
  BY <1>2, <1>5, <1>6, <1>7
<1>10. QED
  BY <1>4, <1>8, <1>9 DEF g

\* A contribution credited to a project and to its vault.
LEMMA CreditedStep ==
  ASSUME Grounds, NEW p \in Projects, NEW c \in Contributors, NEW amount \in Nat, amount > 0,
         project[p] # NoProject, project[p].status = "Funding", ~Conflicted(project[p], c),
         NEW new \in Project, new.status \in {"Funding", "Funded"},
         SameTerms([project[p] EXCEPT
                      !.eligible_voting_power = new.eligible_voting_power,
                      !.contributor_count = new.contributor_count], new),
         new.eligible_voting_power =
           project[p].eligible_voting_power
             + VotingPower(project[p].goal, contribution[p][c] + amount)
             - VotingPower(project[p].goal, contribution[p][c]),
         project' = [project EXCEPT ![p] = new],
         contribution' = [contribution EXCEPT ![p][c] = contribution[p][c] + amount],
         \A q \in Projects : q # p => vault'[q] = vault[q],
         UNCHANGED <<milestones, accepted, receipts, next_project_id>>,
         Backed(new, vault'[p])
  PROVE  RegistryInv'
<1> DEFINE pr   == project[p]
           ms   == milestones[p]
           more == contribution'[p]
<1>0. RegistryInv /\ ProjectTypes /\ RegistryNow \in Nat /\ RegistryNow' \in Nat
      /\ RegistryNow <= RegistryNow'
  BY DEF Grounds, RegistryInv
<1>1. /\ pr \in Project /\ ms \in MilestoneLists /\ ms # <<>> /\ Staged(pr, ms)
      /\ Apart(pr, accepted[p], contribution[p])
      /\ pr.status \in BeforeDelivery => receipts[p] = NoReceipts
      /\ receipts[p] \in Receipts /\ accepted[p] \in Roster
      /\ contribution[p] \in [Contributors -> Nat] /\ EscrowTypeOK
  BY <1>0, OfProject
<1>2. pr.status \in BeforeDelivery
  BY DEF BeforeDelivery
<1>3. /\ new.creator = pr.creator /\ new.payout = pr.payout
      /\ new.reviewers = pr.reviewers /\ new.arbitrators = pr.arbitrators
      /\ new.goal = pr.goal /\ new.current_milestone = pr.current_milestone
  BY <1>1 DEF SameTerms, Project
<1>4. /\ contribution \in [Projects -> [Contributors -> Nat]]
      /\ contribution[p][c] + amount \in Nat
  BY <1>1 DEF EscrowTypeOK
<1>5. /\ more \in [Contributors -> Nat] /\ more[c] = contribution[p][c] + amount
      /\ \A d \in Contributors \ {c} : more[d] = contribution[p][d]
      /\ \A q \in Projects : q # p => contribution'[q] = contribution[q]
  BY <1>4
<1> HIDE DEF more
<1>6. \A i \in DOMAIN ms : Untouched(ms[i])
  BY <1>0, <1>2, AllUntouched
<1>7. \A i \in DOMAIN ms : Earned(ms[i], new.eligible_voting_power, RegistryNow')
  <2> SUFFICES ASSUME NEW i \in DOMAIN ms
               PROVE  Earned(ms[i], new.eligible_voting_power, RegistryNow')
    OBVIOUS
  <2>1. ms[i] \in Milestone /\ Earned(ms[i], pr.eligible_voting_power, RegistryNow)
    BY <1>0, OfProject
  <2>2. QED
    BY <1>0, <1>6, <2>1, UntouchedEarned
<1>8. PaidCount(new) = PaidCount(pr)
  BY <1>3 DEF PaidCount
<1>9. Staged(new, ms)
  BY <1>1, <1>2, <1>3, <1>8 DEF Staged
<1>10. Apart(new, accepted[p], more)
  <2>1. \A d \in Contributors : more[d] > 0 => ~Conflicted(pr, d)
    BY <1>1, <1>5 DEF Apart
  <2>2. QED
    BY <1>1, <1>3, <2>1 DEF Apart, Conflicted, HasProjectRole
<1>11. Eligible(new, more)
  <2>1. new.eligible_voting_power = SumFunctionOnSet(Powers(pr, more), Contributors)
    BY <1>0, <1>5, PowerCredited
  <2>2. QED
    BY <1>3, <2>1 DEF Eligible, Powers
<1>12. Counted(ms[new.current_milestone], receipts[p], new, more)
  <2>1. Uncounted(ms[new.current_milestone]) /\ receipts[p] = NoReceipts
    BY <1>1, <1>2, <1>3, <1>6 DEF Staged, Untouched
  <2>2. QED
    BY <2>1, CountedReset
<1>13. /\ milestones' = [milestones EXCEPT ![p] = ms]
       /\ accepted' = [accepted EXCEPT ![p] = accepted[p]]
       /\ receipts' = [receipts EXCEPT ![p] = receipts[p]]
  BY <1>0 DEF ProjectTypes
<1>14. /\ next_project_id' \in Nat /\ next_project_id' >= next_project_id
       /\ p < next_project_id'
  BY <1>0, IdInUse
<1>15. receipts[p] = NoReceipts
  BY <1>1, <1>2
<1> HIDE DEF ms, pr
<1>16. QED
  BY <1>1, <1>5, <1>7, <1>9, <1>10, <1>11, <1>12, <1>13, <1>14, <1>15, ProjectWritten DEF more

\* contribute
LEMMA ContributeInv ==
  ASSUME Grounds, NEW p \in Projects, NEW c \in Contributors, NEW amount \in Int,
         Contribute(p, c, amount)
  PROVE  RegistryInv'
<1> DEFINE pr    == project[p]
           v     == vault[p]
           given == contribution[p]
           after == Credited(pr, given[c], amount)
           w     == AfterDeposit(v, amount, given[c])
<1>0. RegistryInv /\ EscrowTypeOK /\ EscrowInv /\ RegistryNow \in Nat
  BY DEF Grounds, RegistryInv, Books, EscrowInv
<1>1. /\ amount > 0 /\ pr # NoProject /\ pr.status = "Funding" /\ ~Conflicted(pr, c)
      /\ UNCHANGED <<next_project_id, milestones, accepted, receipts>>
  BY DEF Contribute, HasStatus
<1>2. amount \in Nat
  BY <1>1
<1>3. /\ pr \in Project /\ Backed(pr, v) /\ given \in [Contributors -> Nat]
      /\ v \in Vault /\ v # NoVault
  BY <1>0, <1>1, OfProject, FundingIsShort
<1>4. \E x : DepositInto(p, c, amount, x)
  BY DEF Contribute, Deposit, DepositThenLock
<1>5. /\ w \in Vault /\ ~v.funding_locked /\ ~v.refundable /\ v.deposited + amount <= v.goal
      /\ contribution' = [contribution EXCEPT ![p][c] = given[c] + amount]
  BY <1>0, <1>4, AfterDepositOK DEF DepositInto, FundingOpen
<1>6. /\ w.goal = v.goal /\ w.funding_deadline = v.funding_deadline
      /\ w.contributor_count = IF given[c] = 0 THEN v.contributor_count + 1
                                               ELSE v.contributor_count
      /\ w.deposited = v.deposited + amount /\ w.funding_locked = FALSE
      /\ w.refundable = FALSE /\ w.next_milestone = v.next_milestone
  <2>1. CASE given[c] = 0
    BY <1>3, <1>5, <2>1 DEF AfterDeposit, Vault
  <2>2. CASE given[c] # 0
    BY <1>3, <1>5, <2>2 DEF AfterDeposit, Vault
  <2>3. QED
    BY <2>1, <2>2
<1>7. Locked(w) \in Vault /\ Locked(w).goal = w.goal
      /\ Locked(w).funding_deadline = w.funding_deadline
      /\ Locked(w).contributor_count = w.contributor_count
      /\ Locked(w).deposited = w.deposited /\ Locked(w).funding_locked
      /\ Locked(w).refundable = FALSE /\ Locked(w).next_milestone = w.next_milestone
  <2> HIDE DEF w
  <2>1. QED
    BY <1>5, <1>6 DEF Locked, Vault
<1> DEFINE power == pr.eligible_voting_power + VotingPower(pr.goal, given[c] + amount)
                      - VotingPower(pr.goal, given[c])
           count == IF given[c] = 0 THEN pr.contributor_count + 1 ELSE pr.contributor_count
<1>8. power \in Nat
  <2> DEFINE more == [given EXCEPT ![c] = given[c] + amount]
  <2>1. given[c] + amount \in Nat
    BY <1>2, <1>3
  <2>2. /\ more \in [Contributors -> Nat] /\ more[c] = given[c] + amount
        /\ \A d \in Contributors \ {c} : more[d] = given[d]
    BY <1>3, <2>1
  <2> HIDE DEF more
  <2>3. QED
    BY <1>0, <1>1, <1>2, <2>2, PowerCredited
<1>9. count \in Nat
  BY <1>3 DEF Project
<1> HIDE DEF power, count
<1>10. after = [pr EXCEPT !.eligible_voting_power = power, !.contributor_count = count]
  BY <1>3 DEF Credited, power, count, Project
<1> HIDE DEF after
<1>11. /\ after \in Project /\ after.status = "Funding"
       /\ after.creator = pr.creator /\ after.payout = pr.payout
       /\ after.reviewers = pr.reviewers /\ after.arbitrators = pr.arbitrators
       /\ after.goal = pr.goal /\ after.funding_deadline = pr.funding_deadline
       /\ after.current_milestone = pr.current_milestone
       /\ after.contributor_count = count /\ after.eligible_voting_power = power
  BY <1>1, <1>3, <1>8, <1>9, <1>10 DEF Project
<1>12. /\ v.goal = pr.goal /\ v.funding_deadline = pr.funding_deadline
       /\ v.contributor_count = pr.contributor_count /\ v.next_milestone = PaidCount(pr)
       /\ pr.goal \in Nat /\ v.deposited \in Nat
  BY <1>1, <1>3 DEF Backed, Project, Vault
<1>13. w.contributor_count = count
  BY <1>6, <1>12 DEF count
<1>14. ASSUME NEW new \in Project, new.status \in {"Funding", "Funded"},
              new.creator = pr.creator, new.payout = pr.payout,
              new.reviewers = pr.reviewers, new.arbitrators = pr.arbitrators,
              new.goal = pr.goal, new.funding_deadline = pr.funding_deadline,
              new.current_milestone = pr.current_milestone,
              new.contributor_count = count, new.eligible_voting_power = power
       PROVE  /\ SameTerms([pr EXCEPT !.eligible_voting_power = new.eligible_voting_power,
                                      !.contributor_count = new.contributor_count], new)
              /\ PaidCount(new) = PaidCount(pr)
  BY <1>1, <1>3, <1>14 DEF SameTerms, PaidCount, Project
<1> HIDE DEF w
<1>15. CASE /\ v.deposited + amount # pr.goal
            /\ Deposit(p, c, amount)
            /\ project' = [project EXCEPT ![p] = after]
  <2>1. vault' = [vault EXCEPT ![p] = w]
    BY <1>15 DEF Deposit, DepositInto, w
  <2>2. vault'[p] = w /\ \A q \in Projects : q # p => vault'[q] = vault[q]
    BY <1>0, <2>1 DEF EscrowTypeOK
  <2>3. w # NoVault
    BY <1>5, EscrowAssumption
  <2>4. v.deposited + amount < v.goal
    BY <1>2, <1>5, <1>12, <1>15
  <2>5. PaidCount(after) = PaidCount(pr)
    BY <1>1, <1>11 DEF PaidCount
  <2>6. Backed(after, vault'[p])
    BY <1>6, <1>11, <1>12, <1>13, <2>2, <2>3, <2>4, <2>5 DEF Backed
  <2>7. SameTerms([pr EXCEPT !.eligible_voting_power = after.eligible_voting_power,
                             !.contributor_count = after.contributor_count], after)
    BY <1>11, <1>14
  <2>8. QED
    BY <1>1, <1>2, <1>5, <1>11, <1>15, <2>2, <2>6, <2>7, CreditedStep DEF power
<1>16. CASE /\ v.deposited + amount = pr.goal
            /\ DepositThenLock(p, c, amount)
            /\ project' = [project EXCEPT ![p] = FundedNow(after)]
  <2> DEFINE new == FundedNow(after)
  <2>0. RegistryNow + Policy.activation_window \in Nat /\ "Funded" \in ProjectStatus
    BY <1>0, PolicyNumbers DEF ProjectStatus
  <2>1. /\ new \in Project /\ new.status = "Funded"
        /\ new.creator = pr.creator /\ new.payout = pr.payout
        /\ new.reviewers = pr.reviewers /\ new.arbitrators = pr.arbitrators
        /\ new.goal = pr.goal /\ new.funding_deadline = pr.funding_deadline
        /\ new.current_milestone = pr.current_milestone
        /\ new.contributor_count = count /\ new.eligible_voting_power = power
    BY <1>0, <1>11, <2>0 DEF FundedNow, Project
  <2>2. project' = [project EXCEPT ![p] = new]
    BY <1>16
  <2> HIDE DEF new
  <2>3. vault' = [vault EXCEPT ![p] = Locked(w)]
    BY <1>16 DEF DepositThenLock, DepositInto, w
  <2>4. vault'[p] = Locked(w) /\ \A q \in Projects : q # p => vault'[q] = vault[q]
    BY <1>0, <2>3 DEF EscrowTypeOK
  <2>5. Locked(w) # NoVault
    BY <1>7, EscrowAssumption
  <2>6. PaidCount(new) = PaidCount(pr)
    BY <1>1, <2>1 DEF PaidCount
  <2>7. Backed(new, vault'[p])
    BY <1>6, <1>7, <1>12, <1>13, <1>16, <2>1, <2>4, <2>5, <2>6 DEF Backed
  <2>8. SameTerms([pr EXCEPT !.eligible_voting_power = new.eligible_voting_power,
                             !.contributor_count = new.contributor_count], new)
    BY <1>14, <2>1
  <2>9. QED
    BY <1>1, <1>2, <1>5, <2>1, <2>2, <2>4, <2>7, <2>8, CreditedStep DEF power
<1>17. QED
  BY <1>15, <1>16 DEF Contribute, after

-----------------------------------------------------------------------------
(* The first and the last step of a project.                                *)

\* The milestones that create_project writes.
LEMMA NewMilestones ==
  ASSUME RegistryNow \in Nat, NEW input \in ProjectInputs, ValidProjectInput(input)
  PROVE  LET mn == [i \in 0..(Len(input.amounts) - 1) |->
                      NewMilestone(input.amounts[i + 1], input.delivery_windows[i + 1])]
         IN  /\ mn \in MilestoneLists /\ mn # <<>> /\ 0 \in DOMAIN mn
             /\ \A i \in DOMAIN mn : /\ i \in Nat
                                     /\ mn[i] \in Milestone /\ Untouched(mn[i])
                                     /\ mn[i].stage_started_at = RegistryNow
<1> DEFINE n  == Len(input.amounts)
           mn == [i \in 0..(n - 1) |->
                    NewMilestone(input.amounts[i + 1], input.delivery_windows[i + 1])]
<1>1. /\ input \in ProjectInput /\ Len(input.delivery_windows) = n
      /\ n \in 2..5
      /\ \A m \in 1..n : input.amounts[m] > 0 /\ input.delivery_windows[m] > 0
  BY RegistryAssumption DEF ValidProjectInput
<1>2. input.amounts \in Seq(Int) /\ input.delivery_windows \in Seq(Nat)
  BY <1>1 DEF ProjectInput
<1>3. \A m \in 1..n : input.amounts[m] \in Int /\ input.delivery_windows[m] \in Nat
  BY <1>1, <1>2
<1>4. \A m \in 1..n : input.amounts[m] \in Nat \ {0} /\ input.delivery_windows[m] \in Nat \ {0}
  BY <1>1, <1>3
<1> HIDE DEF n
<1>5. ASSUME NEW i \in 0..(n - 1)
      PROVE  /\ mn[i] \in Milestone /\ Untouched(mn[i])
             /\ mn[i].stage_started_at = RegistryNow
  <2>1. i + 1 \in 1..n
    BY <1>1
  <2>2. /\ input.amounts[i + 1] \in Nat \ {0}
        /\ input.delivery_windows[i + 1] \in Nat \ {0}
    BY <1>4, <2>1
  <2>3. mn[i] = NewMilestone(input.amounts[i + 1], input.delivery_windows[i + 1])
    OBVIOUS
  <2>4. QED
    BY <2>2, <2>3, NewMilestoneOK
<1>6. mn \in [0..(n - 1) -> Milestone] /\ DOMAIN mn = 0..(n - 1)
  BY <1>5
<1> HIDE DEF mn
<1>7. mn \in MilestoneLists
  <2>1. n = 2 \/ n = 3 \/ n = 4 \/ n = 5
    BY <1>1
  <2>2. CASE n = 2
    BY <1>6, <2>2 DEF MilestoneLists
  <2>3. CASE n = 3
    BY <1>6, <2>3 DEF MilestoneLists
  <2>4. CASE n = 4
    BY <1>6, <2>4 DEF MilestoneLists
  <2>5. CASE n = 5
    BY <1>6, <2>5 DEF MilestoneLists
  <2>6. QED
    BY <2>1, <2>2, <2>3, <2>4, <2>5
<1>8. 0 \in DOMAIN mn
  BY <1>1, <1>6
<1>9. mn # <<>>
  BY <1>8
<1>10. \A i \in DOMAIN mn : /\ i \in Nat
                             /\ mn[i] \in Milestone /\ Untouched(mn[i])
                             /\ mn[i].stage_started_at = RegistryNow
  BY <1>5, <1>6
<1>11. QED
  BY <1>7, <1>8, <1>9, <1>10 DEF mn, n

\* create_project
LEMMA CreateProjectInv ==
  ASSUME Grounds, NEW input \in ProjectInputs, CreateProject(input)
  PROVE  RegistryInv'
<1> DEFINE p  == next_project_id
           mn == [i \in 0..(Len(input.amounts) - 1) |->
                    NewMilestone(input.amounts[i + 1], input.delivery_windows[i + 1])]
           new == [creator |-> input.creator, payout |-> input.payout, asset |-> input.asset,
                   metadata |-> input.metadata, goal |-> input.goal,
                   funding_deadline |-> RegistryNow + (input.funding_deadline - now),
                   status |-> "Draft", current_milestone |-> 0, contributor_count |-> 0,
                   eligible_voting_power |-> 0, funded_at |-> 0, activation_deadline |-> 0,
                   reviewers |-> input.reviewers, arbitrators |-> input.arbitrators]
           given == contribution[p]
<1>0. /\ RegistryInv /\ ProjectTypes /\ IdsFresh /\ EscrowTypeOK
      /\ RegistryNow \in Nat /\ RegistryNow' \in Nat
  BY DEF Grounds, RegistryInv, Books, EscrowInv
<1>1. /\ p \in Projects /\ ValidProjectInput(input) /\ ValidRoles(input)
      /\ next_project_id' = p + 1
      /\ project' = [project EXCEPT ![p] = new]
      /\ milestones' = [milestones EXCEPT ![p] = mn]
      /\ UNCHANGED <<accepted, receipts, vault, contribution, now, registry_clock>>
  BY DEF CreateProject, escrow_vars, vault_vars, registry_admin
<1>2. p \in Nat /\ project[p] = NoProject
  BY <1>0, <1>1 DEF IdsFresh
<1>3. /\ vault[p] = NoVault /\ accepted[p] = NoRoles /\ receipts[p] = NoReceipts
  <2>1. ProjectOK(p)
    BY <1>0, <1>1 DEF RegistryInv
  <2>2. QED
    BY <1>2, <2>1 DEF ProjectOK
<1>4. given = [c \in Contributors |-> 0]
  <2>1. BooksOK(p)
    BY <1>0, <1>1 DEF RegistryInv, Books
  <2>2. QED
    BY <1>3, <2>1 DEF BooksOK
<1>5. /\ mn \in MilestoneLists /\ mn # <<>> /\ 0 \in DOMAIN mn
      /\ \A i \in DOMAIN mn : /\ i \in Nat
                              /\ mn[i] \in Milestone /\ Untouched(mn[i])
                              /\ mn[i].stage_started_at = RegistryNow
  BY <1>0, <1>1, NewMilestones
<1> HIDE DEF mn
<1>6. new \in Project
  <2>1. input \in ProjectInput
    BY RegistryAssumption
  <2>2. /\ input.creator \in Wallets /\ input.payout \in Wallets /\ input.asset \in Assets
        /\ input.metadata \in MetadataInputs /\ input.goal \in Int
        /\ input.funding_deadline \in Nat
        /\ input.reviewers \in SUBSET Wallets /\ input.arbitrators \in SUBSET Wallets
    BY <2>1 DEF ProjectInput
  <2>3. input.goal > 0 /\ input.funding_deadline > now
    BY <1>1 DEF ValidProjectInput
  <2>4. now \in Nat
    BY <1>0, EscrowAssumption DEF EscrowTypeOK
  <2>5. input.goal \in Nat \ {0} /\ RegistryNow + (input.funding_deadline - now) \in Nat
    BY <1>0, <2>2, <2>3, <2>4
  <2>6. QED
    BY <2>2, <2>5 DEF Project, ProjectStatus
<1>7. /\ new.status = "Draft" /\ new.current_milestone = 0 /\ new.contributor_count = 0
      /\ new.eligible_voting_power = 0 /\ new.goal = input.goal
      /\ new.creator = input.creator /\ new.payout = input.payout
      /\ new.reviewers = input.reviewers /\ new.arbitrators = input.arbitrators
  OBVIOUS
<1> HIDE DEF new
<1>8. PaidCount(new) = 0
  BY <1>7 DEF PaidCount
<1>9. Staged(new, mn)
  <2>1. \A i \in DOMAIN mn : mn[i].status = "Released" <=> i < 0
    BY <1>5 DEF Untouched
  <2>2. QED
    BY <1>5, <1>7, <1>8, <2>1 DEF Staged, BeforeDelivery
<1>10. Backed(new, vault'[p])
  BY <1>1, <1>3, <1>7 DEF Backed
<1>11. Apart(new, NoRoles, given)
  <2>1. /\ new.reviewers \cap ({new.creator, new.payout} \cup new.arbitrators) = {}
        /\ new.arbitrators \cap {new.creator, new.payout} = {}
    BY <1>1, <1>7 DEF ValidRoles
  <2>2. \A c \in Contributors : ~(given[c] > 0)
    BY <1>4
  <2>3. QED
    BY <2>1, <2>2 DEF Apart, NoRoles
<1>12. \A i \in DOMAIN mn : Earned(mn[i], new.eligible_voting_power, RegistryNow')
  <2>1. RegistryNow' = RegistryNow
    BY <1>1 DEF RegistryNow, Effective, Paused
  <2>2. QED
    BY <1>0, <1>5, <2>1 DEF Earned, Untouched, Uncounted
<1>13. Eligible(new, given)
  <2> DEFINE f == Powers(new, given)
  <2>1. new.goal \in Nat
    BY <1>6 DEF Project
  <2>2. \A c \in Contributors : f[c] = 0
    BY <1>4, <2>1, VotingPowerZero DEF Powers
  <2> HIDE DEF f
  <2>3. SumFunctionOnSet(f, Contributors) = 0
    BY <2>2, SumOfZeros, EscrowAssumption
  <2>4. QED
    BY <1>7, <2>3 DEF Eligible, f
<1>14. Counted(mn[new.current_milestone], NoReceipts, new, given)
  <2>1. Uncounted(mn[0])
    BY <1>5 DEF Untouched
  <2>2. QED
    BY <1>7, <2>1, CountedReset
<1>15. /\ accepted' = [accepted EXCEPT ![p] = NoRoles]
       /\ receipts' = [receipts EXCEPT ![p] = NoReceipts]
  BY <1>0, <1>1, <1>3 DEF ProjectTypes
<1>16. NoRoles \in Roster /\ NoReceipts \in Receipts
  BY NoReceiptsOK DEF NoRoles, Roster
<1>17. /\ next_project_id' \in Nat /\ next_project_id' >= next_project_id
       /\ p < next_project_id'
  BY <1>1, <1>2
<1>18. /\ contribution'[p] = given
       /\ \A q \in Projects : q # p => vault'[q] = vault[q] /\ contribution'[q] = contribution[q]
  BY <1>1
<1> HIDE DEF given, p
<1>19. QED
  BY <1>1, <1>5, <1>6, <1>9, <1>10, <1>11, <1>12, <1>13, <1>14, <1>15, <1>16, <1>17, <1>18,
     ProjectWritten

\* What paying a milestone leaves of the milestone and of the vault.
LEMMA PaidMilestone ==
  ASSUME Grounds, NEW p \in Projects, NEW i \in DOMAIN milestones[p],
         project[p] # NoProject, project[p].status = "Active", i = Current(p),
         milestones[p][i].status = "Approved", ReleaseMilestone(p, i, milestones[p][i].amount)
  PROVE  LET v == vault[p]  w == vault'[p]  n == Entered(milestones[p][i], "Released") IN
         /\ Moved(milestones[p][i], n, "Released")
         /\ Earned(n, project[p].eligible_voting_power, RegistryNow)
         /\ v # NoVault /\ w # NoVault
         /\ w.goal = v.goal /\ w.funding_deadline = v.funding_deadline
         /\ w.contributor_count = v.contributor_count /\ w.deposited = v.deposited
         /\ w.refundable = v.refundable /\ w.funding_locked = v.funding_locked
         /\ w.next_milestone = v.next_milestone + 1
         /\ \A q \in Projects : q # p => vault'[q] = vault[q]
         /\ UNCHANGED contribution
<1> DEFINE m == milestones[p][i]
           n == Entered(m, "Released")
           v == vault[p]
           w == vault'[p]
           power == project[p].eligible_voting_power
<1>0. RegistryInv /\ EscrowTypeOK /\ RegistryNow \in Nat
  BY DEF Grounds, RegistryInv, Books, EscrowInv
<1>1. /\ m \in Milestone /\ Earned(m, power, RegistryNow)
  BY <1>0, OfCurrent
<1>2. /\ Moved(m, n, "Released") /\ n.voting_deadline = m.voting_deadline
  BY <1>0, <1>1, EnteredOK DEF MilestoneStatus
<1>3. /\ v # NoVault /\ m.amount > 0 /\ v.released + m.amount <= v.deposited
      /\ vault' = [vault EXCEPT ![p] = AfterRelease(v, m.amount)]
      /\ UNCHANGED contribution
  BY DEF ReleaseMilestone
<1>4. v \in Vault /\ w = AfterRelease(v, m.amount)
      /\ \A q \in Projects : q # p => vault'[q] = vault[q]
  BY <1>0, <1>3 DEF EscrowTypeOK
<1>5. v.released + m.amount \in Nat /\ v.next_milestone + 1 \in Nat
  <2>1. m.amount \in Nat
    BY <1>1 DEF Milestone
  <2>2. v.released \in Nat /\ v.next_milestone \in Nat
    BY <1>4 DEF Vault
  <2>3. QED
    BY <2>1, <2>2
<1> HIDE DEF w
<1>6. /\ w \in Vault /\ w.goal = v.goal /\ w.funding_deadline = v.funding_deadline
      /\ w.contributor_count = v.contributor_count /\ w.deposited = v.deposited
      /\ w.refundable = v.refundable /\ w.funding_locked = v.funding_locked
      /\ w.next_milestone = v.next_milestone + 1
  BY <1>4, <1>5 DEF AfterRelease, Vault
<1>7. w # NoVault
  BY <1>6, EscrowAssumption
<1> HIDE DEF n
<1>8. Deserved(n, power)
  <2>1. Deserved(m, power) /\ m.stage_started_at <= RegistryNow
    BY <1>1 DEF Earned
  <2>2. /\ m.stage_started_at \in Nat /\ m.voting_deadline \in Nat
    BY <1>1, MilestoneNumbers
  <2>3. m.stage_started_at >= m.voting_deadline => n.stage_started_at >= n.voting_deadline
    BY <1>0, <1>2, <2>1, <2>2 DEF Moved
  <2>4. SameCounts(m, n)
    BY <1>2 DEF Moved
  <2>5. CASE m.arbitration_approve >= Policy.arbitrator_threshold
    BY <2>4, <2>5 DEF Deserved, SameCounts
  <2>6. CASE ~(m.arbitration_approve >= Policy.arbitrator_threshold)
    BY <2>1, <2>3, <2>4, <2>6 DEF Deserved, SameCounts
  <2>7. QED
    BY <2>5, <2>6
<1>9. n.verify_count >= Policy.reviewer_threshold
  BY <1>1, <1>2 DEF Earned, Moved, SameCounts
<1>10. Earned(n, power, RegistryNow)
  BY <1>0, <1>2, <1>8, <1>9 DEF Earned, Moved
<1>11. QED
  BY <1>2, <1>3, <1>4, <1>6, <1>7, <1>10 DEF n, w

\* release_milestone of the last milestone.
LEMMA CompletedInv ==
  ASSUME Grounds, NEW p \in Projects, NEW i \in DOMAIN milestones[p],
         project[p] # NoProject, project[p].status = "Active", i = Current(p),
         milestones[p][i].status = "Approved",
         ReleaseMilestone(p, i, milestones[p][i].amount),
         i + 1 \notin DOMAIN milestones[p], SetStatus(p, "Completed"),
         SetMilestone(p, i, Entered(milestones[p][i], "Released")),
         UNCHANGED <<next_project_id, accepted, receipts>>
  PROVE  RegistryInv'
<1> DEFINE pr  == project[p]
           ms  == milestones[p]
           m   == ms[i]
           n   == Entered(m, "Released")
           new == [pr EXCEPT !.status = "Completed"]
           mn  == [ms EXCEPT ![i] = n]
<1>0. RegistryInv /\ ProjectTypes /\ RegistryNow \in Nat /\ RegistryNow' \in Nat
      /\ RegistryNow <= RegistryNow'
  BY DEF Grounds, RegistryInv
<1>1. /\ pr \in Project /\ ms \in MilestoneLists /\ ms # <<>> /\ Staged(pr, ms)
      /\ Backed(pr, vault[p])
      /\ Apart(pr, accepted[p], contribution[p])
      /\ \A j \in DOMAIN ms : Earned(ms[j], pr.eligible_voting_power, RegistryNow)
      /\ Eligible(pr, contribution[p])
      /\ Counted(m, receipts[p], pr, contribution[p])
      /\ receipts[p] \in Receipts /\ accepted[p] \in Roster
      /\ \A j \in DOMAIN ms : j \in 0..4 /\ ms[j] \in Milestone
  BY <1>0, OfProject DEF Current
<1>2. /\ Moved(m, n, "Released")
      /\ Earned(n, pr.eligible_voting_power, RegistryNow)
      /\ vault[p] # NoVault /\ vault'[p] # NoVault
      /\ vault'[p].goal = vault[p].goal
      /\ vault'[p].funding_deadline = vault[p].funding_deadline
      /\ vault'[p].contributor_count = vault[p].contributor_count
      /\ vault'[p].deposited = vault[p].deposited
      /\ vault'[p].refundable = vault[p].refundable
      /\ vault'[p].funding_locked = vault[p].funding_locked
      /\ vault'[p].next_milestone = vault[p].next_milestone + 1
      /\ \A q \in Projects : q # p => vault'[q] = vault[q]
      /\ UNCHANGED contribution
  BY PaidMilestone
<1> HIDE DEF n
<1>3. /\ mn \in MilestoneLists /\ mn # <<>> /\ DOMAIN mn = DOMAIN ms
      /\ mn[i] = n /\ \A j \in DOMAIN ms : j # i => mn[j] = ms[j]
  BY <1>1, <1>2, Replaced DEF Moved
<1>4. new \in Project /\ SameTerms(pr, new) /\ new.status = "Completed"
  BY <1>1 DEF Project, SameTerms, ProjectStatus
<1>5. /\ project' = [project EXCEPT ![p] = new]
      /\ milestones' = [milestones EXCEPT ![p] = mn]
      /\ accepted' = [accepted EXCEPT ![p] = accepted[p]]
      /\ receipts' = [receipts EXCEPT ![p] = receipts[p]]
  BY <1>0 DEF SetStatus, SetMilestone, ProjectTypes, n
<1> HIDE DEF new, mn
<1>6. /\ PaidCount(new) = i + 1 /\ PaidCount(pr) = i /\ new.current_milestone = i
      /\ pr.current_milestone = i /\ i \in 0..4
  BY <1>1, <1>4 DEF PaidCount, SameTerms, Current
<1>7. Staged(new, mn)
  <2>1. \A j \in DOMAIN mn : mn[j].status = "Released" <=> j < i + 1
    <3> SUFFICES ASSUME NEW j \in DOMAIN mn
                 PROVE  mn[j].status = "Released" <=> j < i + 1
      OBVIOUS
    <3>1. j \in DOMAIN ms /\ j \in 0..4
      BY <1>1, <1>3
    <3>2. CASE j = i
      BY <1>2, <1>3, <1>6, <3>2 DEF Moved
    <3>3. CASE j # i
      <4>1. mn[j] = ms[j] /\ (ms[j].status = "Released" <=> j < i)
        BY <1>1, <1>3, <1>6, <3>1, <3>3 DEF Staged
      <4>2. j < i <=> j < i + 1
        BY <1>6, <3>1, <3>3
      <4>3. QED
        BY <4>1, <4>2
    <3>4. QED
      BY <3>2, <3>3
  <2>2. \A j \in DOMAIN mn : j > i => Untouched(mn[j])
    BY <1>1, <1>3, <1>6 DEF Staged
  <2>3. QED
    BY <1>3, <1>4, <1>6, <2>1, <2>2 DEF Staged, BeforeDelivery
<1>8. Backed(new, vault'[p])
  <2>1. vault[p].next_milestone = i
    BY <1>1, <1>2, <1>6 DEF Backed
  <2>2. QED
    BY <1>1, <1>2, <1>4, <1>6, <2>1 DEF Backed, SameTerms
<1>9. Apart(new, accepted[p], contribution'[p])
  BY <1>1, <1>2, <1>4 DEF Apart, Conflicted, HasProjectRole, SameTerms
<1>10. \A j \in DOMAIN mn : Earned(mn[j], new.eligible_voting_power, RegistryNow')
  <2> SUFFICES ASSUME NEW j \in DOMAIN mn
               PROVE  Earned(mn[j], new.eligible_voting_power, RegistryNow')
    OBVIOUS
  <2>1. mn[j] \in Milestone /\ Earned(mn[j], pr.eligible_voting_power, RegistryNow)
    BY <1>1, <1>2, <1>3 DEF Moved
  <2>2. QED
    BY <1>0, <1>4, <2>1, EarnedLater DEF SameTerms
<1>11. Eligible(new, contribution'[p])
  BY <1>1, <1>2, <1>4 DEF Eligible, Powers, SameTerms
<1>12. Counted(mn[new.current_milestone], receipts[p], new, contribution'[p])
  <2>1. Counted(n, receipts[p], pr, contribution[p])
    BY <1>1, <1>2, CountedSame DEF Moved
  <2>2. QED
    BY <1>2, <1>3, <1>4, <1>6, <2>1 DEF Counted, WeightOf, Powers, SameTerms
<1>13. ~(new.status \in BeforeDelivery)
  BY <1>4 DEF BeforeDelivery
<1>14. /\ next_project_id' \in Nat /\ next_project_id' >= next_project_id
       /\ p < next_project_id'
  BY <1>0, IdInUse
<1>15. \A q \in Projects : q # p => vault'[q] = vault[q] /\ contribution'[q] = contribution[q]
  BY <1>2
<1> HIDE DEF pr, ms, m
<1>16. QED
  BY <1>1, <1>3, <1>4, <1>5, <1>7, <1>8, <1>9, <1>10, <1>11, <1>12, <1>13, <1>14, <1>15,
     ProjectWritten

\* release_milestone of any other milestone.
LEMMA NextMilestoneInv ==
  ASSUME Grounds, NEW p \in Projects, NEW i \in DOMAIN milestones[p],
         project[p] # NoProject, project[p].status = "Active", i = Current(p),
         milestones[p][i].status = "Approved",
         ReleaseMilestone(p, i, milestones[p][i].amount),
         i + 1 \in DOMAIN milestones[p],
         project' = [project EXCEPT ![p].current_milestone = i + 1],
         milestones' = [milestones EXCEPT ![p] =
           [[milestones[p] EXCEPT ![i] = Entered(milestones[p][i], "Released")]
              EXCEPT ![i + 1] = Started(@)]],
         receipts' = [receipts EXCEPT ![p] = NoReceipts],
         UNCHANGED <<next_project_id, accepted>>
  PROVE  RegistryInv'
<1> DEFINE pr   == project[p]
           ms   == milestones[p]
           m    == ms[i]
           n    == Entered(m, "Released")
           new  == [pr EXCEPT !.current_milestone = i + 1]
           paid == [ms EXCEPT ![i] = n]
           k    == i + 1
           x    == Started(paid[k])
           mn   == [paid EXCEPT ![k] = x]
<1>0. RegistryInv /\ ProjectTypes /\ RegistryNow \in Nat /\ RegistryNow' \in Nat
      /\ RegistryNow <= RegistryNow'
  BY DEF Grounds, RegistryInv
<1>1. /\ pr \in Project /\ ms \in MilestoneLists /\ ms # <<>> /\ Staged(pr, ms)
      /\ Backed(pr, vault[p])
      /\ Apart(pr, accepted[p], contribution[p])
      /\ \A j \in DOMAIN ms : Earned(ms[j], pr.eligible_voting_power, RegistryNow)
      /\ Eligible(pr, contribution[p])
      /\ accepted[p] \in Roster
      /\ \A j \in DOMAIN ms : j \in 0..4 /\ ms[j] \in Milestone
  BY <1>0, OfProject DEF Current
<1>2. /\ Moved(m, n, "Released")
      /\ Earned(n, pr.eligible_voting_power, RegistryNow)
      /\ vault[p] # NoVault /\ vault'[p] # NoVault
      /\ vault'[p].goal = vault[p].goal
      /\ vault'[p].funding_deadline = vault[p].funding_deadline
      /\ vault'[p].contributor_count = vault[p].contributor_count
      /\ vault'[p].deposited = vault[p].deposited
      /\ vault'[p].refundable = vault[p].refundable
      /\ vault'[p].funding_locked = vault[p].funding_locked
      /\ vault'[p].next_milestone = vault[p].next_milestone + 1
      /\ \A q \in Projects : q # p => vault'[q] = vault[q]
      /\ UNCHANGED contribution
  BY PaidMilestone
<1> HIDE DEF n
<1>3. /\ paid \in MilestoneLists /\ paid # <<>> /\ DOMAIN paid = DOMAIN ms
      /\ paid[i] = n /\ \A j \in DOMAIN ms : j # i => paid[j] = ms[j]
  BY <1>1, <1>2, Replaced DEF Moved
<1>4. k \in DOMAIN ms /\ k \in 0..4 /\ i \in 0..4 /\ i # k /\ pr.current_milestone = i
  BY <1>1 DEF Current
<1>5. paid[k] = ms[k] /\ ms[k] \in Milestone /\ Untouched(ms[k])
  <2>1. k > pr.current_milestone
    BY <1>4
  <2>2. QED
    BY <1>1, <1>3, <1>4, <2>1 DEF Staged
<1> HIDE DEF paid
<1>6. /\ x \in Milestone /\ x.status = "Pending" /\ x.stage_started_at = RegistryNow
      /\ Uncounted(x)
  BY <1>0, <1>5, StartedOK DEF Untouched, Uncounted, SameCounts
<1> HIDE DEF x, k
<1>7. /\ mn \in MilestoneLists /\ mn # <<>> /\ DOMAIN mn = DOMAIN paid
      /\ mn[k] = x /\ \A j \in DOMAIN paid : j # k => mn[j] = paid[j]
  <2>1. k \in DOMAIN paid
    BY <1>3, <1>4
  <2>2. QED
    BY ONLY <1>3, <1>6, <2>1, Replaced
<1> HIDE DEF mn
<1>8. /\ DOMAIN mn = DOMAIN ms /\ mn[i] = n
      /\ \A j \in DOMAIN ms : j # i /\ j # k => mn[j] = ms[j]
  BY <1>3, <1>4, <1>7
<1>9. /\ new \in Project /\ new.current_milestone = k /\ new.status = pr.status
      /\ new.creator = pr.creator /\ new.payout = pr.payout
      /\ new.reviewers = pr.reviewers /\ new.arbitrators = pr.arbitrators
      /\ new.goal = pr.goal /\ new.funding_deadline = pr.funding_deadline
      /\ new.contributor_count = pr.contributor_count
      /\ new.eligible_voting_power = pr.eligible_voting_power
  BY <1>1, <1>4 DEF Project, k
<1>10. /\ project' = [project EXCEPT ![p] = new]
       /\ milestones' = [milestones EXCEPT ![p] = mn]
       /\ accepted' = [accepted EXCEPT ![p] = accepted[p]]
  BY <1>0 DEF ProjectTypes, mn, x, k, paid, n
<1> HIDE DEF new
<1>11. PaidCount(new) = k /\ PaidCount(pr) = i
  BY <1>4, <1>9 DEF PaidCount
<1>12. k = i + 1
  BY DEF k
<1>13. Staged(new, mn)
  <2>1. \A j \in DOMAIN mn : mn[j].status = "Released" <=> j < k
    <3> SUFFICES ASSUME NEW j \in DOMAIN mn
                 PROVE  mn[j].status = "Released" <=> j < k
      OBVIOUS
    <3>1. j \in DOMAIN ms /\ j \in 0..4
      BY <1>1, <1>8
    <3>2. CASE j = i
      BY <1>2, <1>4, <1>8, <1>12, <3>2 DEF Moved
    <3>3. CASE j = k
      BY <1>4, <1>6, <1>7, <3>3
    <3>4. CASE j # i /\ j # k
      <4>1. mn[j] = ms[j] /\ (ms[j].status = "Released" <=> j < i)
        BY <1>1, <1>8, <1>11, <3>1, <3>4 DEF Staged
      <4>2. j < i <=> j < k
        BY <1>4, <1>12, <3>1, <3>4
      <4>3. QED
        BY <4>1, <4>2
    <3>5. QED
      BY <3>2, <3>3, <3>4
  <2>2. \A j \in DOMAIN mn : j > k => Untouched(mn[j])
    <3> SUFFICES ASSUME NEW j \in DOMAIN mn, j > k PROVE Untouched(mn[j])
      OBVIOUS
    <3>1. j \in DOMAIN ms /\ j \in 0..4 /\ j > i /\ j # i /\ j # k
      BY <1>1, <1>4, <1>8, <1>12
    <3>2. QED
      BY <1>1, <1>4, <1>8, <3>1 DEF Staged
  <2>3. QED
    BY <1>4, <1>8, <1>9, <1>11, <2>1, <2>2 DEF Staged, BeforeDelivery
<1>14. Backed(new, vault'[p])
  <2>1. vault[p].next_milestone = i
    BY <1>1, <1>2, <1>11 DEF Backed
  <2>2. QED
    BY <1>1, <1>2, <1>9, <1>11, <1>12, <2>1 DEF Backed
<1>15. Apart(new, accepted[p], contribution'[p])
  BY <1>1, <1>2, <1>9 DEF Apart, Conflicted, HasProjectRole
<1>16. \A j \in DOMAIN mn : Earned(mn[j], new.eligible_voting_power, RegistryNow')
  <2> SUFFICES ASSUME NEW j \in DOMAIN mn
               PROVE  Earned(mn[j], new.eligible_voting_power, RegistryNow')
    OBVIOUS
  <2>1. Earned(x, pr.eligible_voting_power, RegistryNow)
    BY <1>0, <1>6 DEF Earned, Uncounted
  <2>2. mn[j] \in Milestone /\ Earned(mn[j], pr.eligible_voting_power, RegistryNow)
    <3>1. CASE j = i
      BY <1>2, <1>8, <3>1 DEF Moved
    <3>2. CASE j = k
      BY <1>6, <1>7, <2>1, <3>2
    <3>3. CASE j # i /\ j # k
      BY <1>1, <1>8, <3>3
    <3>4. QED
      BY <3>1, <3>2, <3>3
  <2>3. QED
    BY <1>0, <1>9, <2>2, EarnedLater
<1>17. Eligible(new, contribution'[p])
  BY <1>1, <1>2, <1>9 DEF Eligible, Powers
<1>18. Counted(mn[new.current_milestone], NoReceipts, new, contribution'[p])
  BY <1>6, <1>7, <1>9, CountedReset
<1>19. /\ next_project_id' \in Nat /\ next_project_id' >= next_project_id
       /\ p < next_project_id'
  BY <1>0, IdInUse
<1>20. \A q \in Projects : q # p => vault'[q] = vault[q] /\ contribution'[q] = contribution[q]
  BY <1>2
<1> HIDE DEF pr, ms, m
<1>21. QED
  BY <1>1, <1>7, <1>9, <1>10, <1>13, <1>14, <1>15, <1>16, <1>17, <1>18, <1>19, <1>20,
     NoReceiptsOK, ProjectWritten

\* release_milestone
LEMMA ReleaseApprovedInv ==
  ASSUME Grounds, NEW p \in Projects, NEW i \in DOMAIN milestones[p], ReleaseApproved(p, i)
  PROVE  RegistryInv'
<1> DEFINE m    == milestones[p][i]
           paid == [milestones[p] EXCEPT ![i] = Entered(m, "Released")]
<1>1. /\ project[p] # NoProject /\ project[p].status = "Active" /\ i = Current(p)
      /\ m.status = "Approved" /\ ReleaseMilestone(p, i, m.amount)
      /\ UNCHANGED <<next_project_id, accepted>>
  BY DEF ReleaseApproved, ActiveAtCurrent, ActiveAt
<1>2. CASE /\ i + 1 \notin DOMAIN milestones[p] /\ SetStatus(p, "Completed")
           /\ milestones' = [milestones EXCEPT ![p] = paid] /\ UNCHANGED receipts
  <2>1. SetMilestone(p, i, Entered(m, "Released"))
    BY <1>2 DEF SetMilestone, Grounds, RegistryInv, ProjectTypes
  <2>2. QED
    BY <1>1, <1>2, <2>1, CompletedInv
<1>3. CASE /\ i + 1 \in DOMAIN milestones[p]
           /\ project' = [project EXCEPT ![p].current_milestone = i + 1]
           /\ milestones' = [milestones EXCEPT ![p] = [paid EXCEPT ![i + 1] = Started(@)]]
           /\ receipts' = [receipts EXCEPT ![p] = NoReceipts]
  BY <1>1, <1>3, NextMilestoneInv
<1>4. QED
  BY <1>2, <1>3 DEF ReleaseApproved

\* apply_timeout
LEMMA ApplyTimeoutInv ==
  ASSUME Grounds, NEW p \in Projects, ApplyTimeout(p)
  PROVE  RegistryInv'
<1>0. RegistryInv
  BY DEF Grounds
<1>1. CASE FinalizeFunding(p)
  BY <1>1, FinalizeFundingInv
<1>2. CASE ActivateProject(p)
  BY <1>2, ActivateProjectInv
<1>3. CASE FinalizeDispute(p, Current(p))
  BY <1>3, FinalizeDisputeInv
<1>4. CASE HasStatus(p, "Active") /\ ApplyTimeoutToCurrent(p, Current(p))
  <2> DEFINE i == Current(p)
  <2>1. project[p] # NoProject /\ project[p].status = "Active"
    BY <1>4 DEF HasStatus
  <2>2. i \in DOMAIN milestones[p]
    BY <1>0, <2>1, OfCurrent
  <2>3. CASE RejectForTimeout(p, i)
    BY <2>1, <2>3, RejectForTimeoutInv
  <2>4. CASE OpenReview(p, i)
    BY <2>2, <2>4, OpenReviewInv
  <2>5. CASE FinalizeReview(p, i)
    BY <2>2, <2>5, FinalizeReviewInv
  <2>6. CASE OpenVoting(p, i)
    BY <2>2, <2>6, OpenVotingInv
  <2>7. CASE FinalizeVote(p, i)
    BY <2>2, <2>7, FinalizeVoteInv
  <2>8. CASE /\ milestones[p][i].status = "Rejected" /\ FailProject(p)
             /\ UNCHANGED <<registry_admin, next_project_id, milestones, accepted, receipts>>
    BY <2>1, <2>8, NoReworkInv
  <2>9. QED
    BY <1>4, <2>3, <2>4, <2>5, <2>6, <2>7, <2>8 DEF ApplyTimeoutToCurrent
<1>5. QED
  BY <1>1, <1>2, <1>3, <1>4 DEF ApplyTimeout

-----------------------------------------------------------------------------
(* What the registry asks of the escrow.                                    *)

\* A call that moves or commits money, or no call at all.
MoneyCall ==
  \/ UNCHANGED escrow_vars
  \/ Tick
  \/ \E p \in Projects, a \in Assets, goal \in Int, amounts \in Seq(Int),
        deadline \in Int, cap \in Nat : OpenVault(p, a, goal, deadline, amounts, cap)
  \/ \E p \in Projects, c \in Contributors, amount \in Int :
        Deposit(p, c, amount) \/ DepositThenLock(p, c, amount)
  \/ \E p \in Projects : LockFunding(p) \/ EnableRefunds(p)
  \/ \E p \in Projects, m \in 0..4, amount \in Int : ReleaseMilestone(p, m, amount)
  \/ \E p \in Projects, c \in Contributors : ClaimRefund(p, c)

\* Such a call is one of those the escrow was proved for, and leaves alone
\* what the two contracts keep copies of.
LEMMA MoneyCallOK == MoneyCall => [AnyCall]_escrow_vars /\ UNCHANGED escrow_admin
<1>1. MoneyCall => [AnyCall]_escrow_vars
  BY Zenon DEF MoneyCall, AnyCall
<1>2. UNCHANGED escrow_vars => UNCHANGED escrow_admin
  BY DEF escrow_vars
<1>3. Tick => UNCHANGED escrow_admin
  BY DEF Tick
<1>4. ASSUME NEW p, NEW a, NEW goal, NEW amounts, NEW deadline, NEW cap,
             OpenVault(p, a, goal, deadline, amounts, cap)
      PROVE  UNCHANGED escrow_admin
  BY <1>4 DEF OpenVault
<1>5. ASSUME NEW p, NEW c, NEW amount, Deposit(p, c, amount) \/ DepositThenLock(p, c, amount)
      PROVE  UNCHANGED escrow_admin
  BY <1>5 DEF Deposit, DepositThenLock, DepositInto
<1>6. ASSUME NEW p, LockFunding(p) \/ EnableRefunds(p)
      PROVE  UNCHANGED escrow_admin
  BY <1>6 DEF LockFunding, EnableRefunds
<1>7. ASSUME NEW p, NEW m, NEW amount, ReleaseMilestone(p, m, amount)
      PROVE  UNCHANGED escrow_admin
  BY <1>7 DEF ReleaseMilestone
<1>8. ASSUME NEW p, NEW c, ClaimRefund(p, c)
      PROVE  UNCHANGED escrow_admin
  BY <1>8 DEF ClaimRefund
<1>9. QED
  BY <1>1, <1>2, <1>3, <1>4, <1>5, <1>6, <1>7, <1>8 DEF MoneyCall

\* open_funding submits the terms of the project.
LEMMA OpenFundingCall ==
  ASSUME RegistryInv, NEW p \in Projects, OpenFunding(p)
  PROVE  MoneyCall
<1> DEFINE pr   == project[p]
           ms   == milestones[p]
           plan == [m \in 1..Cardinality(DOMAIN ms) |-> ms[m - 1].amount]
<1>1. /\ pr # NoProject
      /\ OpenVault(p, pr.asset, pr.goal, pr.funding_deadline, plan, Policy.max_contribution_bps)
  BY DEF OpenFunding, HasStatus
<1>2. pr \in Project /\ ms \in MilestoneLists /\ ms # <<>>
  BY <1>1, OfProject
<1>3. plan \in Seq(Int)
  BY <1>2, PlanOK
<1> HIDE DEF plan
<1>4. pr.asset \in Assets /\ pr.goal \in Int /\ pr.funding_deadline \in Int
  BY <1>2 DEF Project
<1>5. Policy.max_contribution_bps \in Nat
  BY PolicyNumbers
<1>6. QED
  BY <1>1, <1>3, <1>4, <1>5 DEF MoneyCall

\* release_milestone pays what the milestone says.
LEMMA ReleaseCall ==
  ASSUME RegistryInv, NEW p \in Projects, NEW i \in DOMAIN milestones[p], ReleaseApproved(p, i)
  PROVE  MoneyCall
<1>1. project[p] # NoProject /\ ReleaseMilestone(p, i, milestones[p][i].amount)
  BY DEF ReleaseApproved, ActiveAtCurrent, ActiveAt
<1>2. i \in 0..4 /\ milestones[p][i] \in Milestone
  BY <1>1, OfProject
<1>3. milestones[p][i].amount \in Int
  BY <1>2 DEF Milestone
<1>4. QED
  BY <1>1, <1>2, <1>3 DEF MoneyCall

\* What the calls about one project ask of the escrow.
LEMMA ProjectCall ==
  ASSUME RegistryInv, NEW p \in Projects, ActorStep(p) \/ PermissionlessStep(p)
  PROVE  MoneyCall /\ UNCHANGED registry_admin
<1>1. ASSUME NEW metadata, UpdateDraft(p, metadata)
      PROVE  MoneyCall /\ UNCHANGED registry_admin
  BY <1>1 DEF UpdateDraft, MoneyCall
<1>2. ASSUME NEW role, NEW w, AcceptRole(p, role, w)
      PROVE  MoneyCall /\ UNCHANGED registry_admin
  BY <1>2 DEF AcceptRole, MoneyCall
<1>3. CASE OpenFunding(p)
  BY <1>3, OpenFundingCall DEF OpenFunding
<1>4. CASE CancelProject(p)
  BY <1>4 DEF CancelProject, MoneyCall
<1>5. ASSUME NEW c \in Contributors, NEW amount \in AmountInputs, Contribute(p, c, amount)
      PROVE  MoneyCall /\ UNCHANGED registry_admin
  <2>1. amount \in Int
    BY EscrowAssumption
  <2>2. Deposit(p, c, amount) \/ DepositThenLock(p, c, amount)
    BY <1>5 DEF Contribute
  <2>3. QED
    BY <1>5, <2>1, <2>2 DEF MoneyCall, Contribute
<1>6. ASSUME NEW i, StartRework(p, i) \/ OpenReview(p, i) \/ FinalizeReview(p, i)
                      \/ OpenVoting(p, i) \/ FinalizeVote(p, i)
      PROVE  MoneyCall /\ UNCHANGED registry_admin
  BY <1>6 DEF StartRework, OpenReview, FinalizeReview, OpenVoting, FinalizeVote, DecisionOnly,
              MoneyCall
<1>7. ASSUME NEW i, NEW attempt, NEW hash, SubmitEvidence(p, i, attempt, hash)
      PROVE  MoneyCall /\ UNCHANGED registry_admin
  BY <1>7 DEF SubmitEvidence, DecisionOnly, MoneyCall
<1>8. ASSUME NEW i, NEW attempt, NEW hash, NEW w, NEW decision,
             Attest(p, i, w, attempt, hash, decision)
      PROVE  MoneyCall /\ UNCHANGED registry_admin
  BY <1>8 DEF Attest, DecisionOnly, MoneyCall
<1>9. ASSUME NEW i, NEW attempt, NEW hash, NEW c, NEW decision,
             Vote(p, i, c, attempt, hash, decision)
      PROVE  MoneyCall /\ UNCHANGED registry_admin
  BY <1>9 DEF Vote, DecisionOnly, MoneyCall
<1>10. ASSUME NEW i, NEW attempt, NEW w, NEW decision, Arbitrate(p, i, w, attempt, decision)
       PROVE  MoneyCall /\ UNCHANGED registry_admin
  BY <1>10 DEF Arbitrate, DecisionOnly, MoneyCall
<1>11. CASE FinalizeFunding(p)
  BY <1>11 DEF FinalizeFunding, MoneyCall
<1>12. CASE ActivateProject(p)
  BY <1>12 DEF ActivateProject, MoneyCall
<1>13. ASSUME NEW i, FinalizeDispute(p, i)
       PROVE  MoneyCall /\ UNCHANGED registry_admin
  BY <1>13 DEF FinalizeDispute, FailProject, MoneyCall
<1>14. ASSUME NEW i \in DOMAIN milestones[p], ReleaseApproved(p, i)
       PROVE  MoneyCall /\ UNCHANGED registry_admin
  BY <1>14, ReleaseCall DEF ReleaseApproved
<1>15. CASE ApplyTimeout(p)
  <2>1. ASSUME NEW i, RejectForTimeout(p, i)
        PROVE  MoneyCall /\ UNCHANGED registry_admin
    BY <2>1 DEF RejectForTimeout, FailProject, MoneyCall
  <2>2. ASSUME FailProject(p), UNCHANGED registry_admin
        PROVE  MoneyCall /\ UNCHANGED registry_admin
    BY <2>2 DEF FailProject, MoneyCall
  <2>3. ASSUME NEW i, ApplyTimeoutToCurrent(p, i)
        PROVE  MoneyCall /\ UNCHANGED registry_admin
    BY <1>6, <2>1, <2>2, <2>3 DEF ApplyTimeoutToCurrent
  <2>4. QED
    BY <1>11, <1>12, <1>13, <1>15, <2>3 DEF ApplyTimeout
<1>16. CASE ActorStep(p)
  BY <1>1, <1>2, <1>3, <1>4, <1>5, <1>6, <1>7, <1>8, <1>9, <1>10, <1>16 DEF ActorStep
<1>17. CASE PermissionlessStep(p)
  BY <1>6, <1>11, <1>12, <1>13, <1>14, <1>15, <1>17 DEF PermissionlessStep
<1>18. QED
  BY <1>16, <1>17

\* What the administration of the two contracts does.
LEMMA AdminCall ==
  ASSUME RegistryInv, AdminStep
  PROVE  /\ [AnyCall]_escrow_vars /\ AdminAgree'
         /\ UNCHANGED <<project_vars, vault, contribution>>
<1>0. AdminAgree
  BY DEF RegistryInv
<1>1. ASSUME NEW a \in Assets, NEW policy \in PolicyInputs, SetAssetPolicy(a, policy)
      PROVE  /\ [AnyCall]_escrow_vars /\ AdminAgree'
             /\ UNCHANGED <<project_vars, vault, contribution>>
  <2>1. SyncAssetPolicy(a, policy)
    BY <1>1 DEF SetAssetPolicy
  <2>2. AnyCall
    BY <2>1, Zenon DEF AnyCall
  <2>3. AdminAgree' /\ UNCHANGED <<project_vars, vault, contribution>>
    BY <1>0, <1>1 DEF SetAssetPolicy, SyncAssetPolicy, AdminAgree, vault_vars
  <2>4. QED
    BY <2>2, <2>3
<1>2. ASSUME NEW actor \in Accounts \cup {PauseGuardian}, NEW mode \in ModeInputs,
             SetPauseMode(actor, mode)
      PROVE  /\ [AnyCall]_escrow_vars /\ AdminAgree'
             /\ UNCHANGED <<project_vars, vault, contribution>>
  <2>1. EscrowSetPauseMode(actor, mode) /\ mode \in PauseModes
    BY <1>2, RegistryAssumption DEF SetPauseMode
  <2>2. AnyCall
    BY <2>1, Zenon DEF AnyCall
  <2>3. AdminAgree' /\ UNCHANGED <<project_vars, vault, contribution>>
    BY <1>0, <1>2 DEF SetPauseMode, EscrowSetPauseMode, RegistryClockAfter, AdminAgree, vault_vars
  <2>4. QED
    BY <2>2, <2>3
<1>3. ASSUME NEW proposed \in GovernorInputs, ProposeGovernor(proposed)
      PROVE  /\ [AnyCall]_escrow_vars /\ AdminAgree'
             /\ UNCHANGED <<project_vars, vault, contribution>>
  <2>1. EscrowProposeGovernor(proposed) /\ proposed \in Accounts
    BY <1>3, RegistryAssumption DEF ProposeGovernor
  <2>2. AnyCall
    BY <2>1, Zenon DEF AnyCall
  <2>3. AdminAgree' /\ UNCHANGED <<project_vars, vault, contribution>>
    BY <1>0, <1>3 DEF ProposeGovernor, EscrowProposeGovernor, AdminAgree, vault_vars
  <2>4. QED
    BY <2>2, <2>3
<1>4. CASE AcceptGovernor
  <2>1. EscrowAcceptGovernor
    BY <1>4 DEF AcceptGovernor
  <2>2. AnyCall
    BY <2>1, Zenon DEF AnyCall
  <2>3. AdminAgree' /\ UNCHANGED <<project_vars, vault, contribution>>
    BY <1>0, <1>4 DEF AcceptGovernor, EscrowAcceptGovernor, AdminAgree, vault_vars
  <2>4. QED
    BY <2>2, <2>3
<1>5. QED
  BY <1>1, <1>2, <1>3, <1>4 DEF AdminStep

\* Every step of the registry is, for the escrow, a call it was proved for.
LEMMA RegistryStep ==
  ASSUME RegistryInv, [RegistryNext]_vars
  PROVE  [AnyCall]_escrow_vars /\ AdminAgree'
<1>1. ASSUME MoneyCall, UNCHANGED registry_admin
      PROVE  [AnyCall]_escrow_vars /\ AdminAgree'
  <2>1. [AnyCall]_escrow_vars /\ UNCHANGED escrow_admin
    BY <1>1, MoneyCallOK
  <2>2. AdminAgree'
    BY <1>1, <2>1 DEF RegistryInv, AdminAgree, registry_admin, escrow_admin
  <2>3. QED
    BY <2>1, <2>2
<1>2. CASE UNCHANGED vars
  BY <1>1, <1>2 DEF vars, MoneyCall
<1>3. CASE RegistryTick
  BY <1>1, <1>3 DEF RegistryTick, MoneyCall
<1>4. ASSUME NEW input \in ProjectInputs, CreateProject(input)
      PROVE  [AnyCall]_escrow_vars /\ AdminAgree'
  BY <1>1, <1>4 DEF CreateProject, MoneyCall
<1>5. ASSUME NEW p \in Projects, ActorStep(p) \/ PermissionlessStep(p)
      PROVE  [AnyCall]_escrow_vars /\ AdminAgree'
  BY <1>1, <1>5, ProjectCall
<1>6. ASSUME NEW p \in Projects, NEW c \in Contributors, PayRefund(p, c)
      PROVE  [AnyCall]_escrow_vars /\ AdminAgree'
  <2>1. MoneyCall /\ UNCHANGED registry_admin
    BY <1>6 DEF PayRefund, MoneyCall
  <2>2. QED
    BY <1>1, <2>1
<1>7. CASE AdminStep
  BY <1>7, AdminCall
<1>8. QED
  BY <1>2, <1>3, <1>4, <1>5, <1>6, <1>7 DEF RegistryNext

\* Every step starts and ends on the grounds the lemmas above stand on.
LEMMA StepGrounds ==
  ASSUME RegistryInv, [RegistryNext]_vars
  PROVE  /\ Grounds /\ ClockStep
         /\ RegistryNow = EscrowNow /\ RegistryNow' = EscrowNow'
<1>1. [AnyCall]_escrow_vars /\ AdminAgree' /\ AdminAgree /\ Books
  BY RegistryStep DEF RegistryInv
<1>2. Books'
  BY <1>1, BooksNext
<1>3. ClockStep
  BY <1>1, CallsKeepTime DEF Books
<1>4. RegistryNow = EscrowNow /\ RegistryNow' = EscrowNow'
  BY <1>1 DEF AdminAgree, RegistryNow, EscrowNow
<1>5. EscrowNow \in Nat
  BY <1>1, EffectiveInNat, EscrowAssumption DEF Books, EscrowInv, EscrowTypeOK, EscrowNow
<1>6. EscrowNow' \in Nat
  <2>1. now' \in 0..MaxTime /\ ClockOK(escrow_clock', now')
    BY <1>2 DEF Books, EscrowInv, EscrowTypeOK, ClockOK
  <2>2. now' \in Nat
    BY <2>1, EscrowAssumption
  <2>3. Effective(escrow_clock', now') \in Nat
    BY <2>1, <2>2, EffectiveInNat
  <2>4. QED
    BY <2>3 DEF EscrowNow, Effective, Paused
<1>7. QED
  BY <1>1, <1>2, <1>3, <1>4, <1>5, <1>6 DEF Grounds, ClockStep

-----------------------------------------------------------------------------
(* The invariant holds.                                                     *)

\* What a claim leaves of the vaults.
LEMMA RefundClaimed ==
  ASSUME RegistryInv, NEW p \in Projects, NEW c \in Contributors, ClaimRefund(p, c)
  PROVE  LET v == vault[p]  w == vault'[p] IN
         /\ v \in Vault /\ v # NoVault /\ w # NoVault
         /\ w.goal = v.goal /\ w.funding_deadline = v.funding_deadline
         /\ w.contributor_count = v.contributor_count
         /\ w.refundable = v.refundable /\ w.next_milestone = v.next_milestone
         /\ w.funding_locked = v.funding_locked /\ w.deposited = v.deposited
         /\ \A q \in Projects : q # p => vault'[q] = vault[q]
<1> DEFINE v      == vault[p]
           w      == vault'[p]
           shares == contribution[p][c]
           amount == RefundAmount(v, shares)
<1>1. /\ v # NoVault /\ v.refundable /\ shares > 0 /\ shares <= v.remaining_shares
      /\ vault' = [vault EXCEPT ![p] = AfterRefund(v, shares, amount)]
  BY DEF ClaimRefund
<1>2. /\ vault \in [Projects -> Vault \cup {NoVault}] /\ Accounting
      /\ shares \in Nat
  BY DEF RegistryInv, Books, EscrowInv, EscrowTypeOK
<1>3. v \in Vault /\ VaultOK(v) /\ w = AfterRefund(v, shares, amount)
      /\ \A q \in Projects : q # p => vault'[q] = vault[q]
  BY <1>1, <1>2 DEF Accounting, Opened
<1>4. w \in Vault
  BY <1>1, <1>2, <1>3, AfterRefundOK
<1>5. w # NoVault
  BY <1>4, EscrowAssumption
<1> HIDE DEF amount, shares
<1>6. /\ w.goal = v.goal /\ w.funding_deadline = v.funding_deadline
      /\ w.contributor_count = v.contributor_count
      /\ w.refundable = v.refundable /\ w.next_milestone = v.next_milestone
      /\ w.funding_locked = v.funding_locked /\ w.deposited = v.deposited
  BY <1>3 DEF AfterRefund, Vault
<1>7. QED
  BY <1>1, <1>3, <1>5, <1>6

\* claim_refund, which the contributors call on the escrow
LEMMA PayRefundInv ==
  ASSUME Grounds, NEW p \in Projects, NEW c \in Contributors, PayRefund(p, c)
  PROVE  RegistryInv'
<1> DEFINE v == vault[p]
           w == vault'[p]
           pr == project[p]
<1>0. RegistryInv /\ ClaimRefund(p, c) /\ UNCHANGED <<contribution, project_vars>>
  BY DEF Grounds, PayRefund, ClaimRefund
<1>1. /\ v \in Vault /\ v # NoVault /\ w # NoVault
      /\ w.goal = v.goal /\ w.funding_deadline = v.funding_deadline
      /\ w.contributor_count = v.contributor_count
      /\ w.refundable = v.refundable /\ w.next_milestone = v.next_milestone
      /\ w.funding_locked = v.funding_locked /\ w.deposited = v.deposited
      /\ \A q \in Projects : q # p => vault'[q] = vault[q]
  BY <1>0, RefundClaimed
<1>2. pr # NoProject
  BY <1>0, <1>1 DEF RegistryInv, ProjectOK
<1>3. Backed(pr, v)
  BY <1>0, <1>2, OfProject
<1>4. Backed(pr, w)
  BY <1>1, <1>3 DEF Backed
<1>5. pr \in Project /\ pr.status # "Completed"
  <2>1. v.refundable
    BY <1>0 DEF ClaimRefund
  <2>2. QED
    BY <1>0, <1>1, <1>2, <1>3, <2>1, OfProject DEF Backed
<1>6. project' = [project EXCEPT ![p] = pr]
  BY <1>0 DEF RegistryInv, ProjectTypes, project_vars
<1>7. SameTerms(pr, pr)
  BY DEF SameTerms
<1>8. UNCHANGED <<milestones, accepted, receipts, next_project_id, contribution>>
  BY <1>0 DEF project_vars
<1> HIDE DEF v, w
<1>9. QED
  BY <1>1, <1>2, <1>4, <1>5, <1>6, <1>7, <1>8, StatusStep DEF v, w

\* initialize establishes the invariant.
LEMMA RegistryInitInv == RegistryInit => RegistryInv
<1> SUFFICES ASSUME RegistryInit PROVE RegistryInv
  OBVIOUS
<1>1. Books
  BY BooksInit DEF RegistryInit
<1>2. AdminAgree
  BY DEF RegistryInit, EscrowInit, AdminAgree
<1>3. NoReceipts \in Receipts /\ NoRoles \in Roster
  BY NoReceiptsOK DEF NoRoles, Roster
<1>4. ProjectTypes
  BY <1>3 DEF RegistryInit, ProjectTypes, NoRoles, MilestoneLists
<1>5. IdsFresh
  BY DEF RegistryInit, IdsFresh
<1>6. \A p \in Projects : ProjectOK(p)
  BY DEF RegistryInit, EscrowInit, ProjectOK, NoRoles
<1>7. QED
  BY <1>1, <1>2, <1>4, <1>5, <1>6 DEF RegistryInv

\* The calls of the actors of a project keep the invariant,
LEMMA ActorStepInv ==
  ASSUME Grounds, NEW p \in Projects, ActorStep(p)
  PROVE  RegistryInv'
<1>1. ASSUME NEW metadata \in MetadataInputs, UpdateDraft(p, metadata) PROVE RegistryInv'
  BY <1>1, UpdateDraftInv
<1>2. ASSUME NEW role \in {"reviewers", "arbitrators"}, NEW w \in Wallets,
             AcceptRole(p, role, w)
      PROVE  RegistryInv'
  BY <1>2, AcceptRoleInv
<1>3. CASE OpenFunding(p)
  BY <1>3, OpenFundingInv
<1>4. CASE CancelProject(p)
  BY <1>4, CancelProjectInv
<1>5. ASSUME NEW c \in Contributors, NEW amount \in AmountInputs, Contribute(p, c, amount)
      PROVE  RegistryInv'
  <2>1. amount \in Int
    BY EscrowAssumption
  <2>2. QED
    BY <1>5, <2>1, ContributeInv
<1>6. ASSUME NEW i \in DOMAIN milestones[p], StartRework(p, i) PROVE RegistryInv'
  BY <1>6, StartReworkInv
<1>7. ASSUME NEW i \in DOMAIN milestones[p], NEW attempt \in Attempts, NEW hash \in Hashes,
             SubmitEvidence(p, i, attempt, hash)
      PROVE  RegistryInv'
  BY <1>7, SubmitEvidenceInv
<1>8. ASSUME NEW i \in DOMAIN milestones[p], NEW attempt \in Attempts, NEW hash \in Hashes,
             NEW w \in Wallets, NEW decision \in ReviewerDecisions,
             Attest(p, i, w, attempt, hash, decision)
      PROVE  RegistryInv'
  BY <1>8, AttestInv
<1>9. ASSUME NEW i \in DOMAIN milestones[p], NEW attempt \in Attempts, NEW hash \in Hashes,
             NEW c \in Contributors, NEW decision \in ContributorDecisions,
             Vote(p, i, c, attempt, hash, decision)
      PROVE  RegistryInv'
  BY <1>9, VoteInv
<1>10. ASSUME NEW i \in DOMAIN milestones[p], NEW attempt \in Attempts,
              NEW w \in Wallets, NEW decision \in Arbitrations,
              Arbitrate(p, i, w, attempt, decision)
       PROVE  RegistryInv'
  BY <1>10, ArbitrateInv
<1>11. QED
  BY ONLY ActorStep(p), <1>1, <1>2, <1>3, <1>4, <1>5, <1>6, <1>7, <1>8, <1>9, <1>10
     DEF ActorStep

\* and so do the calls anybody may make.
LEMMA PermissionlessStepInv ==
  ASSUME Grounds, NEW p \in Projects, PermissionlessStep(p)
  PROVE  RegistryInv'
<1>1. CASE FinalizeFunding(p)
  BY <1>1, FinalizeFundingInv
<1>2. CASE ActivateProject(p)
  BY <1>2, ActivateProjectInv
<1>3. CASE ApplyTimeout(p)
  BY <1>3, ApplyTimeoutInv
<1>4. ASSUME NEW i \in DOMAIN milestones[p], OpenReview(p, i) PROVE RegistryInv'
  BY <1>4, OpenReviewInv
<1>5. ASSUME NEW i \in DOMAIN milestones[p], FinalizeReview(p, i) PROVE RegistryInv'
  BY <1>5, FinalizeReviewInv
<1>6. ASSUME NEW i \in DOMAIN milestones[p], OpenVoting(p, i) PROVE RegistryInv'
  BY <1>6, OpenVotingInv
<1>7. ASSUME NEW i \in DOMAIN milestones[p], FinalizeVote(p, i) PROVE RegistryInv'
  BY <1>7, FinalizeVoteInv
<1>8. ASSUME NEW i \in DOMAIN milestones[p], FinalizeDispute(p, i) PROVE RegistryInv'
  BY <1>8, FinalizeDisputeInv
<1>9. ASSUME NEW i \in DOMAIN milestones[p], ReleaseApproved(p, i) PROVE RegistryInv'
  BY <1>9, ReleaseApprovedInv
<1>10. QED
  BY <1>1, <1>2, <1>3, <1>4, <1>5, <1>6, <1>7, <1>8, <1>9 DEF PermissionlessStep

\* Every step of the two contracts keeps the invariant.
LEMMA RegistryNextInv == RegistryInv /\ [RegistryNext]_vars => RegistryInv'
<1> SUFFICES ASSUME RegistryInv, [RegistryNext]_vars PROVE RegistryInv'
  OBVIOUS
<1>0. Grounds
  BY StepGrounds
<1>1. CASE UNCHANGED vars
  <2>1. UNCHANGED <<project_vars, vault, contribution>>
    BY <1>1 DEF vars, escrow_vars, vault_vars
  <2>2. QED
    BY <1>0, <2>1, NoProjectStep
<1>2. CASE RegistryTick
  <2>1. UNCHANGED <<project_vars, vault, contribution>>
    BY <1>2 DEF RegistryTick, Tick, vault_vars
  <2>2. QED
    BY <1>0, <2>1, NoProjectStep
<1>3. CASE \E input \in ProjectInputs : CreateProject(input)
  BY <1>0, <1>3, CreateProjectInv
<1>4. CASE \E p \in Projects : ActorStep(p) \/ PermissionlessStep(p)
  BY <1>0, <1>4, ActorStepInv, PermissionlessStepInv
<1>5. CASE \E p \in Projects, c \in Contributors : PayRefund(p, c)
  BY <1>0, <1>5, PayRefundInv
<1>6. CASE AdminStep
  BY <1>0, <1>6, AdminCall, NoProjectStep
<1>7. QED
  BY <1>1, <1>2, <1>3, <1>4, <1>5, <1>6 DEF RegistryNext

\* It holds in every reachable state.
LEMMA RegistryInvariant == RegistrySpec => []RegistryInv
BY RegistryInitInv, RegistryNextInv, PTL DEF RegistrySpec

-----------------------------------------------------------------------------
(* What follows from it.                                                    *)

\* A project that exists, in the invariant.
LEMMA OfCreated ==
  ASSUME RegistryInv, NEW p \in Created
  PROVE  p \in Projects /\ project[p] # NoProject
BY DEF Created

(***************************************************************************)
(* Type correctness of the registry in every reachable state, for every    *)
(* value of the constants: two to five milestones, the current one among   *)
(* them, and no counter of ballots or weights below zero.                  *)
(***************************************************************************)
THEOREM RegistryTypes == RegistrySpec => []RegistryTypeOK
<1>1. ASSUME RegistryInv PROVE RegistryTypeOK
  <2>1. /\ AdminAgree /\ ProjectTypes /\ IdsFresh /\ EscrowTypeOK
        /\ \A p \in Projects : ProjectOK(p)
    BY <1>1 DEF RegistryInv, Books, EscrowInv
  <2>2. ClockOK(registry_clock, now) /\ registry_governor \in Accounts
        /\ registry_pending \in Accounts \cup {None}
        /\ registry_policy \in [Assets -> AssetPolicy \cup {None}]
    BY <2>1 DEF AdminAgree, EscrowTypeOK
  <2>3. ASSUME NEW p \in Projects, project[p] = NoProject
        PROVE  milestones[p] = <<>>
    BY <2>1, <2>3 DEF ProjectOK
  <2>4. ASSUME NEW p \in Projects, project[p] # NoProject
        PROVE  /\ \E n \in 2..5 : milestones[p] \in [0..(n - 1) -> Milestone]
               /\ Current(p) \in DOMAIN milestones[p]
    <3>1. /\ milestones[p] \in MilestoneLists /\ milestones[p] # <<>>
          /\ project[p].current_milestone \in DOMAIN milestones[p]
      BY <1>1, <2>4, OfProject
    <3>2. QED
      BY <3>1, ListShape DEF Current
  <2>5. QED
    BY <2>1, <2>2, <2>3, <2>4
       DEF RegistryTypeOK, ProjectTypes, IdsFresh, Roster, Receipts
<1>2. QED
  BY <1>1, RegistryInvariant, PTL

\* How many milestones are paid, as StatusMatchesVault counts them.
LEMMA PaidIsAll ==
  ASSUME NEW pr, NEW ms \in MilestoneLists, ms # <<>>, Staged(pr, ms),
         pr.status = "Completed"
  PROVE  PaidCount(pr) = Cardinality(DOMAIN ms)
<1> DEFINE n == Cardinality(DOMAIN ms)
<1>1. n \in 2..5 /\ DOMAIN ms = 0..(n - 1)
  BY ListIndices
<1>2. pr.current_milestone \in DOMAIN ms /\ pr.current_milestone + 1 \notin DOMAIN ms
  BY DEF Staged
<1> HIDE DEF n
<1>3. pr.current_milestone + 1 = n
  BY <1>1, <1>2
<1>4. QED
  BY <1>3 DEF PaidCount, n

(***************************************************************************)
(* The status of a project always says what state its vault is in, and     *)
(* exactly the milestones before the current one have been paid: no call   *)
(* of the registry leaves the two contracts with different ideas of it.    *)
(***************************************************************************)
THEOREM StatusAndVaultAgree == RegistrySpec => []StatusMatchesVault
<1>1. ASSUME RegistryInv, NEW p \in Created
      PROVE  LET pr == project[p]
                 v  == vault[p]
                 n  == Cardinality(DOMAIN milestones[p])
                 paid == IF pr.status = "Completed" THEN n ELSE pr.current_milestone
             IN
             /\ v = NoVault => pr.status \in {"Draft", "Cancelled"}
             /\ v # NoVault =>
                  /\ pr.status # "Draft"
                  /\ v.contributor_count = pr.contributor_count
                  /\ v.refundable <=> pr.status \in {"Failed", "Cancelled"}
                  /\ pr.status = "Funding" => ~v.funding_locked /\ v.deposited < v.goal
                  /\ pr.status \in {"Funded", "Active", "Disputed", "Completed"} =>
                       v.funding_locked /\ v.deposited = v.goal
                  /\ pr.status \in {"Active", "Disputed", "Completed"} =>
                       pr.contributor_count >= Policy.min_contributors
                  /\ v.next_milestone = paid
             /\ \A i \in DOMAIN milestones[p] :
                  milestones[p][i].status = "Released" <=> i < paid
  <2> DEFINE pr == project[p]
             ms == milestones[p]
             paid == IF pr.status = "Completed" THEN Cardinality(DOMAIN ms)
                     ELSE pr.current_milestone
  <2>1. /\ ms \in MilestoneLists /\ ms # <<>> /\ Staged(pr, ms) /\ Backed(pr, vault[p])
    BY <1>1, OfCreated, OfProject
  <2>2. PaidCount(pr) = paid
    BY <2>1, PaidIsAll DEF PaidCount
  <2> HIDE DEF paid
  <2>3. \A i \in DOMAIN ms : ms[i].status = "Released" <=> i < paid
    BY <2>1, <2>2 DEF Staged
  <2>4. vault[p] # NoVault => vault[p].next_milestone = paid
    BY <2>1, <2>2 DEF Backed
  <2>5. QED
    BY <2>1, <2>3, <2>4 DEF Backed, paid
<1>2. RegistryInv => StatusMatchesVault
  BY <1>1 DEF StatusMatchesVault
<1>3. QED
  BY <1>2, RegistryInvariant, PTL

(***************************************************************************)
(* No milestone is paid, or waits to be, that reviewers did not verify and *)
(* that neither the contributors' vote nor the arbitrators approved.       *)
(***************************************************************************)
THEOREM OnlyEarnedIsPaid == RegistrySpec => []PaidOnlyIfEarned
<1>1. ASSUME RegistryInv, NEW p \in Created, NEW i \in DOMAIN milestones[p],
             release_receipt[p][i] > 0 \/ milestones[p][i].status = "Approved"
      PROVE  /\ milestones[p][i].verify_count >= Policy.reviewer_threshold
             /\ Deserved(milestones[p][i], project[p].eligible_voting_power)
  <2> DEFINE pr == project[p]
             m  == milestones[p][i]
             v  == vault[p]
  <2>1. /\ p \in Projects /\ pr # NoProject
        /\ Staged(pr, milestones[p]) /\ Backed(pr, v)
        /\ Earned(m, pr.eligible_voting_power, RegistryNow)
        /\ i \in 0..4
    BY <1>1, OfCreated, OfProject
  <2>2. m.status \in {"Approved", "Released"}
    <3>1. CASE m.status = "Approved"
      BY <3>1
    <3>2. CASE release_receipt[p][i] > 0
      <4>1. BooksOK(p)
        BY <1>1, <2>1 DEF RegistryInv, Books
      <4>2. v # NoVault
        BY <2>1, <3>2, <4>1 DEF BooksOK
      <4>3. i < v.next_milestone
        BY <2>1, <3>2, <4>1, <4>2 DEF BooksOK, ReleasesOK
      <4>4. i < PaidCount(pr)
        BY <2>1, <4>2, <4>3 DEF Backed
      <4>5. QED
        BY <2>1, <4>4 DEF Staged
    <3>3. QED
      BY <1>1, <3>1, <3>2
  <2>3. QED
    BY <2>1, <2>2 DEF Earned
<1>2. RegistryInv => PaidOnlyIfEarned
  BY <1>1 DEF PaidOnlyIfEarned, Deserved
<1>3. QED
  BY <1>2, RegistryInvariant, PTL

(***************************************************************************)
(* No wallet ever holds two of the powers over a project: whoever creates  *)
(* it or is paid by it neither funds, reviews nor arbitrates it, and       *)
(* contributors, reviewers and arbitrators are different wallets.          *)
(***************************************************************************)
THEOREM PowersAreSeparate == RegistrySpec => []SeparatePowers
<1>1. ASSUME RegistryInv, NEW p \in Created
      PROVE  LET pr         == project[p]
                 interested == {pr.creator, pr.payout}
                 funders    == {c \in Contributors : contribution[p][c] > 0}
                 reviewing  == accepted[p].reviewers
                 judging    == accepted[p].arbitrators
             IN
             /\ interested \cap (funders \cup reviewing \cup judging) = {}
             /\ funders \cap (reviewing \cup judging) = {}
             /\ reviewing \cap judging = {}
  <2>1. Apart(project[p], accepted[p], contribution[p])
    BY <1>1, OfCreated, OfProject
  <2>2. QED
    BY <2>1 DEF Apart, Conflicted, HasProjectRole
<1>2. RegistryInv => SeparatePowers
  BY <1>1 DEF SeparatePowers
<1>3. QED
  BY <1>2, RegistryInvariant, PTL

(***************************************************************************)
(* The copies of the pause clock, the governor, the asset policies and the *)
(* funding deadline that the two contracts keep never differ.              *)
(***************************************************************************)
THEOREM CopiesAgree == RegistrySpec => []ContractsAgree
<1>1. ASSUME RegistryInv, NEW p \in Created, vault[p] # NoVault
      PROVE  vault[p].funding_deadline = project[p].funding_deadline
  BY <1>1, OfCreated, OfProject DEF Backed
<1>2. RegistryInv => ContractsAgree
  BY <1>1 DEF ContractsAgree, RegistryInv, AdminAgree
<1>3. QED
  BY <1>2, RegistryInvariant, PTL

(***************************************************************************)
(* However a contributor's total was split into deposits, the voting power *)
(* the project counts as eligible is the sum of the capped powers.         *)
(***************************************************************************)
THEOREM PowerIsExact == RegistrySpec => []EligiblePowerExact
<1>1. ASSUME RegistryInv, NEW p \in Created
      PROVE  project[p].eligible_voting_power =
               SumFunction([c \in Contributors |->
                              VotingPower(project[p].goal, contribution[p][c])])
  <2>1. Eligible(project[p], contribution[p])
    BY <1>1, OfCreated, OfProject
  <2>2. QED
    BY <2>1 DEF Eligible, Powers, SumFunction, SumFunctionOnSet, FoldFunction
<1>2. RegistryInv => EligiblePowerExact
  BY <1>1 DEF EligiblePowerExact
<1>3. QED
  BY <1>2, RegistryInvariant, PTL

(***************************************************************************)
(* The seven counters that decide a milestone are the ballots of its       *)
(* current attempt: nothing is counted twice, lost, or carried over from   *)
(* an earlier attempt or milestone.                                        *)
(***************************************************************************)
THEOREM BallotsAreCounted == RegistrySpec => []BallotsCounted
<1>1. ASSUME RegistryInv, NEW p \in Created
      PROVE  LET m == milestones[p][Current(p)]
                 r == receipts[p]
             IN
             /\ m.verify_count = Cardinality(Cast(r.attested, "Verify"))
             /\ m.reject_count = Cardinality(Cast(r.attested, "Reject"))
             /\ m.approve_weight = CastWeight(p, "Approve")
             /\ m.dispute_weight = CastWeight(p, "Dispute")
             /\ m.arbitration_approve = Cardinality(Cast(r.arbitrated, "ApproveRelease"))
             /\ m.arbitration_reject = Cardinality(Cast(r.arbitrated, "RejectMilestone"))
             /\ m.arbitration_rework = Cardinality(Cast(r.arbitrated, "RequireRework"))
  <2>1. Counted(milestones[p][project[p].current_milestone], receipts[p], project[p],
                contribution[p])
    BY <1>1, OfCreated, OfProject
  <2>2. QED
    BY <2>1 DEF Counted, Current, WeightOf, Powers, CastWeight
<1>2. RegistryInv => BallotsCounted
  BY <1>1 DEF BallotsCounted
<1>3. QED
  BY <1>2, RegistryInvariant, PTL

(***************************************************************************)
(* The money of the escrow when the registry is the one that calls it:     *)
(* every token it holds is accounted for, whatever the projects do.        *)
(***************************************************************************)
THEOREM RegistryKeepsSolvent == RegistrySpec => []Solvency
<1>1. RegistryInv => Solvency
  BY BooksSolvent DEF RegistryInv
<1>2. QED
  BY <1>1, RegistryInvariant, PTL

-----------------------------------------------------------------------------
(* The pause.                                                               *)

\* Under the risky pause nothing that a project step needs is accepted.
LEMMA NothingAccepted ==
  ASSUME registry_clock.pause_mode = "PauseRiskyMutations"
  PROVE  ~NewActivity /\ ~RiskyMutations
BY DEF NewActivity, RiskyMutations, AcceptsNewActivity, AcceptsRiskyMutations

\* So that no call about a project is made,
LEMMA NoProjectCall ==
  ASSUME registry_clock.pause_mode = "PauseRiskyMutations"
  PROVE  /\ \A input \in ProjectInputs : ~CreateProject(input)
         /\ \A p \in Projects : ~ActorStep(p) /\ ~PermissionlessStep(p)
<1>0. ~NewActivity /\ ~RiskyMutations
  BY NothingAccepted
<1>1. \A input \in ProjectInputs : ~CreateProject(input)
  BY <1>0 DEF CreateProject
<1>2. ASSUME NEW p \in Projects PROVE ~ActorStep(p)
  BY <1>0 DEF ActorStep, UpdateDraft, AcceptRole, OpenFunding, CancelProject, Contribute,
              StartRework, SubmitEvidence, Attest, Vote, Arbitrate
<1>3. ASSUME NEW p \in Projects PROVE ~PermissionlessStep(p)
  BY <1>0 DEF PermissionlessStep, FinalizeFunding, ActivateProject, ApplyTimeout,
              OpenReview, FinalizeReview, OpenVoting, FinalizeVote, FinalizeDispute,
              ReleaseApproved
<1>4. QED
  BY <1>1, <1>2, <1>3

\* what is left are ticks, claims and administration.
LEMMA FrozenStep ==
  ASSUME RegistryInv, [RegistryNext]_vars,
         registry_clock.pause_mode = "PauseRiskyMutations"
  PROVE  /\ UNCHANGED <<project_vars, contribution, release_receipt>>
         /\ RegistryNow' = RegistryNow
<1>1. UNCHANGED <<project_vars, contribution, release_receipt>>
  <2>1. CASE UNCHANGED vars
    BY <2>1 DEF vars, escrow_vars, vault_vars
  <2>2. CASE RegistryTick
    BY <2>2 DEF RegistryTick, Tick, vault_vars
  <2>3. ASSUME NEW p \in Projects, NEW c \in Contributors, PayRefund(p, c)
        PROVE  UNCHANGED <<project_vars, contribution, release_receipt>>
    BY <2>3 DEF PayRefund, ClaimRefund
  <2>4. CASE AdminStep
    BY <2>4 DEF AdminStep, SetAssetPolicy, SyncAssetPolicy, SetPauseMode, EscrowSetPauseMode,
                ProposeGovernor, EscrowProposeGovernor, AcceptGovernor, EscrowAcceptGovernor,
                vault_vars
  <2>5. QED
    BY <2>1, <2>2, <2>3, <2>4, NoProjectCall DEF RegistryNext
<1>2. RegistryNow' = RegistryNow
  <2>1. ClockStep /\ RegistryNow = EscrowNow /\ RegistryNow' = EscrowNow'
    BY StepGrounds
  <2>2. escrow_clock.pause_mode = "PauseRiskyMutations"
    BY DEF RegistryInv, AdminAgree
  <2>3. QED
    BY <2>1, <2>2 DEF ClockStep
<1>3. QED
  BY <1>1, <1>2

(***************************************************************************)
(* While risky mutations are paused no project, ballot, contribution or    *)
(* payment changes and effective time stands still, whoever calls what.    *)
(***************************************************************************)
THEOREM PauseFreezes == RegistrySpec => FrozenWhilePaused
<1>1. RegistryInv /\ [RegistryNext]_vars =>
        [registry_clock.pause_mode = "PauseRiskyMutations" =>
           /\ UNCHANGED <<project_vars, contribution, release_receipt>>
           /\ RegistryNow' = RegistryNow]_vars
  BY FrozenStep
<1>2. QED
  BY <1>1, RegistryInvariant, PTL DEF RegistrySpec, FrozenWhilePaused
=============================================================================
