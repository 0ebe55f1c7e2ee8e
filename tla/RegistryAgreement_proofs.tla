---------------------- MODULE RegistryAgreement_proofs ----------------------
(***************************************************************************)
(* What a step of the two contracts can do to a project, and what follows  *)
(* for every set of projects, wallets and assets: a project only moves     *)
(* forward, the contracts implement the agreement between those who give   *)
(* and the one who delivers, and the page of a project offers whatever can *)
(* be done about it.                                                       *)
(***************************************************************************)
EXTENDS ProjectPage, ImpactRegistryV1_proofs

Running == {"Active", "Disputed"}

SameAmounts(ms, mn) ==
  DOMAIN mn = DOMAIN ms /\ \A i \in DOMAIN ms : mn[i].amount = ms[i].amount

SameStages(ms, mn) ==
  \A i \in DOMAIN ms : mn[i].status = ms[i].status /\ mn[i].attempt = ms[i].attempt

\* Milestone n is one stage on from m, or starts another attempt.
Further(m, n) ==
  \/ n.attempt = m.attempt /\ StageRank(n.status) < StageRank(m.status)
  \/ n.attempt = m.attempt + 1

MoneyKept == UNCHANGED <<vault, contribution, refund_receipt>>

OthersKept(p) ==
  \A q \in Projects : q # p =>
    /\ project'[q] = project[q] /\ milestones'[q] = milestones[q]
    /\ vault'[q] = vault[q] /\ contribution'[q] = contribution[q]
    /\ refund_receipt'[q] = refund_receipt[q]

-----------------------------------------------------------------------------
(* The shapes of a step.  Each action of the registry has one of them.      *)

Stays(p) ==
  /\ project'[p].status = project[p].status
  /\ Current(p)' = Current(p)
  /\ SameAmounts(milestones[p], milestones'[p])

\* Nothing moves but ballots, seats or the text of a draft.
Waits(p) ==
  /\ MoneyKept /\ Stays(p) /\ SameStages(milestones[p], milestones'[p])

\* The registry alone decides on the current milestone.
Decides(p) ==
  /\ MoneyKept
  /\ project[p].status \in Running /\ project'[p].status \in Running
  /\ Current(p)' = Current(p)
  /\ SameAmounts(milestones[p], milestones'[p])
  /\ Further(milestones[p][Current(p)], milestones'[p][Current(p)])

\* The project ends with its refunds.
CallsOff(p) ==
  /\ EnableRefunds(p)
  /\ project[p].status \in {"Funding", "Funded"} \cup Running
  /\ project'[p].status \in {"Failed", "Cancelled"}
  /\ SameAmounts(milestones[p], milestones'[p])

\* A draft ends, and nobody has paid anything.
Abandons(p) ==
  /\ MoneyKept
  /\ project[p].status = "Draft" /\ project'[p].status = "Cancelled"
  /\ SameAmounts(milestones[p], milestones'[p])

\* Delivery starts.
Begins(p) ==
  /\ MoneyKept
  /\ project[p].status = "Funded" /\ project'[p].status = "Active"
  /\ EnoughContributors(project[p])
  /\ Current(p)' = Current(p)
  /\ SameAmounts(milestones[p], milestones'[p])

Gives(p) == \E c \in Contributors, amount \in AmountInputs : Contribute(p, c, amount)

Pays(p) == \E i \in DOMAIN milestones[p] : ReleaseApproved(p, i)

Shaped(p) ==
  \/ Waits(p) \/ Decides(p) \/ CallsOff(p) \/ Abandons(p) \/ Begins(p)
  \/ OpenFunding(p) \/ Gives(p) \/ Pays(p)

-----------------------------------------------------------------------------
(* Milestone records.                                                      *)

\* What happens to a milestone changes neither its amount nor its attempt.
LEMMA RecordsKeep ==
  ASSUME NEW m \in Milestone
  PROVE  /\ \A s : /\ Entered(m, s).amount = m.amount /\ Entered(m, s).attempt = m.attempt
                   /\ Entered(m, s).status = s
         /\ MarkRejected(m).amount = m.amount /\ MarkRejected(m).attempt = m.attempt
         /\ MarkRejected(m).status = "Rejected"
         /\ Started(m).amount = m.amount /\ Started(m).attempt = m.attempt
         /\ Started(m).status = m.status
         /\ \A t : LET n == [Entered(m, "UnderReview") EXCEPT !.review_deadline = t]
                   IN  n.amount = m.amount /\ n.attempt = m.attempt /\ n.status = "UnderReview"
         /\ \A t : LET n == [Entered(m, "Voting") EXCEPT !.voting_deadline = t]
                   IN  n.amount = m.amount /\ n.attempt = m.attempt /\ n.status = "Voting"
         /\ Disputed(m).amount = m.amount /\ Disputed(m).attempt = m.attempt
         /\ Disputed(m).status = "Disputed"
         /\ ResetForRework(m).amount = m.amount
         /\ ResetForRework(m).attempt = m.attempt + 1
<1>1. \A s : /\ Entered(m, s).amount = m.amount /\ Entered(m, s).attempt = m.attempt
             /\ Entered(m, s).status = s
  BY DEF Entered, Milestone
<1>2. /\ MarkRejected(m).amount = m.amount /\ MarkRejected(m).attempt = m.attempt
      /\ MarkRejected(m).status = "Rejected"
  BY DEF MarkRejected, Entered, Milestone
<1>3. /\ Started(m).amount = m.amount /\ Started(m).attempt = m.attempt
      /\ Started(m).status = m.status
  BY DEF Started, Milestone
<1>4. \A t : LET n == [Entered(m, "UnderReview") EXCEPT !.review_deadline = t]
             IN  n.amount = m.amount /\ n.attempt = m.attempt /\ n.status = "UnderReview"
  BY DEF Entered, Milestone
<1>5. \A t : LET n == [Entered(m, "Voting") EXCEPT !.voting_deadline = t]
             IN  n.amount = m.amount /\ n.attempt = m.attempt /\ n.status = "Voting"
  BY DEF Entered, Milestone
<1>6. /\ Disputed(m).amount = m.amount /\ Disputed(m).attempt = m.attempt
      /\ Disputed(m).status = "Disputed"
  BY DEF Disputed, Entered, Milestone
<1>7. /\ ResetForRework(m).amount = m.amount
      /\ ResetForRework(m).attempt = m.attempt + 1
  BY DEF ResetForRework, NewMilestone, Milestone
<1>8. QED
  BY <1>1, <1>2, <1>3, <1>4, <1>5, <1>6, <1>7

\* Neither does a ballot, nor does it move the milestone by itself.
LEMMA BallotsKeep ==
  ASSUME NEW m \in Milestone, NEW d, NEW weight \in Nat
  PROVE  /\ Attested(m, d).amount = m.amount /\ Attested(m, d).attempt = m.attempt
         /\ Attested(m, d).status = m.status
         /\ Weighed(m, d, weight).amount = m.amount /\ Weighed(m, d, weight).attempt = m.attempt
         /\ Weighed(m, d, weight).status = m.status
         /\ Judged(m, d).amount = m.amount /\ Judged(m, d).attempt = m.attempt
         /\ Judged(m, d).status = m.status
BY DEF Attested, Weighed, Judged, Milestone

\* The stages in their order.
LEMMA Ranks ==
  /\ StageRank("Pending") = 7 /\ StageRank("EvidenceSubmitted") = 6
  /\ StageRank("UnderReview") = 5 /\ StageRank("Verified") = 4
  /\ StageRank("Voting") = 3 /\ StageRank("Disputed") = 2
  /\ StageRank("Approved") = 1 /\ StageRank("Rejected") = 1
  /\ StageRank("Released") = 0
BY DEF StageRank

\* SetMilestone rewrites one milestone of one project.
LEMMA OneSet ==
  ASSUME RegistryInv, NEW p \in Projects, NEW i \in DOMAIN milestones[p], NEW n,
         SetMilestone(p, i, n)
  PROVE  /\ milestones'[p] = [milestones[p] EXCEPT ![i] = n]
         /\ milestones'[p][i] = n
         /\ DOMAIN milestones'[p] = DOMAIN milestones[p]
         /\ \A j \in DOMAIN milestones[p] : j # i => milestones'[p][j] = milestones[p][j]
         /\ \A q \in Projects : q # p => milestones'[q] = milestones[q]
         /\ n.amount = milestones[p][i].amount => SameAmounts(milestones[p], milestones'[p])
<1>1. milestones' = [milestones EXCEPT ![p][i] = n] /\ milestones \in [Projects -> MilestoneLists]
  BY DEF SetMilestone, RegistryInv, ProjectTypes
<1>2. /\ milestones'[p] = [milestones[p] EXCEPT ![i] = n]
      /\ \A q \in Projects : q # p => milestones'[q] = milestones[q]
  BY <1>1
<1>3. /\ milestones'[p][i] = n
      /\ DOMAIN milestones'[p] = DOMAIN milestones[p]
      /\ \A j \in DOMAIN milestones[p] : j # i => milestones'[p][j] = milestones[p][j]
  BY <1>2
<1>4. n.amount = milestones[p][i].amount => SameAmounts(milestones[p], milestones'[p])
  BY <1>3 DEF SameAmounts
<1>5. QED
  BY <1>2, <1>3, <1>4

-----------------------------------------------------------------------------
(* Each action has a shape.                                                 *)

\* set_status writes one field of one project.
LEMMA StatusSet ==
  ASSUME RegistryInv, NEW p \in Projects, project[p] # NoProject, NEW status, SetStatus(p, status)
  PROVE  /\ project'[p].status = status /\ Current(p)' = Current(p)
         /\ \A q \in Projects : q # p => project'[q] = project[q]
<1>1. project[p] \in Project /\ project \in [Projects -> Project \cup {NoProject}]
  BY OfProject DEF RegistryInv, ProjectTypes
<1>2. project' = [project EXCEPT ![p].status = status]
  BY DEF SetStatus
<1>3. project'[p].status = status /\ project'[p].current_milestone = project[p].current_milestone
  BY <1>1, <1>2 DEF Project
<1>4. QED
  BY <1>1, <1>2, <1>3 DEF Current

\* A step that leaves the escrow alone moves no money.
LEMMA EscrowAlone ==
  ASSUME NEW p \in Projects, UNCHANGED escrow_vars
  PROVE  /\ MoneyKept
         /\ \A q \in Projects : /\ vault'[q] = vault[q] /\ contribution'[q] = contribution[q]
                                /\ refund_receipt'[q] = refund_receipt[q]
BY DEF escrow_vars, vault_vars, MoneyKept

\* What a decision of the registry on its own needs to show.
LEMMA DecisionShape ==
  ASSUME RegistryInv, NEW p \in Projects, project[p] # NoProject,
         project[p].status \in Running, NEW i, i = Current(p), NEW n,
         SetMilestone(p, i, n), UNCHANGED escrow_vars,
         UNCHANGED project \/ SetStatus(p, "Active") \/ SetStatus(p, "Disputed"),
         n.amount = milestones[p][i].amount, Further(milestones[p][i], n)
  PROVE  Decides(p) /\ OthersKept(p)
<1>1. i \in DOMAIN milestones[p]
  BY OfCurrent DEF Running
<1>0. milestones'[p][i] = n
  BY <1>1 DEF SetMilestone, RegistryInv, ProjectTypes
<1>2. /\ SameAmounts(milestones[p], milestones'[p])
      /\ \A q \in Projects : q # p => milestones'[q] = milestones[q]
  BY <1>1, OneSet
<1>3. /\ project'[p].status \in Running /\ Current(p)' = Current(p)
      /\ \A q \in Projects : q # p => project'[q] = project[q]
  <2>1. CASE UNCHANGED project
    BY <2>1 DEF Current
  <2>2. CASE SetStatus(p, "Active")
    BY <2>2, StatusSet DEF Running
  <2>3. CASE SetStatus(p, "Disputed")
    BY <2>3, StatusSet DEF Running
  <2>4. QED
    BY <2>1, <2>2, <2>3
<1>4. QED
  BY <1>0, <1>2, <1>3, EscrowAlone DEF Decides, OthersKept

\* And one that leaves the milestone where it is.
LEMMA WaitShape ==
  ASSUME RegistryInv, NEW p \in Projects, project[p] # NoProject,
         project[p].status \in Running, NEW i, i = Current(p), NEW n,
         SetMilestone(p, i, n), UNCHANGED escrow_vars, UNCHANGED project,
         n.amount = milestones[p][i].amount, n.attempt = milestones[p][i].attempt,
         n.status = milestones[p][i].status
  PROVE  Waits(p) /\ OthersKept(p)
<1>1. i \in DOMAIN milestones[p]
  BY OfCurrent DEF Running
<1>0. milestones'[p][i] = n
  BY <1>1 DEF SetMilestone, RegistryInv, ProjectTypes
<1>2. /\ SameAmounts(milestones[p], milestones'[p])
      /\ \A j \in DOMAIN milestones[p] : j # i => milestones'[p][j] = milestones[p][j]
      /\ \A q \in Projects : q # p => milestones'[q] = milestones[q]
  BY <1>1, OneSet
<1>3. SameStages(milestones[p], milestones'[p])
  BY <1>0, <1>2 DEF SameStages
<1>4. QED
  BY <1>2, <1>3, EscrowAlone DEF Waits, Stays, OthersKept, Current

\* And one that leaves the milestones alone.
LEMMA QuietShape ==
  ASSUME NEW p \in Projects, UNCHANGED <<escrow_vars, milestones>>,
         project'[p].status = project[p].status, Current(p)' = Current(p),
         \A q \in Projects : q # p => project'[q] = project[q]
  PROVE  Waits(p) /\ OthersKept(p)
<1>1. SameAmounts(milestones[p], milestones'[p]) /\ SameStages(milestones[p], milestones'[p])
  BY DEF SameAmounts, SameStages
<1>2. QED
  BY <1>1, EscrowAlone DEF Waits, Stays, OthersKept

\* What calling a project off needs to show.
LEMMA CalledOffShape ==
  ASSUME RegistryInv, NEW p \in Projects, project[p] # NoProject,
         project[p].status \in {"Funding", "Funded"} \cup Running,
         NEW status \in {"Failed", "Cancelled"}, EnableRefunds(p), SetStatus(p, status),
         SameAmounts(milestones[p], milestones'[p]),
         \A q \in Projects : q # p => milestones'[q] = milestones[q]
  PROVE  CallsOff(p) /\ OthersKept(p)
<1>1. /\ project'[p].status = status
      /\ \A q \in Projects : q # p => project'[q] = project[q]
  BY StatusSet
<1>2. /\ \A q \in Projects : q # p => vault'[q] = vault[q]
      /\ UNCHANGED <<contribution, refund_receipt>>
  BY RefundsEnabled DEF EnableRefunds
<1>3. QED
  BY <1>1, <1>2 DEF CallsOff, OthersKept

\* A running project at its current milestone.
LEMMA AtCurrent ==
  ASSUME RegistryInv, NEW p \in Projects, NEW i \in DOMAIN milestones[p], ActiveAt(p, i),
         milestones[p][i].status \notin {"Pending", "Released"} \/ ActiveAtCurrent(p, i)
  PROVE  /\ project[p] # NoProject /\ project[p].status \in Running
         /\ project[p].status \in {"Active", "Disputed"}
         /\ i = Current(p) /\ milestones[p][i] \in Milestone
<1>1. project[p] # NoProject /\ project[p].status = "Active"
  BY DEF ActiveAt
<1>2. i = Current(p)
  BY <1>1, OnlyCurrent DEF ActiveAtCurrent
<1>3. QED
  BY <1>1, <1>2, OfCurrent DEF Running

\* submit_evidence, open_review, finalize_review, open_voting, finalize_vote
LEMMA StagesShape ==
  ASSUME RegistryInv, NEW p \in Projects, NEW i \in DOMAIN milestones[p],
         \/ \E attempt \in Attempts, hash \in Hashes : SubmitEvidence(p, i, attempt, hash)
         \/ OpenReview(p, i) \/ FinalizeReview(p, i)
         \/ OpenVoting(p, i) \/ FinalizeVote(p, i) \/ StartRework(p, i)
  PROVE  Decides(p) /\ OthersKept(p)
<1> DEFINE m == milestones[p][i]
<1>1. ASSUME NEW attempt, NEW hash, SubmitEvidence(p, i, attempt, hash)
      PROVE  Decides(p) /\ OthersKept(p)
  <2>1. /\ ActiveAt(p, i) /\ ActiveAtCurrent(p, i) /\ m.status = "Pending"
        /\ SetMilestone(p, i, Entered(m, "EvidenceSubmitted"))
        /\ UNCHANGED escrow_vars /\ UNCHANGED project
    BY <1>1 DEF SubmitEvidence, ActiveAtCurrent, DecisionOnly
  <2>2. Further(m, Entered(m, "EvidenceSubmitted"))
        /\ Entered(m, "EvidenceSubmitted").amount = m.amount
    BY <2>1, AtCurrent, RecordsKeep, Ranks DEF Further
  <2>3. QED
    BY <2>1, <2>2, AtCurrent, DecisionShape
<1>2. CASE OpenReview(p, i)
  <2> DEFINE n == [Entered(m, "UnderReview") EXCEPT
                     !.review_deadline = RegistryNow + Policy.review_window]
  <2>1. /\ ActiveAt(p, i) /\ ActiveAtCurrent(p, i) /\ m.status = "EvidenceSubmitted"
        /\ SetMilestone(p, i, n) /\ UNCHANGED escrow_vars /\ UNCHANGED project
    BY <1>2 DEF OpenReview, ActiveAtCurrent, DecisionOnly
  <2>2. n.amount = m.amount /\ n.attempt = m.attempt /\ n.status = "UnderReview"
    BY <2>1, AtCurrent, RecordsKeep
  <2> HIDE DEF n
  <2>3. Further(m, n)
    BY <2>1, <2>2, Ranks DEF Further
  <2>4. QED
    BY <2>1, <2>2, <2>3, AtCurrent, DecisionShape
<1>3. CASE FinalizeReview(p, i)
  <2>1. /\ ActiveAt(p, i) /\ m.status = "UnderReview"
        /\ SetMilestone(p, i, MarkRejected(m)) /\ UNCHANGED escrow_vars /\ UNCHANGED project
    BY <1>3 DEF FinalizeReview, DecisionOnly
  <2>2. Further(m, MarkRejected(m)) /\ MarkRejected(m).amount = m.amount
    BY <2>1, AtCurrent, RecordsKeep, Ranks DEF Further
  <2>3. QED
    BY <2>1, <2>2, AtCurrent, DecisionShape
<1>4. CASE OpenVoting(p, i)
  <2> DEFINE n == [Entered(m, "Voting") EXCEPT
                     !.voting_deadline = RegistryNow + Policy.voting_window]
  <2>1. /\ ActiveAt(p, i) /\ ActiveAtCurrent(p, i) /\ m.status = "Verified"
        /\ SetMilestone(p, i, n) /\ UNCHANGED escrow_vars /\ UNCHANGED project
    BY <1>4 DEF OpenVoting, ActiveAtCurrent, DecisionOnly
  <2>2. n.amount = m.amount /\ n.attempt = m.attempt /\ n.status = "Voting"
    BY <2>1, AtCurrent, RecordsKeep
  <2> HIDE DEF n
  <2>3. Further(m, n)
    BY <2>1, <2>2, Ranks DEF Further
  <2>4. QED
    BY <2>1, <2>2, <2>3, AtCurrent, DecisionShape
<1>5. CASE FinalizeVote(p, i)
  <2> DEFINE n == IF ApprovedByVote(project[p], m) THEN Entered(m, "Approved") ELSE MarkRejected(m)
  <2>1. /\ ActiveAt(p, i) /\ m.status = "Voting"
        /\ SetMilestone(p, i, n) /\ UNCHANGED escrow_vars /\ UNCHANGED project
    BY <1>5 DEF FinalizeVote, DecisionOnly
  <2>2. n.amount = m.amount /\ n.attempt = m.attempt /\ n.status \in {"Approved", "Rejected"}
    BY <2>1, AtCurrent, RecordsKeep
  <2> HIDE DEF n
  <2>3. Further(m, n)
    BY <2>1, <2>2, Ranks DEF Further
  <2>4. QED
    BY <2>1, <2>2, <2>3, AtCurrent, DecisionShape
<1>6. CASE StartRework(p, i)
  <2>1. /\ ActiveAt(p, i) /\ m.status = "Rejected"
        /\ SetMilestone(p, i, ResetForRework(m)) /\ UNCHANGED escrow_vars /\ UNCHANGED project
    BY <1>6 DEF StartRework, DecisionOnly
  <2>2. Further(m, ResetForRework(m)) /\ ResetForRework(m).amount = m.amount
    BY <2>1, AtCurrent, RecordsKeep DEF Further
  <2>3. QED
    BY <2>1, <2>2, AtCurrent, DecisionShape
<1>7. QED
  BY <1>1, <1>2, <1>3, <1>4, <1>5, <1>6

\* attest: the ballot, and the stage it may decide
LEMMA AttestShape ==
  ASSUME RegistryInv, NEW p \in Projects, NEW i \in DOMAIN milestones[p], NEW w, NEW attempt,
         NEW hash, NEW decision \in ReviewerDecisions, Attest(p, i, w, attempt, hash, decision)
  PROVE  (Waits(p) \/ Decides(p)) /\ OthersKept(p)
<1> DEFINE m == milestones[p][i]
           a == Attested(m, decision)
           n == AfterAttestation(a)
<1>1. /\ ActiveAt(p, i) /\ ActiveAtCurrent(p, i) /\ m.status = "UnderReview"
      /\ SetMilestone(p, i, n) /\ UNCHANGED escrow_vars /\ UNCHANGED project
  BY DEF Attest, ActiveAtCurrent, DecisionOnly
<1>2. m \in Milestone /\ a \in Milestone
  BY <1>1, AtCurrent, AttestedOK
<1>3. a.amount = m.amount /\ a.attempt = m.attempt /\ a.status = m.status
  <2>1. 0 \in Nat
    OBVIOUS
  <2>2. QED
    BY <1>2, <2>1, BallotsKeep
<1> HIDE DEF a
<1>4. \/ n = a
      \/ n.amount = a.amount /\ n.attempt = a.attempt /\ n.status \in {"Verified", "Rejected"}
  BY <1>2, RecordsKeep DEF AfterAttestation
<1> HIDE DEF n
<1>5. CASE n = a
  BY <1>1, <1>3, <1>5, AtCurrent, WaitShape
<1>6. CASE n.amount = a.amount /\ n.attempt = a.attempt /\ n.status \in {"Verified", "Rejected"}
  <2>1. Further(m, n)
    BY <1>1, <1>3, <1>6, Ranks DEF Further
  <2>2. QED
    BY <1>1, <1>3, <1>6, <2>1, AtCurrent, DecisionShape
<1>7. QED
  BY <1>4, <1>5, <1>6

\* vote: the ballot, and the dispute it may raise
LEMMA VoteShape ==
  ASSUME RegistryInv, NEW p \in Projects, NEW i \in DOMAIN milestones[p], NEW c \in Contributors,
         NEW attempt, NEW hash, NEW decision \in ContributorDecisions,
         Vote(p, i, c, attempt, hash, decision)
  PROVE  (Waits(p) \/ Decides(p)) /\ OthersKept(p)
<1> DEFINE m      == milestones[p][i]
           weight == VotingPower(project[p].goal, contribution[p][c])
           a      == Weighed(m, decision, weight)
<1>1. /\ ActiveAt(p, i) /\ ActiveAtCurrent(p, i) /\ m.status = "Voting"
      /\ UNCHANGED escrow_vars
      /\ \/ SetMilestone(p, i, Disputed(a)) /\ SetStatus(p, "Disputed")
         \/ SetMilestone(p, i, a) /\ UNCHANGED project
  BY DEF Vote, ActiveAtCurrent, DecisionOnly
<1>2. m \in Milestone /\ project[p] # NoProject
  BY <1>1, AtCurrent
<1>3. weight \in Nat
  <2>1. project[p].goal \in Nat /\ contribution[p][c] \in Nat
    BY <1>2, OfProject DEF Project
  <2>2. QED
    BY <2>1, VotingPowerNat
<1>4. a \in Milestone
  BY <1>2, <1>3, WeighedOK
<1> HIDE DEF weight
<1>5. a.amount = m.amount /\ a.attempt = m.attempt /\ a.status = m.status
  BY <1>2, <1>3, BallotsKeep
<1> HIDE DEF a
<1>6. CASE SetMilestone(p, i, a) /\ UNCHANGED project
  BY <1>1, <1>5, <1>6, AtCurrent, WaitShape
<1>7. CASE SetMilestone(p, i, Disputed(a)) /\ SetStatus(p, "Disputed")
  <2>1. /\ Disputed(a).amount = m.amount /\ Disputed(a).attempt = m.attempt
        /\ Disputed(a).status = "Disputed"
    BY <1>4, <1>5, RecordsKeep
  <2>2. Further(m, Disputed(a))
    BY <1>1, <2>1, Ranks DEF Further
  <2>3. QED
    BY <1>1, <1>7, <2>1, <2>2, AtCurrent, DecisionShape
<1>8. QED
  BY <1>1, <1>6, <1>7

\* A disputed project at its disputed milestone.
LEMMA AtDispute ==
  ASSUME RegistryInv, NEW p \in Projects, NEW i, DisputedAt(p, i)
  PROVE  /\ project[p] # NoProject /\ project[p].status \in Running
         /\ i = Current(p) /\ milestones[p][i] \in Milestone
         /\ i \in DOMAIN milestones[p] /\ milestones[p][i].status = "Disputed"
<1>1. /\ project[p] # NoProject /\ project[p].status = "Disputed"
      /\ i \in DOMAIN milestones[p] /\ milestones[p][i].status = "Disputed"
  BY DEF DisputedAt, HasStatus
<1>2. i = Current(p)
  BY <1>1, OnlyCurrent
<1>3. QED
  BY <1>1, <1>2, OfCurrent DEF Running

\* arbitrate
LEMMA ArbitrateShape ==
  ASSUME RegistryInv, NEW p \in Projects, NEW i \in DOMAIN milestones[p], NEW w, NEW attempt,
         NEW decision, Arbitrate(p, i, w, attempt, decision)
  PROVE  Waits(p) /\ OthersKept(p)
<1> DEFINE m == milestones[p][i]
           n == Judged(m, decision)
<1>1. /\ DisputedAt(p, i) /\ SetMilestone(p, i, n) /\ UNCHANGED escrow_vars /\ UNCHANGED project
  BY DEF Arbitrate, DecisionOnly
<1>2. n.amount = m.amount /\ n.attempt = m.attempt /\ n.status = m.status
  <2>1. 0 \in Nat
    OBVIOUS
  <2>2. QED
    BY <1>1, <2>1, AtDispute, BallotsKeep
<1> HIDE DEF n
<1>3. QED
  BY <1>1, <1>2, AtDispute, WaitShape

\* The milestone a failing project stops at keeps its amount.
LEMMA FailsShape ==
  ASSUME RegistryInv, NEW p \in Projects, project[p] # NoProject,
         project[p].status \in Running, NEW i \in DOMAIN milestones[p],
         NEW n, n.amount = milestones[p][i].amount, SetMilestone(p, i, n), FailProject(p)
  PROVE  CallsOff(p) /\ OthersKept(p)
<1>1. SameAmounts(milestones[p], milestones'[p])
      /\ \A q \in Projects : q # p => milestones'[q] = milestones[q]
  BY OneSet
<1>2. "Failed" \in {"Failed", "Cancelled"}
  OBVIOUS
<1>3. EnableRefunds(p) /\ SetStatus(p, "Failed")
  BY DEF FailProject
<1>4. QED
  BY <1>1, <1>2, <1>3, CalledOffShape

\* finalize_dispute
LEMMA FinalizeDisputeShape ==
  ASSUME RegistryInv, NEW p \in Projects, NEW i, FinalizeDispute(p, i)
  PROVE  (Decides(p) \/ CallsOff(p)) /\ OthersKept(p)
<1> DEFINE m == milestones[p][i]
<1>1. DisputedAt(p, i)
  BY DEF FinalizeDispute
<1>2. /\ project[p] # NoProject /\ project[p].status \in Running
      /\ i = Current(p) /\ m \in Milestone /\ i \in DOMAIN milestones[p]
      /\ m.status = "Disputed"
  BY <1>1, AtDispute
<1>3. CASE SetMilestone(p, i, Entered(m, "Approved")) /\ SetStatus(p, "Active")
           /\ UNCHANGED escrow_vars
  <2> DEFINE n == Entered(m, "Approved")
  <2>1. n.amount = m.amount /\ Further(m, n)
    BY <1>2, RecordsKeep, Ranks DEF Further
  <2> HIDE DEF n
  <2>2. SetMilestone(p, i, n)
    BY <1>3 DEF n
  <2>3. QED
    BY <1>2, <1>3, <2>1, <2>2, DecisionShape
<1>4. CASE SetMilestone(p, i, ResetForRework(m)) /\ SetStatus(p, "Active")
           /\ UNCHANGED escrow_vars
  <2> DEFINE n == ResetForRework(m)
  <2>1. n.amount = m.amount /\ Further(m, n)
    BY <1>2, RecordsKeep DEF Further
  <2> HIDE DEF n
  <2>2. SetMilestone(p, i, n)
    BY <1>4 DEF n
  <2>3. QED
    BY <1>2, <1>4, <2>1, <2>2, DecisionShape
<1>5. CASE SetMilestone(p, i, Entered(m, "Rejected")) /\ FailProject(p)
  <2> DEFINE n == Entered(m, "Rejected")
  <2>1. n.amount = m.amount
    BY <1>2, RecordsKeep
  <2> HIDE DEF n
  <2>2. SetMilestone(p, i, n)
    BY <1>5 DEF n
  <2>3. QED
    BY <1>2, <1>5, <2>1, <2>2, FailsShape
<1>6. QED
  BY <1>3, <1>4, <1>5 DEF FinalizeDispute

\* A project that fails with its milestones as they are.
LEMMA EndsShape ==
  ASSUME RegistryInv, NEW p \in Projects, project[p] # NoProject,
         project[p].status \in {"Funding", "Funded"} \cup Running,
         NEW status \in {"Failed", "Cancelled"}, EnableRefunds(p), SetStatus(p, status),
         UNCHANGED milestones
  PROVE  CallsOff(p) /\ OthersKept(p)
<1>1. SameAmounts(milestones[p], milestones'[p])
  BY DEF SameAmounts
<1>2. QED
  BY <1>1, CalledOffShape

\* finalize_funding
LEMMA FinalizeFundingShape ==
  ASSUME RegistryInv, NEW p \in Projects, FinalizeFunding(p)
  PROVE  CallsOff(p) /\ OthersKept(p)
<1>1. project[p] # NoProject /\ project[p].status = "Funding"
  BY DEF FinalizeFunding, HasStatus
<1>2. vault[p].deposited # project[p].goal
  BY <1>1, FundingIsShort
<1>3. EnableRefunds(p) /\ SetStatus(p, "Failed") /\ UNCHANGED milestones
  BY <1>2 DEF FinalizeFunding
<1>4. "Failed" \in {"Failed", "Cancelled"} /\ project[p].status \in {"Funding", "Funded"} \cup Running
  BY <1>1
<1>5. QED
  BY <1>1, <1>3, <1>4, EndsShape

\* activate_project
LEMMA ActivateProjectShape ==
  ASSUME RegistryInv, NEW p \in Projects, ActivateProject(p)
  PROVE  (Begins(p) \/ CallsOff(p)) /\ OthersKept(p)
<1>1. project[p] # NoProject /\ project[p].status = "Funded"
  BY DEF ActivateProject, HasStatus
<1>2. CASE EnableRefunds(p) /\ SetStatus(p, "Cancelled") /\ UNCHANGED milestones
  <2>1. "Cancelled" \in {"Failed", "Cancelled"}
        /\ project[p].status \in {"Funding", "Funded"} \cup Running
    BY <1>1
  <2>2. QED
    BY <1>1, <1>2, <2>1, EndsShape
<1>3. CASE /\ EnoughContributors(project[p]) /\ SetStatus(p, "Active")
           /\ SetMilestone(p, 0, Started(milestones[p][0])) /\ UNCHANGED escrow_vars
  <2>1. /\ milestones[p] \in MilestoneLists /\ milestones[p] # <<>>
        /\ project[p].status \in BeforeDelivery /\ Staged(project[p], milestones[p])
    BY <1>1, OfProject DEF BeforeDelivery
  <2>2. 0 \in DOMAIN milestones[p]
    BY <2>1 DEF Staged
  <2>3. milestones[p][0] \in Milestone
    BY <1>1, <2>2, OfProject
  <2> DEFINE n == Started(milestones[p][0])
  <2>4. n.amount = milestones[p][0].amount
    BY <2>3, RecordsKeep
  <2> HIDE DEF n
  <2>5. SetMilestone(p, 0, n)
    BY <1>3 DEF n
  <2>6. SameAmounts(milestones[p], milestones'[p])
        /\ \A q \in Projects : q # p => milestones'[q] = milestones[q]
    BY <2>2, <2>4, <2>5, OneSet
  <2>7. QED
    BY <1>1, <1>3, <2>6, StatusSet, EscrowAlone DEF Begins, OthersKept
<1>4. QED
  BY <1>2, <1>3 DEF ActivateProject

\* apply_timeout
LEMMA ApplyTimeoutShape ==
  ASSUME RegistryInv, NEW p \in Projects, ApplyTimeout(p)
  PROVE  (Decides(p) \/ Begins(p) \/ CallsOff(p)) /\ OthersKept(p)
<1>1. CASE FinalizeFunding(p)
  BY <1>1, FinalizeFundingShape
<1>2. CASE ActivateProject(p)
  BY <1>2, ActivateProjectShape
<1>3. CASE FinalizeDispute(p, Current(p))
  BY <1>3, FinalizeDisputeShape
<1>4. CASE HasStatus(p, "Active") /\ ApplyTimeoutToCurrent(p, Current(p))
  <2> DEFINE i == Current(p)
             m == milestones[p][i]
  <2>1. project[p] # NoProject /\ project[p].status \in Running
        /\ i \in DOMAIN milestones[p] /\ m \in Milestone
    BY <1>4, OfCurrent DEF HasStatus, Running
  <2>2. CASE m.status = "Pending" /\ RejectForTimeout(p, i)
    <3> DEFINE n == MarkRejected(m)
    <3>1. n.amount = m.amount /\ Further(m, n)
      BY <2>1, <2>2, RecordsKeep, Ranks DEF Further
    <3> HIDE DEF n
    <3>2. SetMilestone(p, i, n) /\ (UNCHANGED <<escrow_vars, project>> \/ FailProject(p))
      BY <2>2 DEF RejectForTimeout, n
    <3>3. CASE UNCHANGED <<escrow_vars, project>>
      BY <2>1, <3>1, <3>2, <3>3, DecisionShape
    <3>4. CASE FailProject(p)
      BY <2>1, <3>1, <3>2, <3>4, FailsShape
    <3>5. QED
      BY <3>2, <3>3, <3>4
  <2>3. CASE OpenReview(p, i) \/ FinalizeReview(p, i) \/ OpenVoting(p, i) \/ FinalizeVote(p, i)
    BY <2>1, <2>3, StagesShape
  <2>4. CASE FailProject(p) /\ UNCHANGED milestones
    <3>1. "Failed" \in {"Failed", "Cancelled"} /\ EnableRefunds(p) /\ SetStatus(p, "Failed")
      BY <2>4 DEF FailProject
    <3>2. QED
      BY <2>1, <2>4, <3>1, EndsShape
  <2>5. QED
    BY <1>4, <2>2, <2>3, <2>4 DEF ApplyTimeoutToCurrent
<1>5. QED
  BY <1>1, <1>2, <1>3, <1>4 DEF ApplyTimeout

\* update_draft, accept_reviewer and accept_arbitrator
LEMMA DraftShape ==
  ASSUME RegistryInv, NEW p \in Projects,
         \/ \E metadata \in MetadataInputs : UpdateDraft(p, metadata)
         \/ \E role \in {"reviewers", "arbitrators"}, w \in Wallets : AcceptRole(p, role, w)
  PROVE  Waits(p) /\ OthersKept(p)
<1>1. ASSUME NEW metadata, UpdateDraft(p, metadata)
      PROVE  Waits(p) /\ OthersKept(p)
  <2>1. /\ project[p] # NoProject /\ UNCHANGED <<escrow_vars, milestones>>
        /\ project' = [project EXCEPT ![p].metadata = metadata]
    BY <1>1 DEF UpdateDraft, HasStatus
  <2>2. project[p] \in Project /\ project \in [Projects -> Project \cup {NoProject}]
    BY <2>1, OfProject DEF RegistryInv, ProjectTypes
  <2>3. /\ project'[p].status = project[p].status
        /\ project'[p].current_milestone = project[p].current_milestone
        /\ \A q \in Projects : q # p => project'[q] = project[q]
    BY <2>1, <2>2 DEF Project
  <2>4. QED
    BY <2>1, <2>3, QuietShape DEF Current
<1>2. ASSUME NEW role, NEW w, AcceptRole(p, role, w)
      PROVE  Waits(p) /\ OthersKept(p)
  <2>1. UNCHANGED <<escrow_vars, milestones>> /\ UNCHANGED project
    BY <1>2 DEF AcceptRole
  <2>2. Current(p)' = Current(p)
    BY <2>1 DEF Current
  <2>3. QED
    BY <2>1, <2>2, QuietShape
<1>3. QED
  BY <1>1, <1>2

\* cancel_project
LEMMA CancelProjectShape ==
  ASSUME RegistryInv, NEW p \in Projects, CancelProject(p)
  PROVE  (Abandons(p) \/ CallsOff(p)) /\ OthersKept(p)
<1>1. SetStatus(p, "Cancelled") /\ UNCHANGED milestones /\ project[p] # NoProject
  BY DEF CancelProject, HasStatus
<1>2. CASE HasStatus(p, "Draft") /\ UNCHANGED escrow_vars
  <2>1. SameAmounts(milestones[p], milestones'[p])
    BY <1>1 DEF SameAmounts
  <2>2. QED
    BY <1>1, <1>2, <2>1, StatusSet, EscrowAlone DEF Abandons, OthersKept, HasStatus
<1>3. CASE HasStatus(p, "Funding") /\ EnableRefunds(p)
  <2>1. "Cancelled" \in {"Failed", "Cancelled"}
        /\ project[p].status \in {"Funding", "Funded"} \cup Running
    BY <1>3 DEF HasStatus
  <2>2. QED
    BY <1>1, <1>3, <2>1, EndsShape
<1>4. QED
  BY <1>2, <1>3 DEF CancelProject

\* open_funding leaves the other projects alone,
LEMMA OpenFundingElsewhere ==
  ASSUME RegistryInv, NEW p \in Projects, OpenFunding(p)
  PROVE  OthersKept(p)
<1>1. /\ project[p] # NoProject /\ SetStatus(p, "Funding") /\ UNCHANGED milestones
      /\ UNCHANGED <<contribution, refund_receipt>>
  BY DEF OpenFunding, HasStatus, OpenVault
<1>2. \A q \in Projects : q # p => vault'[q] = vault[q]
  <2>1. vault \in [Projects -> Vault \cup {NoVault}]
    BY DEF RegistryInv, Books, EscrowInv, EscrowTypeOK
  <2>2. QED
    BY <2>1 DEF OpenFunding, OpenVault
<1>3. QED
  BY <1>1, <1>2, StatusSet DEF OthersKept

\* and so do contribute
LEMMA ContributeElsewhere ==
  ASSUME RegistryInv, NEW p \in Projects, NEW c \in Contributors, NEW amount,
         Contribute(p, c, amount)
  PROVE  OthersKept(p)
<1>1. /\ UNCHANGED milestones
      /\ Deposit(p, c, amount) \/ DepositThenLock(p, c, amount)
      /\ \E new : project' = [project EXCEPT ![p] = new]
  BY DEF Contribute
<1>2. PICK w : DepositInto(p, c, amount, w)
  BY <1>1 DEF Deposit, DepositThenLock
<1>3. /\ vault \in [Projects -> Vault \cup {NoVault}]
      /\ contribution \in [Projects -> [Contributors -> Nat]]
  BY DEF RegistryInv, Books, EscrowInv, EscrowTypeOK
<1>4. \A q \in Projects : q # p => /\ vault'[q] = vault[q] /\ contribution'[q] = contribution[q]
                                   /\ refund_receipt'[q] = refund_receipt[q]
  BY <1>2, <1>3 DEF DepositInto
<1>5. \A q \in Projects : q # p => project'[q] = project[q] /\ milestones'[q] = milestones[q]
  BY <1>1 DEF RegistryInv, ProjectTypes
<1>6. QED
  BY <1>4, <1>5 DEF OthersKept

\* and release_milestone.
LEMMA ReleaseElsewhere ==
  ASSUME RegistryInv, NEW p \in Projects, NEW i, ReleaseApproved(p, i)
  PROVE  OthersKept(p)
<1>1. /\ ReleaseMilestone(p, i, milestones[p][i].amount)
      /\ \E new : milestones' = [milestones EXCEPT ![p] = new]
      /\ \/ project' = [project EXCEPT ![p].status = "Completed"]
         \/ project' = [project EXCEPT ![p].current_milestone = i + 1]
  BY DEF ReleaseApproved, SetStatus
<1>2. vault \in [Projects -> Vault \cup {NoVault}]
  BY DEF RegistryInv, Books, EscrowInv, EscrowTypeOK
<1>3. \A q \in Projects : q # p => /\ vault'[q] = vault[q] /\ contribution'[q] = contribution[q]
                                   /\ refund_receipt'[q] = refund_receipt[q]
  BY <1>1, <1>2 DEF ReleaseMilestone
<1>4. \A q \in Projects : q # p => project'[q] = project[q] /\ milestones'[q] = milestones[q]
  BY <1>1 DEF RegistryInv, ProjectTypes
<1>5. QED
  BY <1>3, <1>4 DEF OthersKept

\* A call about a project that does not exist fails.
LEMMA CallsExist ==
  ASSUME RegistryInv, NEW p \in Projects, ActorStep(p) \/ PermissionlessStep(p)
  PROVE  project[p] # NoProject
<1>1. ASSUME project[p] = NoProject PROVE FALSE
  <2>1. DOMAIN milestones[p] = {}
    BY <1>1 DEF RegistryInv, ProjectOK
  <2>2. \A s : ~HasStatus(p, s)
    BY <1>1 DEF HasStatus
  <2>3. ~ActorStep(p)
    BY <2>1, <2>2 DEF ActorStep, UpdateDraft, AcceptRole, OpenFunding, CancelProject, Contribute
  <2>4. ~PermissionlessStep(p)
    <3>1. ~FinalizeFunding(p) /\ ~ActivateProject(p) /\ ~ApplyTimeout(p)
      BY <2>2 DEF ApplyTimeout, FinalizeFunding, ActivateProject
    <3>2. QED
      BY <2>1, <3>1 DEF PermissionlessStep
  <2>5. QED
    BY <2>3, <2>4
<1>2. QED
  BY <1>1

\* Every call about a project has a shape, and touches no other project.
LEMMA EveryCallIsShaped ==
  ASSUME RegistryInv, NEW p \in Projects, ActorStep(p) \/ PermissionlessStep(p)
  PROVE  Shaped(p) /\ OthersKept(p)
<1>1. CASE \/ \E metadata \in MetadataInputs : UpdateDraft(p, metadata)
           \/ \E role \in {"reviewers", "arbitrators"}, w \in Wallets : AcceptRole(p, role, w)
  BY <1>1, DraftShape DEF Shaped
<1>2. CASE OpenFunding(p)
  BY <1>2, OpenFundingElsewhere DEF Shaped
<1>3. CASE CancelProject(p)
  BY <1>3, CancelProjectShape DEF Shaped
<1>4. CASE \E c \in Contributors, amount \in AmountInputs : Contribute(p, c, amount)
  BY <1>4, ContributeElsewhere DEF Shaped, Gives
<1>5. ASSUME NEW i \in DOMAIN milestones[p],
             \/ \E attempt \in Attempts, hash \in Hashes : SubmitEvidence(p, i, attempt, hash)
             \/ OpenReview(p, i) \/ FinalizeReview(p, i)
             \/ OpenVoting(p, i) \/ FinalizeVote(p, i) \/ StartRework(p, i)
      PROVE  Shaped(p) /\ OthersKept(p)
  BY <1>5, StagesShape DEF Shaped
<1>6. ASSUME NEW i \in DOMAIN milestones[p], NEW attempt, NEW hash, NEW w,
             NEW decision \in ReviewerDecisions, Attest(p, i, w, attempt, hash, decision)
      PROVE  Shaped(p) /\ OthersKept(p)
  BY <1>6, AttestShape DEF Shaped
<1>7. ASSUME NEW i \in DOMAIN milestones[p], NEW attempt, NEW hash, NEW c \in Contributors,
             NEW decision \in ContributorDecisions, Vote(p, i, c, attempt, hash, decision)
      PROVE  Shaped(p) /\ OthersKept(p)
  BY <1>7, VoteShape DEF Shaped
<1>8. ASSUME NEW i \in DOMAIN milestones[p], NEW attempt, NEW w, NEW decision,
             Arbitrate(p, i, w, attempt, decision)
      PROVE  Shaped(p) /\ OthersKept(p)
  BY <1>8, ArbitrateShape DEF Shaped
<1>9. CASE FinalizeFunding(p)
  BY <1>9, FinalizeFundingShape DEF Shaped
<1>10. CASE ActivateProject(p)
  BY <1>10, ActivateProjectShape DEF Shaped
<1>11. CASE ApplyTimeout(p)
  BY <1>11, ApplyTimeoutShape DEF Shaped
<1>12. ASSUME NEW i \in DOMAIN milestones[p], FinalizeDispute(p, i)
       PROVE  Shaped(p) /\ OthersKept(p)
  BY <1>12, FinalizeDisputeShape DEF Shaped
<1>13. ASSUME NEW i \in DOMAIN milestones[p], ReleaseApproved(p, i)
       PROVE  Shaped(p) /\ OthersKept(p)
  BY <1>13, ReleaseElsewhere DEF Shaped, Pays
<1>14. CASE ActorStep(p)
  BY ONLY <1>14, <1>1, <1>2, <1>3, <1>4, <1>5, <1>6, <1>7, <1>8 DEF ActorStep
<1>15. CASE PermissionlessStep(p)
  BY ONLY <1>15, <1>5, <1>9, <1>10, <1>11, <1>12, <1>13 DEF PermissionlessStep
<1>16. QED
  BY <1>14, <1>15

-----------------------------------------------------------------------------
(* A project only moves forward.                                            *)

\* MovesLeft, of the values it depends on.
MovesFor(s, current, n, attempt, rank) ==
  LET left     == n - current
      delivery == n * Policy.max_attempts * 8
  IN
  CASE s \in {"Completed", "Failed", "Cancelled"} -> 0
    [] s \in {"Active", "Disputed"} ->
         ((left - 1) * Policy.max_attempts + (Policy.max_attempts - attempt)) * 8 + rank
    [] s = "Funded"  -> delivery + 1
    [] s = "Funding" -> delivery + 2
    [] s = "Draft"   -> delivery + 3

MovesOf(pr, ms) ==
  MovesFor(pr.status, pr.current_milestone, Cardinality(DOMAIN ms),
        ms[pr.current_milestone].attempt, StageRank(ms[pr.current_milestone].status))

\* The moves left, by status, milestone and attempt.
LEMMA MovesLeftIs ==
  ASSUME NEW p
  PROVE  /\ MovesLeft(p) = MovesOf(project[p], milestones[p])
         /\ MovesLeft(p)' = MovesOf(project'[p], milestones'[p])
<1>1. MovesLeft(p) = MovesOf(project[p], milestones[p])
  BY DEF MovesLeft, MovesOf, MovesFor, Settled, Current
<1>2. MovesLeft(p)' = MovesOf(project'[p], milestones'[p])
  BY DEF MovesLeft, MovesOf, MovesFor, Settled, Current
<1>3. QED
  BY <1>1, <1>2

\* The attempts at later milestones, and what they and the stage are worth.
AttemptsLater(current, n) == (n - current - 1) * Policy.max_attempts

MovesWhileRunning(current, n, attempt, rank) ==
  (AttemptsLater(current, n) + (Policy.max_attempts - attempt)) * 8 + rank

\* An attempt at milestone current of n.
Underway(current, n, attempt, rank) ==
  /\ current \in Nat /\ n \in Nat /\ current < n
  /\ attempt \in Attempts /\ rank \in 0..7

\* A running project has its stage and its later milestones and attempts left.
LEMMA RunningMoves ==
  ASSUME NEW s, NEW current, NEW n, NEW attempt, NEW rank,
         s \in Running, Underway(current, n, attempt, rank)
  PROVE  /\ AttemptsLater(current, n) \in Nat
         /\ MovesFor(s, current, n, attempt, rank) = MovesWhileRunning(current, n, attempt, rank)
         /\ MovesWhileRunning(current, n, attempt, rank) \in Nat
<1>0. current \in Nat /\ n \in Nat /\ current < n /\ attempt \in Attempts /\ rank \in 0..7
  BY DEF Underway
<1>1. Policy.max_attempts \in Nat \ {0} /\ attempt \in 1..Policy.max_attempts
  BY <1>0, PolicyNumbers DEF Attempts
<1>2. (n - current) - 1 = n - current - 1 /\ n - current - 1 \in Nat
  BY <1>0
<1>3. (n - current - 1) * Policy.max_attempts \in Nat
  BY <1>1, <1>2
<1>4. MovesFor(s, current, n, attempt, rank) =
        ((n - current - 1) * Policy.max_attempts + (Policy.max_attempts - attempt)) * 8 + rank
  BY <1>2 DEF MovesFor, Running
<1>5. ((n - current - 1) * Policy.max_attempts + (Policy.max_attempts - attempt)) * 8 + rank \in Nat
  BY <1>0, <1>1, <1>3
<1>6. QED
  BY <1>3, <1>4, <1>5 DEF MovesWhileRunning, AttemptsLater

\* One that does not run yet has all of them left, and more.
LEMMA EarlyMoves ==
  ASSUME NEW current, NEW n \in Nat, NEW attempt, NEW rank
  PROVE  /\ n * Policy.max_attempts \in Nat
         /\ MovesFor("Funded", current, n, attempt, rank) = n * Policy.max_attempts * 8 + 1
         /\ MovesFor("Funding", current, n, attempt, rank) = n * Policy.max_attempts * 8 + 2
         /\ MovesFor("Draft", current, n, attempt, rank) = n * Policy.max_attempts * 8 + 3
         /\ \A s \in {"Completed", "Failed", "Cancelled"} : MovesFor(s, current, n, attempt, rank) = 0
<1>1. n * Policy.max_attempts \in Nat
  BY PolicyNumbers
<1>2. QED
  BY <1>1 DEF MovesFor

\* The numbers MovesLeft is made of.
LEMMA StageNumbers ==
  ASSUME NEW pr \in Project, NEW ms \in MilestoneLists, ms # <<>>, Staged(pr, ms)
  PROVE  LET n == Cardinality(DOMAIN ms)
             m == ms[pr.current_milestone]
         IN  /\ n \in Nat /\ pr.current_milestone \in Nat /\ pr.current_milestone < n
             /\ m \in Milestone /\ m.attempt \in Attempts /\ StageRank(m.status) \in 0..7
             /\ pr.status \in Running => StageRank(m.status) > 0
<1> DEFINE n == Cardinality(DOMAIN ms)
           m == ms[pr.current_milestone]
<1>1. /\ n \in 2..5 /\ DOMAIN ms = 0..(n - 1)
      /\ \A i \in DOMAIN ms : i \in 0..4 /\ ms[i] \in Milestone
  BY ListIndices
<1>2. pr.current_milestone \in DOMAIN ms
      /\ \A i \in DOMAIN ms : ms[i].status = "Released" <=> i < PaidCount(pr)
  BY DEF Staged
<1>3. m \in Milestone /\ pr.current_milestone \in 0..(n - 1)
  BY <1>1, <1>2
<1> HIDE DEF n
<1>4. n \in Nat /\ pr.current_milestone \in Nat /\ pr.current_milestone < n
  BY <1>1, <1>3
<1>5. m.attempt \in Attempts /\ m.status \in MilestoneStatus
  BY <1>3 DEF Milestone
<1> HIDE DEF m
<1>6. StageRank(m.status) \in 0..7 /\ (m.status # "Released" => StageRank(m.status) > 0)
  BY <1>5, Ranks DEF MilestoneStatus
<1>7. ASSUME pr.status \in Running PROVE m.status # "Released"
  <2>1. PaidCount(pr) = pr.current_milestone
    BY <1>7 DEF PaidCount, Running
  <2>2. ~(pr.current_milestone < PaidCount(pr))
    BY <1>4, <2>1
  <2>3. QED
    BY <1>2, <2>2 DEF m
<1>8. QED
  BY <1>3, <1>4, <1>5, <1>6, <1>7 DEF n, m

\* They are numbers before and after a step.
LEMMA NumbersKept ==
  ASSUME RegistryInv, RegistryInv', NEW p \in Projects, project[p] # NoProject,
         project'[p] # NoProject
  PROVE  /\ project[p] \in Project /\ milestones[p] \in MilestoneLists
         /\ milestones[p] # <<>> /\ Staged(project[p], milestones[p])
         /\ project'[p] \in Project /\ milestones'[p] \in MilestoneLists
         /\ milestones'[p] # <<>> /\ Staged(project'[p], milestones'[p])
<1>1. /\ project[p] \in Project /\ milestones[p] \in MilestoneLists
      /\ milestones[p] # <<>> /\ Staged(project[p], milestones[p])
  BY OfProject
<1>2. project'[p] \in Project /\ milestones'[p] \in MilestoneLists
  BY DEF RegistryInv, ProjectTypes
<1>3. ProjectOK(p)'
  BY DEF RegistryInv
<1>4. milestones'[p] # <<>> /\ Staged(project'[p], milestones'[p])
  BY <1>3 DEF ProjectOK, Staged, PaidCount, Untouched, Uncounted
<1>5. QED
  BY <1>1, <1>2, <1>4

\* The clause of OnlyForward for one project.
Forward(p) ==
  /\ MovesLeft(p)' <= MovesLeft(p)
  /\ MovesLeft(p)' = MovesLeft(p) =>
       /\ project'[p].status = project[p].status
       /\ Current(p)' = Current(p)
       /\ SameStages(milestones[p], milestones'[p])

\* A step that uses up moves.
LEMMA UsesMoves ==
  ASSUME NEW p, NEW a \in Int, NEW b \in Int, MovesLeft(p) = a, MovesLeft(p)' = b, b < a
  PROVE  Forward(p)
BY DEF Forward

\* A step that moves nothing uses no move.
LEMMA WaitsForward ==
  ASSUME RegistryInv, RegistryInv', NEW p \in Projects, project[p] # NoProject,
         project'[p] # NoProject,
         Stays(p), SameStages(milestones[p], milestones'[p])
  PROVE  Forward(p)
<1> DEFINE ms == milestones[p]
           mn == milestones'[p]
           k  == project[p].current_milestone
<1>1. k \in DOMAIN ms /\ DOMAIN mn = DOMAIN ms
      /\ project'[p].status = project[p].status /\ project'[p].current_milestone = k
  BY OfProject DEF Stays, SameAmounts, Current
<1>2. mn[k].status = ms[k].status /\ mn[k].attempt = ms[k].attempt
  BY <1>1 DEF SameStages
<1>3. MovesLeft(p)' = MovesLeft(p)
  BY <1>1, <1>2, MovesLeftIs DEF MovesOf
<1>4. MovesLeft(p) \in Nat
  <2>1. /\ project[p] \in Project /\ Cardinality(DOMAIN ms) \in Nat /\ k \in Nat
        /\ k < Cardinality(DOMAIN ms)
        /\ ms[k].attempt \in Attempts /\ StageRank(ms[k].status) \in 0..7
    BY NumbersKept, StageNumbers
  <2> DEFINE n == Cardinality(DOMAIN ms)
             a == ms[k].attempt
             r == StageRank(ms[k].status)
             s == project[p].status
  <2>2. s \in ProjectStatus
    BY <2>1 DEF Project
  <2>3. n * Policy.max_attempts \in Nat
    BY <2>1, EarlyMoves
  <2> HIDE DEF n, a, r, s
  <2>4. MovesFor(s, k, n, a, r) \in Nat
    <3>0. n \in Nat /\ k \in Nat /\ k < n /\ a \in Attempts /\ r \in 0..7
      BY <2>1 DEF n, a, r
    <3>1. CASE s \in Running
      <4>1. Underway(k, n, a, r)
        BY <3>0 DEF Underway
      <4>2. MovesFor(s, k, n, a, r) = MovesWhileRunning(k, n, a, r)
            /\ MovesWhileRunning(k, n, a, r) \in Nat
        BY <3>1, <4>1, RunningMoves
      <4>3. QED
        BY <4>2
    <3>2. CASE s \in {"Completed", "Failed", "Cancelled"}
      BY <3>0, <3>2, EarlyMoves
    <3>3. CASE s \in {"Funded", "Funding", "Draft"}
      <4>1. n * Policy.max_attempts * 8 + 1 \in Nat /\ n * Policy.max_attempts * 8 + 2 \in Nat
            /\ n * Policy.max_attempts * 8 + 3 \in Nat
        BY <2>3
      <4>2. QED
        BY <3>0, <3>3, <4>1, EarlyMoves
    <3>4. QED
      BY <2>2, <3>1, <3>2, <3>3 DEF ProjectStatus, Running
  <2>5. QED
    BY <2>4, MovesLeftIs DEF MovesOf, n, a, r, s
<1>5. QED
  BY <1>1, <1>3, <1>4 DEF Forward, Current

\* More attempts or earlier stages are worth more moves.
LEMMA FewerMoves ==
  ASSUME NEW left \in Nat, NEW a \in Nat, NEW b \in Nat, NEW r \in 0..7, NEW t \in 0..7,
         \/ b = a /\ t < r
         \/ b = a + 1
  PROVE  \A d \in Nat : (left + (d - b)) * 8 + t < (left + (d - a)) * 8 + r
OBVIOUS

\* A decision on the current milestone uses up a move.
LEMMA DecidesForward ==
  ASSUME RegistryInv, RegistryInv', NEW p \in Projects, project[p] # NoProject,
         project'[p] # NoProject, Decides(p)
  PROVE  Forward(p)
<1> DEFINE n  == Cardinality(DOMAIN milestones[p])
           k  == project[p].current_milestone
           m  == milestones[p][k]
           m2 == milestones'[p][k]
           s  == project[p].status
           s2 == project'[p].status
           a  == m.attempt
           b  == m2.attempt
           r  == StageRank(m.status)
           t  == StageRank(m2.status)
<1>1. /\ s \in Running /\ s2 \in Running
      /\ project'[p].current_milestone = k
      /\ DOMAIN milestones'[p] = DOMAIN milestones[p]
      /\ Further(m, m2)
  BY DEF Decides, SameAmounts, Current
<1>2. /\ n \in Nat /\ k \in Nat /\ k < n /\ a \in Attempts /\ r \in 0..7
  BY NumbersKept, StageNumbers
<1>3. b \in Attempts /\ t \in 0..7
  BY <1>1, NumbersKept, StageNumbers
<1>4. MovesLeft(p) = MovesFor(s, k, n, a, r) /\ MovesLeft(p)' = MovesFor(s2, k, n, b, t)
  BY <1>1, MovesLeftIs DEF MovesOf
<1>5. (b = a /\ t < r) \/ b = a + 1
  BY <1>1 DEF Further
<1> HIDE DEF n, k, m, m2, s, s2, a, b, r, t
<1>6. /\ AttemptsLater(k, n) \in Nat
      /\ MovesLeft(p) = MovesWhileRunning(k, n, a, r)
      /\ MovesLeft(p) \in Nat
  <2>1. s \in Running /\ Underway(k, n, a, r)
    BY <1>1, <1>2 DEF Underway
  <2>2. /\ AttemptsLater(k, n) \in Nat
        /\ MovesFor(s, k, n, a, r) = MovesWhileRunning(k, n, a, r)
        /\ MovesWhileRunning(k, n, a, r) \in Nat
    BY <2>1, RunningMoves
  <2>3. QED
    BY <2>2, <1>4
<1>6a. MovesLeft(p)' = MovesWhileRunning(k, n, b, t) /\ MovesLeft(p)' \in Nat
  <2>1. s2 \in Running /\ Underway(k, n, b, t)
    BY <1>1, <1>2, <1>3 DEF Underway
  <2>2. /\ MovesFor(s2, k, n, b, t) = MovesWhileRunning(k, n, b, t)
        /\ MovesWhileRunning(k, n, b, t) \in Nat
    BY <2>1, RunningMoves
  <2>3. QED
    BY <2>2, <1>4
<1>7. Policy.max_attempts \in Nat /\ a \in Nat /\ b \in Nat
  BY <1>2, <1>3, PolicyNumbers DEF Attempts
<1> DEFINE left == AttemptsLater(k, n)
<1>7a. /\ left \in Nat
       /\ MovesLeft(p) = (left + (Policy.max_attempts - a)) * 8 + r
       /\ MovesLeft(p)' = (left + (Policy.max_attempts - b)) * 8 + t
  BY <1>6, <1>6a DEF MovesWhileRunning
<1> HIDE DEF left
<1>8. (left + (Policy.max_attempts - b)) * 8 + t < (left + (Policy.max_attempts - a)) * 8 + r
  BY <1>2, <1>3, <1>5, <1>7a, <1>7, FewerMoves
<1>9. QED
  BY <1>6, <1>6a, <1>7a, <1>8, UsesMoves

\* What is left of a project that has not ended is at least one move.
LEMMA SomeMoves ==
  ASSUME RegistryInv, NEW p \in Projects, project[p] # NoProject,
         project[p].status \in {"Draft", "Funding", "Funded"} \cup Running
  PROVE  MovesLeft(p) \in Nat /\ MovesLeft(p) > 0
<1> DEFINE n  == Cardinality(DOMAIN milestones[p])
           k  == project[p].current_milestone
           s  == project[p].status
           a  == milestones[p][k].attempt
           r  == StageRank(milestones[p][k].status)
<1>1. /\ n \in Nat /\ k \in Nat /\ k < n /\ a \in Attempts /\ r \in 0..7
      /\ s \in Running => r > 0
  BY OfProject, StageNumbers
<1>2. MovesLeft(p) = MovesFor(s, k, n, a, r)
  BY MovesLeftIs DEF MovesOf
<1>3. s \in {"Draft", "Funding", "Funded"} \cup Running
  OBVIOUS
<1> HIDE DEF n, k, s, a, r
<1>4. CASE s \in Running
  <2>a. Underway(k, n, a, r)
    BY <1>1 DEF Underway
  <2>0. /\ AttemptsLater(k, n) \in Nat
        /\ MovesLeft(p) = MovesWhileRunning(k, n, a, r)
    BY <2>a, <1>2, <1>4, RunningMoves
  <2> DEFINE left == AttemptsLater(k, n)
  <2>1. left \in Nat /\ MovesLeft(p) = (left + (Policy.max_attempts - a)) * 8 + r
    BY <2>0 DEF MovesWhileRunning
  <2>2. Policy.max_attempts \in Nat /\ a \in 1..Policy.max_attempts /\ r \in Nat /\ r > 0
    BY <1>1, <1>4, PolicyNumbers DEF Attempts
  <2> HIDE DEF left
  <2>3. QED
    BY <2>1, <2>2
<1>5. CASE s \in {"Draft", "Funding", "Funded"}
  <2> DEFINE all == n * Policy.max_attempts
  <2>1. /\ all \in Nat
        /\ \/ MovesLeft(p) = all * 8 + 1 \/ MovesLeft(p) = all * 8 + 2 \/ MovesLeft(p) = all * 8 + 3
    BY <1>1, <1>2, <1>5, EarlyMoves
  <2> HIDE DEF all
  <2>2. QED
    BY <2>1
<1>6. QED
  BY <1>3, <1>4, <1>5

\* A project that ends has none left.
LEMMA EndsForward ==
  ASSUME RegistryInv, RegistryInv', NEW p \in Projects, project[p] # NoProject,
         project[p].status \in {"Draft", "Funding", "Funded"} \cup Running,
         project'[p] # NoProject,
         project'[p].status \in {"Completed", "Failed", "Cancelled"}
  PROVE  Forward(p)
<1> DEFINE n  == Cardinality(DOMAIN milestones'[p])
           k  == project'[p].current_milestone
           s  == project'[p].status
           a  == milestones'[p][k].attempt
           r  == StageRank(milestones'[p][k].status)
<1>1. MovesLeft(p)' = MovesFor(s, k, n, a, r) /\ n \in Nat
  BY NumbersKept, StageNumbers, MovesLeftIs DEF MovesOf
<1>2. s \in {"Completed", "Failed", "Cancelled"}
  OBVIOUS
<1> HIDE DEF n, k, s, a, r
<1>3. MovesLeft(p)' = 0
  BY <1>1, <1>2, EarlyMoves
<1>4. MovesLeft(p) \in Int /\ 0 \in Int /\ 0 < MovesLeft(p)
  BY SomeMoves
<1>5. QED
  BY <1>3, <1>4, UsesMoves

\* Delivery starts with fewer moves than funding ends with.
LEMMA BeginsForward ==
  ASSUME RegistryInv, RegistryInv', NEW p \in Projects, project[p] # NoProject,
         project'[p] # NoProject, Begins(p)
  PROVE  Forward(p)
<1> DEFINE n  == Cardinality(DOMAIN milestones[p])
           k  == project[p].current_milestone
           a  == milestones[p][k].attempt
           r  == StageRank(milestones[p][k].status)
           b  == milestones'[p][k].attempt
           t  == StageRank(milestones'[p][k].status)
<1>1. /\ project[p].status = "Funded" /\ project'[p].status = "Active"
      /\ project'[p].current_milestone = k
      /\ DOMAIN milestones'[p] = DOMAIN milestones[p]
  BY DEF Begins, SameAmounts, Current
<1>2. n \in Nat /\ k \in Nat /\ k < n
  BY NumbersKept, StageNumbers
<1>3. b \in Attempts /\ t \in 0..7
  BY <1>1, NumbersKept, StageNumbers
<1>4. MovesLeft(p) = MovesFor("Funded", k, n, a, r) /\ MovesLeft(p)' = MovesFor("Active", k, n, b, t)
  BY <1>1, MovesLeftIs DEF MovesOf
<1> HIDE DEF n, k, a, r, b, t
<1>5a. n * Policy.max_attempts \in Nat /\ MovesLeft(p) = n * Policy.max_attempts * 8 + 1
  BY <1>2, <1>4, EarlyMoves
<1>6b. "Active" \in Running
  BY DEF Running
<1>6a. AttemptsLater(k, n) \in Nat /\ MovesLeft(p)' = MovesWhileRunning(k, n, b, t)
  <2>1. Underway(k, n, b, t)
    BY <1>2, <1>3 DEF Underway
  <2>2. /\ AttemptsLater(k, n) \in Nat
        /\ MovesFor("Active", k, n, b, t) = MovesWhileRunning(k, n, b, t)
    BY <2>1, <1>6b, RunningMoves
  <2>3. QED
    BY <2>2, <1>4
<1> DEFINE d == Policy.max_attempts
<1>5. n * d \in Nat /\ MovesLeft(p) = n * d * 8 + 1
  BY <1>5a
<1>6. /\ (n - k - 1) * d \in Nat
      /\ MovesLeft(p)' = ((n - k - 1) * d + (d - b)) * 8 + t
  BY <1>6a DEF MovesWhileRunning, AttemptsLater
<1>7. d \in Nat \ {0} /\ b \in 1..d
  BY <1>3, PolicyNumbers DEF Attempts
<1> HIDE DEF d
<1>8. (n - k - 1) * d + d <= n * d
  <2>1. (n - k - 1) * d + d = n * d - k * d
    BY <1>2, <1>7
  <2>2. k * d \in Nat
    BY <1>2, <1>7
  <2>3. QED
    BY <1>5, <2>1, <2>2
<1>9. MovesLeft(p) \in Int /\ MovesLeft(p)' \in Int /\ MovesLeft(p)' < MovesLeft(p)
  <2> DEFINE left == (n - k - 1) * d
             all  == n * d
  <2>1. left \in Nat /\ all \in Nat /\ left + d <= all /\ t \in 0..7
        /\ MovesLeft(p) = all * 8 + 1 /\ MovesLeft(p)' = (left + (d - b)) * 8 + t
    BY <1>3, <1>5, <1>6, <1>8
  <2> HIDE DEF left, all
  <2>2. QED
    BY <2>1, <1>7
<1>10. QED
  BY <1>9, UsesMoves

\* Each step of funding uses one move, or none.
LEMMA FundingForward ==
  ASSUME RegistryInv, RegistryInv', NEW p \in Projects, project[p] # NoProject,
         project'[p] # NoProject, UNCHANGED milestones, Current(p)' = Current(p),
         <<project[p].status, project'[p].status>>
           \in {<<"Draft", "Funding">>, <<"Funding", "Funded">>}
  PROVE  Forward(p)
<1> DEFINE n  == Cardinality(DOMAIN milestones[p])
           k  == project[p].current_milestone
           a  == milestones[p][k].attempt
           r  == StageRank(milestones[p][k].status)
           all == n * Policy.max_attempts
<1>1. n \in Nat
  BY NumbersKept, StageNumbers
<1>2. /\ MovesLeft(p) = MovesFor(project[p].status, k, n, a, r)
      /\ MovesLeft(p)' = MovesFor(project'[p].status, k, n, a, r)
  BY MovesLeftIs DEF MovesOf, Current
<1> HIDE DEF n, k, a, r
<1>3. /\ all \in Nat
      /\ \/ MovesLeft(p) = all * 8 + 3 /\ MovesLeft(p)' = all * 8 + 2
         \/ MovesLeft(p) = all * 8 + 2 /\ MovesLeft(p)' = all * 8 + 1
  BY <1>1, <1>2, EarlyMoves
<1> HIDE DEF all
<1>4. MovesLeft(p) \in Int /\ MovesLeft(p)' \in Int /\ MovesLeft(p)' < MovesLeft(p)
  BY <1>3
<1>5. QED
  BY <1>4, UsesMoves

\* Delivering the next milestone takes fewer moves than paying this one.
LEMMA FewerMilestones ==
  ASSUME NEW d \in Nat \ {0}, NEW n \in Nat, NEW i \in Nat, i + 1 < n,
         NEW a \in 1..d, NEW b \in 1..d, NEW t \in 0..7
  PROVE  ((n - (i + 1) - 1) * d + (d - b)) * 8 + t < ((n - i - 1) * d + (d - a)) * 8 + 1
<1> DEFINE next == (n - (i + 1) - 1) * d
           left == (n - i - 1) * d
<1>1. next \in Int /\ left \in Int
  OBVIOUS
<1>2. left = next + d
  <2>1. n - i - 1 = (n - (i + 1) - 1) + 1
    OBVIOUS
  <2>2. \A x \in Int : (x + 1) * d = x * d + d
    OBVIOUS
  <2>3. n - (i + 1) - 1 \in Int
    OBVIOUS
  <2>4. QED
    BY <2>1, <2>2, <2>3
<1> HIDE DEF next, left
<1>3. (next + (d - b)) * 8 + t < (left + (d - a)) * 8 + 1
  BY <1>1, <1>2
<1>4. QED
  BY <1>3 DEF next, left

\* No step takes a project away.
LEMMA StillThere ==
  ASSUME RegistryInv, RegistryInv', NEW p \in Projects, project[p] # NoProject,
         SameAmounts(milestones[p], milestones'[p])
  PROVE  project'[p] # NoProject
<1>1. project[p].current_milestone \in DOMAIN milestones'[p]
  BY OfProject DEF SameAmounts
<1>2. milestones'[p] # <<>>
  BY <1>1
<1>3. ProjectOK(p)'
  BY DEF RegistryInv
<1>4. QED
  BY <1>2, <1>3 DEF ProjectOK

\* release_approved
LEMMA PaysShape ==
  ASSUME RegistryInv, NEW p \in Projects, NEW i \in DOMAIN milestones[p], ReleaseApproved(p, i)
  PROVE  /\ project[p] # NoProject /\ project[p].status = "Active" /\ i = Current(p)
         /\ milestones[p][i].status = "Approved"
         /\ ReleaseMilestone(p, i, milestones[p][i].amount)
         /\ SameAmounts(milestones[p], milestones'[p])
         /\ \/ i + 1 \notin DOMAIN milestones[p] /\ project'[p].status = "Completed"
            \/ /\ i + 1 \in DOMAIN milestones[p] /\ project'[p].status = "Active"
               /\ project'[p].current_milestone = i + 1
<1> DEFINE ms   == milestones[p]
           m    == ms[i]
           paid == [ms EXCEPT ![i] = Entered(m, "Released")]
<1>1. /\ project[p] # NoProject /\ project[p].status = "Active" /\ i = Current(p)
      /\ m.status = "Approved" /\ ReleaseMilestone(p, i, m.amount)
  BY DEF ReleaseApproved, ActiveAtCurrent, ActiveAt
<1>2. /\ project \in [Projects -> Project \cup {NoProject}] /\ project[p] \in Project
      /\ milestones \in [Projects -> MilestoneLists]
      /\ \A j \in DOMAIN ms : ms[j] \in Milestone
  BY <1>1, OfProject DEF RegistryInv, ProjectTypes
<1>3. /\ DOMAIN paid = DOMAIN ms /\ paid[i] = Entered(m, "Released")
      /\ \A j \in DOMAIN ms : j # i => paid[j] = ms[j]
  OBVIOUS
<1>4. Entered(m, "Released").amount = m.amount
  BY <1>2, RecordsKeep
<1>5. SameAmounts(ms, paid)
  BY <1>3, <1>4 DEF SameAmounts
<1>6. CASE i + 1 \notin DOMAIN ms
  <2>1. SetStatus(p, "Completed") /\ milestones' = [milestones EXCEPT ![p] = paid]
    BY <1>6 DEF ReleaseApproved
  <2>2. project'[p].status = "Completed"
    BY <1>1, <2>1, StatusSet
  <2>3. milestones'[p] = paid
    BY <1>2, <2>1
  <2>4. SameAmounts(ms, milestones'[p])
    BY <1>5, <2>3
  <2>5. QED
    BY <1>1, <1>6, <2>2, <2>4
<1>7. CASE i + 1 \in DOMAIN ms
  <2> DEFINE mn == [paid EXCEPT ![i + 1] = Started(paid[i + 1])]
  <2>1. /\ project' = [project EXCEPT ![p].current_milestone = i + 1]
        /\ milestones' = [milestones EXCEPT ![p] = mn]
    BY <1>7 DEF ReleaseApproved
  <2>2. project'[p] = [project[p] EXCEPT !.current_milestone = i + 1]
    BY <1>2, <2>1
  <2>3. project'[p].status = "Active" /\ project'[p].current_milestone = i + 1
    BY <1>1, <1>2, <2>2 DEF Project
  <2>4. milestones'[p] = mn
    BY <1>2, <2>1
  <2>5. i + 1 # i /\ i \in 0..4
    BY <1>1, OfProject
  <2>6. paid[i + 1] = ms[i + 1] /\ ms[i + 1] \in Milestone
    BY <1>2, <1>3, <1>7, <2>5
  <2>7. Started(paid[i + 1]).amount = ms[i + 1].amount
    BY <2>6, RecordsKeep
  <2>8. /\ DOMAIN mn = DOMAIN ms /\ mn[i + 1] = Started(paid[i + 1])
        /\ \A j \in DOMAIN ms : j # i + 1 => mn[j] = paid[j]
    BY <1>3, <1>7
  <2>9. SameAmounts(ms, mn)
    BY <1>5, <2>7, <2>8 DEF SameAmounts
  <2> HIDE DEF mn
  <2>10. QED
    BY <1>1, <1>7, <2>3, <2>4, <2>9
<1>8. QED
  BY <1>6, <1>7

\* Paying a milestone, the last of the project or not.
LEMMA PaysForward ==
  ASSUME RegistryInv, RegistryInv', NEW p \in Projects, project[p] # NoProject,
         project'[p] # NoProject, Pays(p)
  PROVE  Forward(p)
<1>1. PICK i \in DOMAIN milestones[p] : ReleaseApproved(p, i)
  BY DEF Pays
<1>2. /\ project[p].status = "Active" /\ i = Current(p)
      /\ milestones[p][i].status = "Approved"
      /\ SameAmounts(milestones[p], milestones'[p])
      /\ \/ i + 1 \notin DOMAIN milestones[p] /\ project'[p].status = "Completed"
         \/ /\ i + 1 \in DOMAIN milestones[p] /\ project'[p].status = "Active"
            /\ project'[p].current_milestone = i + 1
  BY <1>1, PaysShape
<1>3. CASE project'[p].status = "Completed"
  BY <1>2, <1>3, EndsForward DEF Running
<1>4. CASE /\ project'[p].status = "Active"
           /\ project'[p].current_milestone = i + 1
  <2> DEFINE n == Cardinality(DOMAIN milestones[p])
             a == milestones[p][i].attempt
             b == milestones'[p][i + 1].attempt
             t == StageRank(milestones'[p][i + 1].status)
  <2>1. project[p].current_milestone = i /\ DOMAIN milestones'[p] = DOMAIN milestones[p]
    BY <1>2 DEF Current, SameAmounts
  <2>2. n \in Nat /\ i \in Nat /\ i < n /\ a \in Attempts
    BY <2>1, NumbersKept, StageNumbers
  <2>3. i + 1 \in Nat /\ i + 1 < n /\ b \in Attempts /\ t \in 0..7
    BY <1>4, <2>1, NumbersKept, StageNumbers
  <2>4. StageRank(milestones[p][i].status) = 1
    BY <1>2, Ranks
  <2>5. MovesLeft(p) = MovesFor("Active", i, n, a, 1)
    BY <1>2, <2>1, <2>4, MovesLeftIs DEF MovesOf
  <2>6. MovesLeft(p)' = MovesFor("Active", i + 1, n, b, t)
    BY <1>4, <2>1, MovesLeftIs DEF MovesOf
  <2> HIDE DEF n, a, b, t
  <2>7. "Active" \in Running /\ 1 \in 0..7
    BY DEF Running
  <2>8. /\ MovesFor("Active", i, n, a, 1) = MovesWhileRunning(i, n, a, 1)
        /\ MovesWhileRunning(i, n, a, 1) \in Nat
    <3>1. Underway(i, n, a, 1)
      BY <2>2, <2>7 DEF Underway
    <3>2. QED
      BY <2>7, <3>1, RunningMoves
  <2>9. /\ MovesFor("Active", i + 1, n, b, t) = MovesWhileRunning(i + 1, n, b, t)
        /\ MovesWhileRunning(i + 1, n, b, t) \in Nat
    <3>1. Underway(i + 1, n, b, t)
      BY <2>2, <2>3 DEF Underway
    <3>2. QED
      BY <2>7, <3>1, RunningMoves
  <2>10. Policy.max_attempts \in Nat \ {0} /\ a \in 1..Policy.max_attempts
         /\ b \in 1..Policy.max_attempts
    BY <2>2, <2>3, PolicyNumbers DEF Attempts
  <2>11. MovesWhileRunning(i + 1, n, b, t) < MovesWhileRunning(i, n, a, 1)
    <3>1. ((n - (i + 1) - 1) * Policy.max_attempts + (Policy.max_attempts - b)) * 8 + t
            < ((n - i - 1) * Policy.max_attempts + (Policy.max_attempts - a)) * 8 + 1
      BY <2>2, <2>3, <2>10, FewerMilestones, Zenon
    <3>2. QED
      BY <3>1 DEF MovesWhileRunning, AttemptsLater
  <2>12. MovesLeft(p) \in Nat /\ MovesLeft(p)' \in Nat /\ MovesLeft(p)' < MovesLeft(p)
    BY <2>5, <2>6, <2>8, <2>9, <2>11
  <2>13. QED
    BY <2>12, UsesMoves
<1>5. QED
  BY <1>2, <1>3, <1>4

\* contribute, whether or not it reaches the goal.
LEMMA GivesShape ==
  ASSUME RegistryInv, NEW p \in Projects, NEW c \in Contributors, NEW amount,
         Contribute(p, c, amount)
  PROVE  /\ project[p] # NoProject /\ project[p].status = "Funding"
         /\ UNCHANGED milestones /\ Current(p)' = Current(p)
         /\ \/ /\ project'[p].status = "Funding"
               /\ vault[p].deposited + amount # project[p].goal /\ Deposit(p, c, amount)
            \/ /\ project'[p].status = "Funded"
               /\ vault[p].deposited + amount = project[p].goal /\ DepositThenLock(p, c, amount)
<1> DEFINE pr    == project[p]
           after == Credited(pr, contribution[p][c], amount)
<1>1. /\ pr # NoProject /\ pr.status = "Funding" /\ UNCHANGED milestones
  BY DEF Contribute, HasStatus
<1>2. project \in [Projects -> Project \cup {NoProject}] /\ pr \in Project
  BY <1>1, OfProject DEF RegistryInv, ProjectTypes
<1>3. after.status = "Funding" /\ after.current_milestone = pr.current_milestone
      /\ FundedNow(after).status = "Funded"
      /\ FundedNow(after).current_milestone = pr.current_milestone
  BY <1>1, <1>2 DEF Credited, FundedNow, Project
<1> HIDE DEF after
<1>4. \/ /\ vault[p].deposited + amount # pr.goal
         /\ Deposit(p, c, amount) /\ project' = [project EXCEPT ![p] = after]
      \/ /\ vault[p].deposited + amount = pr.goal
         /\ DepositThenLock(p, c, amount) /\ project' = [project EXCEPT ![p] = FundedNow(after)]
  BY DEF Contribute, after
<1>5. \A new : project' = [project EXCEPT ![p] = new] => project'[p] = new
  BY <1>2
<1>6. QED
  BY <1>1, <1>3, <1>4, <1>5 DEF Current

\* What nobody delivers on keeps its milestones as they are.
LEMMA SameLists ==
  ASSUME NEW p, milestones'[p] = milestones[p]
  PROVE  /\ SameAmounts(milestones[p], milestones'[p])
         /\ SameStages(milestones[p], milestones'[p])
BY DEF SameAmounts, SameStages

\* A contribution waits for more, or makes the project a funded one.
LEMMA GivesForward ==
  ASSUME RegistryInv, RegistryInv', NEW p \in Projects, project[p] # NoProject,
         project'[p] # NoProject, Gives(p)
  PROVE  Forward(p)
<1>1. PICK c \in Contributors, amount \in AmountInputs : Contribute(p, c, amount)
  BY DEF Gives
<1>2. /\ project[p].status = "Funding" /\ UNCHANGED milestones /\ Current(p)' = Current(p)
      /\ project'[p].status = "Funding" \/ project'[p].status = "Funded"
  BY <1>1, GivesShape
<1>3. CASE project'[p].status = "Funding"
  <2>1. Stays(p)
    BY <1>2, <1>3, SameLists DEF Stays
  <2>2. QED
    BY <1>2, <2>1, SameLists, WaitsForward
<1>4. CASE project'[p].status = "Funded"
  BY <1>2, <1>4, FundingForward
<1>5. QED
  BY <1>2, <1>3, <1>4

\* open_funding
LEMMA OpensShape ==
  ASSUME RegistryInv, NEW p \in Projects, OpenFunding(p)
  PROVE  /\ project[p] # NoProject /\ project[p].status = "Draft"
         /\ project'[p].status = "Funding"
         /\ UNCHANGED milestones /\ Current(p)' = Current(p)
<1>1. /\ project[p] # NoProject /\ project[p].status = "Draft"
      /\ SetStatus(p, "Funding") /\ UNCHANGED milestones
  BY DEF OpenFunding, HasStatus
<1>2. QED
  BY <1>1, StatusSet

\* Every shape keeps the amounts of the milestones.
LEMMA ShapesKeepAmounts ==
  ASSUME RegistryInv, NEW p \in Projects, Shaped(p)
  PROVE  SameAmounts(milestones[p], milestones'[p])
<1>1. CASE Waits(p) \/ Decides(p) \/ CallsOff(p) \/ Abandons(p) \/ Begins(p)
  BY <1>1 DEF Waits, Stays, Decides, CallsOff, Abandons, Begins
<1>2. CASE OpenFunding(p)
  BY <1>2, OpensShape, SameLists
<1>3. CASE Gives(p)
  BY <1>3, GivesShape, SameLists DEF Gives
<1>4. CASE Pays(p)
  BY <1>4, PaysShape DEF Pays
<1>5. QED
  BY <1>1, <1>2, <1>3, <1>4 DEF Shaped

\* And none of them goes back.
LEMMA ShapesForward ==
  ASSUME RegistryInv, RegistryInv', NEW p \in Projects, project[p] # NoProject, Shaped(p)
  PROVE  Forward(p)
<1>1. project'[p] # NoProject
  BY ShapesKeepAmounts, StillThere
<1>2. CASE Waits(p)
  BY <1>1, <1>2, WaitsForward DEF Waits
<1>3. CASE Decides(p)
  BY <1>1, <1>3, DecidesForward
<1>4. CASE CallsOff(p) \/ Abandons(p)
  BY <1>1, <1>4, EndsForward DEF CallsOff, Abandons
<1>5. CASE Begins(p)
  BY <1>1, <1>5, BeginsForward
<1>6. CASE OpenFunding(p)
  BY <1>1, <1>6, OpensShape, FundingForward
<1>7. CASE Gives(p)
  BY <1>1, <1>7, GivesForward
<1>8. CASE Pays(p)
  BY <1>1, <1>8, PaysForward
<1>9. QED
  BY <1>2, <1>3, <1>4, <1>5, <1>6, <1>7, <1>8 DEF Shaped

\* A project no step writes to.
LEMMA UntouchedForward ==
  ASSUME RegistryInv, RegistryInv', NEW p \in Projects, project[p] # NoProject,
         project'[p] = project[p], milestones'[p] = milestones[p]
  PROVE  Forward(p)
<1>1. Stays(p)
  BY SameLists DEF Stays, Current
<1>2. QED
  BY <1>1, SameLists, WaitsForward

\* create_project writes to an identifier nobody has.
LEMMA CreatesElsewhere ==
  ASSUME RegistryInv, NEW input \in ProjectInputs, CreateProject(input)
  PROVE  \A q \in Projects : project[q] # NoProject =>
           project'[q] = project[q] /\ milestones'[q] = milestones[q]
<1>1. /\ next_project_id \in Projects
      /\ \E new : project' = [project EXCEPT ![next_project_id] = new]
      /\ \E new : milestones' = [milestones EXCEPT ![next_project_id] = new]
  BY DEF CreateProject
<1>2. /\ project \in [Projects -> Project \cup {NoProject}]
      /\ milestones \in [Projects -> MilestoneLists]
  BY DEF RegistryInv, ProjectTypes
<1>3. \A q \in Projects : project[q] # NoProject => q # next_project_id
  BY RegistryAssumption DEF RegistryInv, IdsFresh
<1>4. QED
  BY <1>1, <1>2, <1>3

\* The steps about money already called back, time and administration.
LEMMA OtherSteps ==
  ASSUME RegistryInv, RegistryTick \/ AdminStep \/ UNCHANGED vars
                        \/ \E p \in Projects, c \in Contributors : PayRefund(p, c)
  PROVE  UNCHANGED <<project, milestones>>
<1>1. CASE RegistryTick
  BY <1>1 DEF RegistryTick, project_vars
<1>2. CASE AdminStep
  BY <1>2, AdminCall DEF project_vars
<1>3. CASE UNCHANGED vars
  BY <1>3 DEF vars, project_vars
<1>4. CASE \E p \in Projects, c \in Contributors : PayRefund(p, c)
  BY <1>4 DEF PayRefund, project_vars
<1>5. QED
  BY <1>1, <1>2, <1>3, <1>4

\* Every step of the registry takes every project forward.
LEMMA StepForward ==
  ASSUME RegistryInv, RegistryInv', [RegistryNext]_vars, NEW p \in Projects,
         project[p] # NoProject
  PROVE  Forward(p)
<1>1. CASE RegistryTick \/ AdminStep \/ UNCHANGED vars
             \/ \E q \in Projects, c \in Contributors : PayRefund(q, c)
  BY <1>1, OtherSteps, UntouchedForward
<1>2. CASE \E input \in ProjectInputs : CreateProject(input)
  BY <1>2, CreatesElsewhere, UntouchedForward
<1>3. ASSUME NEW q \in Projects, ActorStep(q) \/ PermissionlessStep(q)
      PROVE  Forward(p)
  <2>1. Shaped(q) /\ OthersKept(q)
    BY <1>3, EveryCallIsShaped
  <2>2. CASE q = p
    BY <2>1, <2>2, ShapesForward
  <2>3. CASE q # p
    BY <2>1, <2>3, UntouchedForward DEF OthersKept
  <2>4. QED
    BY <2>2, <2>3
<1>4. QED
  BY <1>1, <1>2, <1>3 DEF RegistryNext

(***************************************************************************)
(* No sequence of calls, timeouts or pauses takes a project back: every    *)
(* change of its status, milestone, stage or attempt costs a move, and     *)
(* there are at most three and eight for each attempt at each milestone.   *)
(***************************************************************************)
THEOREM ProjectsOnlyMoveForward == RegistrySpec => OnlyForward
<1>1. RegistryInv /\ RegistryInv' /\ [RegistryNext]_vars
        => [\A p \in Created : Forward(p)]_vars
  BY StepForward, OfCreated
<1>2. (\A p \in Created : Forward(p)) =>
        \A p \in Created :
          LET stage(m) == <<m.status, m.attempt>>
          IN
          /\ MovesLeft(p)' <= MovesLeft(p)
          /\ MovesLeft(p)' = MovesLeft(p) =>
               /\ project'[p].status = project[p].status
               /\ Current(p)' = Current(p)
               /\ \A i \in DOMAIN milestones[p] :
                    stage(milestones'[p][i]) = stage(milestones[p][i])
  BY DEF Forward, SameStages
<1>3. QED
  BY <1>1, <1>2, RegistryInvariant, PTL DEF RegistrySpec, OnlyForward

-----------------------------------------------------------------------------
(* The agreement, as the contracts keep it.                                 *)

\* The amounts of a project's milestones, as open_funding hands them over.
PlanOf(ms) == [m \in 1..Cardinality(DOMAIN ms) |-> ms[m - 1].amount]

(***************************************************************************)
(* The amounts fixed at create_project are those the vault pays: the       *)
(* registry never changes an amount, the escrow never changes a plan.      *)
(***************************************************************************)
TermsKept(p) ==
  project[p] # NoProject =>
    /\ PlanOf(milestones[p]) \in {input.amounts : input \in ProjectInputs}
    /\ vault[p] # NoVault =>
         /\ vault[p].milestone_amounts = PlanOf(milestones[p])
         /\ vault[p].goal = SumSeq(vault[p].milestone_amounts)

AgreementInv == RegistryInv /\ \A p \in Projects : TermsKept(p)

\* The mapping of RegistryAgreement, of the values it depends on.
PhaseOf(pr, v) ==
  LET is(status) == pr # NoProject /\ pr.status = status IN
  CASE v = NoVault                   -> "proposed"
    [] v # NoVault /\ v.refundable   -> "returning"
    [] is("Funding")                 -> "funding"
    [] is("Funded")                  -> "funded"
    [] is("Active")                  -> "delivering"
    [] is("Disputed")                -> "delivering"
    [] is("Completed")               -> "completed"

PlanIn(v)    == IF v = NoVault THEN <<>> ELSE v.milestone_amounts
PaidIn(v)    == IF v = NoVault THEN 0 ELSE v.next_milestone
HeldBy(v)    == IF v = NoVault THEN 0 ELSE v.deposited - v.released - v.refunded_total
RepaidIn(back) == {c \in Contributors : back[c] # None}

\* The mapping depends on the project and its vault alone.
LEMMA MappingIs ==
  ASSUME NEW p
  PROVE  /\ Phase(p) = PhaseOf(project[p], vault[p])
         /\ Phase(p)' = PhaseOf(project'[p], vault'[p])
         /\ Plan(p) = PlanIn(vault[p]) /\ Plan(p)' = PlanIn(vault'[p])
         /\ PaidSoFar(p) = PaidIn(vault[p]) /\ PaidSoFar(p)' = PaidIn(vault'[p])
         /\ Held(p) = HeldBy(vault[p]) /\ Held(p)' = HeldBy(vault'[p])
         /\ Repaid(p) = RepaidIn(refund_receipt[p])
         /\ Repaid(p)' = RepaidIn(refund_receipt'[p])
<1>1. Phase(p) = PhaseOf(project[p], vault[p])
  BY DEF Phase, PhaseOf, HasStatus
<1>2. Phase(p)' = PhaseOf(project'[p], vault'[p])
  BY DEF Phase, PhaseOf, HasStatus
<1>3. /\ Plan(p) = PlanIn(vault[p]) /\ Plan(p)' = PlanIn(vault'[p])
      /\ PaidSoFar(p) = PaidIn(vault[p]) /\ PaidSoFar(p)' = PaidIn(vault'[p])
      /\ Held(p) = HeldBy(vault[p]) /\ Held(p)' = HeldBy(vault'[p])
  BY DEF Plan, PlanIn, PaidSoFar, PaidIn, Held, HeldBy
<1>4. /\ Repaid(p) = RepaidIn(refund_receipt[p])
      /\ Repaid(p)' = RepaidIn(refund_receipt'[p])
  BY DEF Repaid, RepaidIn
<1>5. QED
  BY <1>1, <1>2, <1>3, <1>4

\* What the phases stand for, whenever status and vault agree.
LEMMA PhasesAre ==
  ASSUME NEW pr, NEW v, pr = NoProject => v = NoVault, pr # NoProject => Backed(pr, v)
  PROVE  /\ v = NoVault => PhaseOf(pr, v) = "proposed"
         /\ v # NoVault /\ v.refundable => PhaseOf(pr, v) = "returning"
         /\ v # NoVault /\ ~v.refundable =>
              /\ pr # NoProject
              /\ pr.status = "Funding" => PhaseOf(pr, v) = "funding"
              /\ pr.status = "Funded" => PhaseOf(pr, v) = "funded"
              /\ pr.status \in Running => PhaseOf(pr, v) = "delivering"
              /\ pr.status = "Completed" => PhaseOf(pr, v) = "completed"
<1>1. ASSUME v = NoVault
      PROVE  PhaseOf(pr, v) = "proposed"
  <2>1. pr = NoProject \/ pr.status \in {"Draft", "Cancelled"}
    BY <1>1 DEF Backed
  <2>2. QED
    BY <1>1, <2>1 DEF PhaseOf
<1>2. ASSUME v # NoVault, v.refundable
      PROVE  PhaseOf(pr, v) = "returning"
  <2>1. pr.status \in {"Failed", "Cancelled"}
    BY <1>2 DEF Backed
  <2>2. QED
    BY <1>2, <2>1 DEF PhaseOf
<1>3. ASSUME v # NoVault, ~v.refundable
      PROVE  /\ pr # NoProject
             /\ pr.status = "Funding" => PhaseOf(pr, v) = "funding"
             /\ pr.status = "Funded" => PhaseOf(pr, v) = "funded"
             /\ pr.status \in Running => PhaseOf(pr, v) = "delivering"
             /\ pr.status = "Completed" => PhaseOf(pr, v) = "completed"
  BY <1>3 DEF PhaseOf, Running
<1>4. QED
  BY <1>1, <1>2, <1>3

\* The phase of a project is that of its status and its vault's refundable.
LEMMA SamePhase ==
  ASSUME NEW pr, NEW qr, NEW v, NEW w, pr # NoProject, qr # NoProject,
         Backed(pr, v), Backed(qr, w),
         \/ pr.status = qr.status
         \/ pr.status \in Running /\ qr.status \in Running,
         v = NoVault <=> w = NoVault, v # NoVault => w.refundable = v.refundable
  PROVE  PhaseOf(pr, v) = PhaseOf(qr, w)
<1>1. CASE pr.status = qr.status
  BY <1>1 DEF PhaseOf
<1>2. CASE pr.status \in Running /\ qr.status \in Running
  <2>1. CASE v = NoVault
    BY <2>1, PhasesAre
  <2>2. ~(v # NoVault /\ v.refundable)
    BY <1>2 DEF Backed, Running
  <2>3. CASE v # NoVault /\ ~v.refundable
    BY <1>2, <2>3, PhasesAre
  <2>4. QED
    BY <2>1, <2>2, <2>3
<1>3. QED
  BY <1>1, <1>2

-----------------------------------------------------------------------------
(* What the calls leave of a vault and of its plan.                         *)

SameTermsIn(v, w) ==
  /\ v = NoVault <=> w = NoVault
  /\ v # NoVault => w.milestone_amounts = v.milestone_amounts /\ w.goal = v.goal

\* enable_refunds
LEMMA ReturnedVault ==
  ASSUME RegistryInv, NEW p \in Projects, EnableRefunds(p)
  PROVE  LET v == vault[p]  w == vault'[p] IN
         /\ SameTermsIn(v, w) /\ v # NoVault /\ ~v.refundable /\ w.refundable
         /\ w.next_milestone = v.next_milestone /\ w.deposited = v.deposited
         /\ w.released = v.released /\ w.refunded_total = v.refunded_total
         /\ UNCHANGED <<contribution, refund_receipt>>
<1> DEFINE v == vault[p]
           w == vault'[p]
<1>1. /\ v \in Vault /\ v # NoVault /\ ~v.refundable /\ w # NoVault /\ w.refundable
      /\ w.next_milestone = v.next_milestone /\ w.goal = v.goal
  BY RefundsEnabled
<1>2. w = WithRefunds(v) /\ UNCHANGED <<contribution, refund_receipt>>
  BY DEF EnableRefunds, RegistryInv, Books, EscrowInv, EscrowTypeOK
<1>3. /\ w.deposited = v.deposited /\ w.released = v.released
      /\ w.refunded_total = v.refunded_total /\ w.milestone_amounts = v.milestone_amounts
  BY <1>1, <1>2 DEF WithRefunds, Vault
<1>4. QED
  BY <1>1, <1>2, <1>3 DEF SameTermsIn

\* deposit, with the lock_funding that may follow it.
LEMMA RaisedVault ==
  ASSUME RegistryInv, NEW p \in Projects, NEW c \in Contributors, NEW amount \in Int,
         Deposit(p, c, amount) \/ DepositThenLock(p, c, amount)
  PROVE  LET v == vault[p]  w == vault'[p] IN
         /\ SameTermsIn(v, w) /\ v \in Vault /\ v # NoVault /\ ~v.refundable /\ ~w.refundable
         /\ w.next_milestone = v.next_milestone /\ w.deposited = v.deposited + amount
         /\ w.released = v.released /\ w.refunded_total = v.refunded_total
         /\ amount > 0 /\ v.deposited + amount <= v.goal
         /\ contribution' = [contribution EXCEPT ![p][c] = @ + amount]
         /\ UNCHANGED refund_receipt
<1> DEFINE v == vault[p]
           w == vault'[p]
           a == AfterDeposit(v, amount, contribution[p][c])
<1>1. PICK x \in {a, Locked(a)} : DepositInto(p, c, amount, x)
  BY DEF Deposit, DepositThenLock
<1>2. /\ amount > 0 /\ v # NoVault /\ ~v.refundable /\ v.deposited + amount <= v.goal
      /\ vault' = [vault EXCEPT ![p] = x]
      /\ contribution' = [contribution EXCEPT ![p][c] = contribution[p][c] + amount]
      /\ UNCHANGED refund_receipt
  BY <1>1 DEF DepositInto, FundingOpen
<1>3. EscrowInv /\ EscrowTypeOK /\ v \in Vault
  BY <1>2 DEF RegistryInv, Books, EscrowInv, EscrowTypeOK
<1>4. a \in Vault
  BY <1>1, <1>3, AfterDepositOK
<1>5. Locked(a) \in Vault
  BY <1>4 DEF Locked, Vault
<1>6. w = x /\ w \in Vault
  BY <1>2, <1>3, <1>4, <1>5 DEF EscrowTypeOK
<1>7. w # NoVault
  BY <1>6, EscrowAssumption
<1>8. /\ a.milestone_amounts = v.milestone_amounts /\ a.goal = v.goal
      /\ a.refundable = v.refundable /\ a.next_milestone = v.next_milestone
      /\ a.deposited = v.deposited + amount
      /\ a.released = v.released /\ a.refunded_total = v.refunded_total
  <2>1. CASE contribution[p][c] = 0
    BY <1>3, <2>1 DEF AfterDeposit, Vault
  <2>2. CASE contribution[p][c] # 0
    BY <1>3, <2>2 DEF AfterDeposit, Vault
  <2>3. QED
    BY <2>1, <2>2
<1> HIDE DEF a
<1>9. /\ x.milestone_amounts = a.milestone_amounts /\ x.goal = a.goal
      /\ x.refundable = a.refundable /\ x.next_milestone = a.next_milestone
      /\ x.deposited = a.deposited
      /\ x.released = a.released /\ x.refunded_total = a.refunded_total
  BY <1>4 DEF Locked, Vault
<1>10. contribution' = [contribution EXCEPT ![p][c] = @ + amount]
  BY <1>2
<1>11. QED
  BY <1>2, <1>3, <1>6, <1>7, <1>8, <1>9, <1>10 DEF SameTermsIn

\* release_milestone
LEMMA PaidVault ==
  ASSUME RegistryInv, NEW p \in Projects, NEW i, NEW amount \in Nat, ReleaseMilestone(p, i, amount)
  PROVE  LET v == vault[p]  w == vault'[p] IN
         /\ SameTermsIn(v, w) /\ v \in Vault /\ v # NoVault /\ ~v.refundable /\ ~w.refundable
         /\ i = v.next_milestone /\ amount = v.milestone_amounts[i + 1]
         /\ w.next_milestone = v.next_milestone + 1 /\ w.deposited = v.deposited
         /\ w.released = v.released + amount /\ w.refunded_total = v.refunded_total
         /\ UNCHANGED <<contribution, refund_receipt>>
<1> DEFINE v == vault[p]
           w == vault'[p]
<1>1. /\ v # NoVault /\ ~v.refundable
      /\ i = v.next_milestone /\ amount = v.milestone_amounts[i + 1]
      /\ vault' = [vault EXCEPT ![p] = AfterRelease(v, amount)]
      /\ UNCHANGED <<contribution, refund_receipt>>
  BY DEF ReleaseMilestone
<1>2. v \in Vault /\ w = AfterRelease(v, amount)
  BY <1>1 DEF RegistryInv, Books, EscrowInv, EscrowTypeOK
<1>3. v.released + amount \in Nat /\ v.next_milestone + 1 \in Nat
  <2>1. v.released \in Nat /\ v.next_milestone \in Nat
    BY <1>2 DEF Vault
  <2>2. QED
    BY <2>1
<1>4. /\ w \in Vault
      /\ w.milestone_amounts = v.milestone_amounts /\ w.goal = v.goal
      /\ w.refundable = v.refundable /\ w.next_milestone = v.next_milestone + 1
      /\ w.deposited = v.deposited
      /\ w.released = v.released + amount /\ w.refunded_total = v.refunded_total
  BY <1>2, <1>3 DEF AfterRelease, Vault
<1>5. w # NoVault
  BY <1>4, EscrowAssumption
<1> HIDE DEF w
<1>6. QED
  BY <1>1, <1>2, <1>4, <1>5 DEF SameTermsIn, w

\* claim_refund
LEMMA ClaimedVault ==
  ASSUME RegistryInv, NEW p \in Projects, NEW c \in Contributors, ClaimRefund(p, c)
  PROVE  LET v      == vault[p]
             w      == vault'[p]
             amount == RefundAmount(v, contribution[p][c])
         IN
         /\ SameTermsIn(v, w) /\ v \in Vault /\ v # NoVault /\ v.refundable /\ w.refundable
         /\ w \in Vault /\ VaultOK(w) /\ VaultOK(v)
         /\ amount \in Nat /\ refund_receipt[p][c] = None /\ contribution[p][c] > 0
         /\ w.next_milestone = v.next_milestone /\ w.deposited = v.deposited
         /\ w.released = v.released /\ w.refunded_total = v.refunded_total + amount
         /\ refund_receipt' = [refund_receipt EXCEPT ![p][c] = amount]
         /\ UNCHANGED contribution
         /\ \A q \in Projects : q # p => vault'[q] = vault[q]
<1> DEFINE v      == vault[p]
           w      == vault'[p]
           shares == contribution[p][c]
           amount == RefundAmount(v, shares)
<1>1. /\ v # NoVault /\ v.refundable /\ shares > 0 /\ shares <= v.remaining_shares
      /\ refund_receipt[p][c] = None
      /\ vault' = [vault EXCEPT ![p] = AfterRefund(v, shares, amount)]
      /\ refund_receipt' = [refund_receipt EXCEPT ![p][c] = amount]
      /\ UNCHANGED contribution
  BY DEF ClaimRefund
<1>2. /\ vault \in [Projects -> Vault \cup {NoVault}] /\ Accounting
      /\ shares \in Nat
  BY DEF RegistryInv, Books, EscrowInv, EscrowTypeOK
<1>3. v \in Vault /\ VaultOK(v) /\ w = AfterRefund(v, shares, amount)
      /\ \A q \in Projects : q # p => vault'[q] = vault[q]
  BY <1>1, <1>2 DEF Accounting, Opened
<1>4. w \in Vault /\ VaultOK(w) /\ amount \in Nat
  BY <1>1, <1>2, <1>3, AfterRefundOK
<1>5. w # NoVault
  BY <1>4, EscrowAssumption
<1>6. shares = contribution[p][c]
  OBVIOUS
<1> HIDE DEF amount, shares
<1>7. /\ w.goal = v.goal /\ w.milestone_amounts = v.milestone_amounts
      /\ w.refundable = v.refundable /\ w.next_milestone = v.next_milestone
      /\ w.deposited = v.deposited /\ w.released = v.released
      /\ w.refunded_total = v.refunded_total + amount
  BY <1>3 DEF AfterRefund, Vault
<1>8. /\ SameTermsIn(v, w) /\ v \in Vault /\ v # NoVault /\ v.refundable /\ w.refundable
      /\ w \in Vault /\ VaultOK(w) /\ VaultOK(v)
  BY <1>1, <1>3, <1>4, <1>5, <1>7 DEF SameTermsIn
<1>9. QED
  BY <1>1, <1>3, <1>4, <1>6, <1>7, <1>8 DEF amount

-----------------------------------------------------------------------------
(* The terms are kept.                                                      *)

\* Lists with the same amounts make the same plan.
LEMMA SamePlan ==
  ASSUME NEW ms \in MilestoneLists, ms # <<>>, NEW mn, SameAmounts(ms, mn)
  PROVE  PlanOf(mn) = PlanOf(ms)
<1>1. \A m \in 1..Cardinality(DOMAIN ms) : m - 1 \in DOMAIN ms
  BY ListIndices
<1>2. DOMAIN mn = DOMAIN ms /\ \A i \in DOMAIN ms : mn[i].amount = ms[i].amount
  BY DEF SameAmounts
<1>3. \A m \in 1..Cardinality(DOMAIN ms) : mn[m - 1].amount = ms[m - 1].amount
  BY <1>1, <1>2
<1>4. QED
  BY <1>2, <1>3 DEF PlanOf

\* A step that keeps amounts and terms.
LEMMA TermsStay ==
  ASSUME RegistryInv, NEW p \in Projects, project[p] # NoProject, TermsKept(p),
         SameAmounts(milestones[p], milestones'[p]), SameTermsIn(vault[p], vault'[p])
  PROVE  TermsKept(p)'
<1>1. PlanOf(milestones'[p]) = PlanOf(milestones[p])
  BY OfProject, SamePlan
<1>2. /\ PlanOf(milestones[p]) \in {input.amounts : input \in ProjectInputs}
      /\ vault[p] # NoVault =>
           /\ vault[p].milestone_amounts = PlanOf(milestones[p])
           /\ vault[p].goal = SumSeq(vault[p].milestone_amounts)
  BY DEF TermsKept
<1>3. vault'[p] # NoVault =>
        /\ vault'[p].milestone_amounts = PlanOf(milestones'[p])
        /\ vault'[p].goal = SumSeq(vault'[p].milestone_amounts)
  BY <1>1, <1>2 DEF SameTermsIn
<1>4. QED
  BY <1>1, <1>2, <1>3 DEF TermsKept

\* A step that touches neither the milestones nor the vault of a project.
LEMMA TermsUntouched ==
  ASSUME NEW p \in Projects, TermsKept(p), project'[p] = project[p],
         milestones'[p] = milestones[p], vault'[p] = vault[p]
  PROVE  TermsKept(p)'
BY DEF TermsKept

\* open_funding hands the escrow the project's own plan.
LEMMA OpenedVault ==
  ASSUME RegistryInv, NEW p \in Projects, OpenFunding(p)
  PROVE  LET w == vault'[p] IN
         /\ vault[p] = NoVault /\ w # NoVault /\ ~w.refundable
         /\ w.milestone_amounts = PlanOf(milestones[p])
         /\ w.goal = SumSeq(w.milestone_amounts)
         /\ w.deposited = 0 /\ w.released = 0 /\ w.refunded_total = 0
         /\ w.next_milestone = 0
         /\ UNCHANGED <<contribution, refund_receipt>>
<1> DEFINE pr == project[p]
<1>1. OpenVault(p, pr.asset, pr.goal, pr.funding_deadline, PlanOf(milestones[p]),
                Policy.max_contribution_bps)
  BY DEF OpenFunding, PlanOf
<1>2. vault \in [Projects -> Vault \cup {NoVault}]
  BY DEF RegistryInv, Books, EscrowInv, EscrowTypeOK
<1>3. /\ vault[p] = NoVault /\ SumSeq(PlanOf(milestones[p])) = pr.goal
      /\ UNCHANGED <<contribution, refund_receipt>>
  BY <1>1 DEF OpenVault
<1>4. /\ vault'[p].milestone_amounts = PlanOf(milestones[p]) /\ vault'[p].goal = pr.goal
      /\ vault'[p].deposited = 0 /\ vault'[p].released = 0
      /\ vault'[p].refunded_total = 0 /\ vault'[p].next_milestone = 0
      /\ ~vault'[p].refundable
  BY <1>1, <1>2 DEF OpenVault
<1>5. vault'[p] # NoVault
  <2>1. project[p] # NoProject /\ EscrowTypeOK
    BY DEF OpenFunding, HasStatus, RegistryInv, Books, EscrowInv
  <2>2. /\ pr.asset \in Assets /\ pr.goal \in Int /\ pr.funding_deadline \in Int
        /\ milestones[p] \in MilestoneLists /\ milestones[p] # <<>>
    BY <2>1, OfProject DEF Project
  <2>3. PlanOf(milestones[p]) \in Seq(Int)
    BY <2>2, PlanOK DEF PlanOf
  <2>4. QED
    BY <1>1, <2>1, <2>2, <2>3, FreshVault
<1>6. QED
  BY <1>3, <1>4, <1>5

\* What every shape but open_funding does to the terms of the vault.
LEMMA ShapesKeepTerms ==
  ASSUME RegistryInv, NEW p \in Projects, Shaped(p)
  PROVE  OpenFunding(p) \/ SameTermsIn(vault[p], vault'[p])
<1>1. CASE Waits(p) \/ Decides(p) \/ Abandons(p) \/ Begins(p)
  <2>1. vault'[p] = vault[p]
    BY <1>1 DEF Waits, Decides, Abandons, Begins, MoneyKept
  <2>2. QED
    BY <2>1 DEF SameTermsIn
<1>2. CASE CallsOff(p)
  BY <1>2, ReturnedVault DEF CallsOff
<1>3. ASSUME NEW c \in Contributors, NEW amount \in AmountInputs, Contribute(p, c, amount)
      PROVE  SameTermsIn(vault[p], vault'[p])
  <2>1. amount \in Int
    BY EscrowAssumption
  <2>2. Deposit(p, c, amount) \/ DepositThenLock(p, c, amount)
    BY <1>3, GivesShape
  <2>3. QED
    BY <2>1, <2>2, RaisedVault
<1>4. ASSUME NEW i \in DOMAIN milestones[p], ReleaseApproved(p, i)
      PROVE  SameTermsIn(vault[p], vault'[p])
  <2>1. ReleaseMilestone(p, i, milestones[p][i].amount) /\ milestones[p][i].amount \in Nat
    BY <1>4, PaysShape, OfProject DEF Milestone
  <2>2. QED
    BY <2>1, PaidVault
<1>5. QED
  BY <1>1, <1>2, <1>3, <1>4 DEF Shaped, Gives, Pays

\* The vaults and the refunds, in the steps that are not a registry call.
LEMMA OtherMoney ==
  ASSUME RegistryInv, RegistryTick \/ AdminStep \/ UNCHANGED vars
                        \/ \E input \in ProjectInputs : CreateProject(input)
  PROVE  MoneyKept
<1>1. CASE RegistryTick
  BY <1>1 DEF RegistryTick, Tick, vault_vars, MoneyKept
<1>2. CASE AdminStep
  <2>1. UNCHANGED <<vault, contribution>>
    BY <1>2, AdminCall
  <2>2. UNCHANGED refund_receipt
    BY <1>2 DEF AdminStep, SetAssetPolicy, SetPauseMode, ProposeGovernor, AcceptGovernor,
                SyncAssetPolicy, EscrowSetPauseMode, EscrowProposeGovernor,
                EscrowAcceptGovernor, vault_vars
  <2>3. QED
    BY <2>1, <2>2 DEF MoneyKept
<1>3. CASE UNCHANGED vars
  BY <1>3 DEF vars, escrow_vars, vault_vars, MoneyKept
<1>4. CASE \E input \in ProjectInputs : CreateProject(input)
  BY <1>4 DEF CreateProject, escrow_vars, vault_vars, MoneyKept
<1>5. QED
  BY <1>1, <1>2, <1>3, <1>4

\* create_project writes down the amounts it was given.
LEMMA CreatesTerms ==
  ASSUME RegistryInv, NEW input \in ProjectInputs, CreateProject(input)
  PROVE  LET p == next_project_id IN
         /\ p \in Projects /\ project[p] = NoProject /\ vault'[p] = NoVault
         /\ \A q \in Projects : q # p => /\ project'[q] = project[q]
                                         /\ milestones'[q] = milestones[q]
         /\ PlanOf(milestones'[p]) = input.amounts
<1> DEFINE p  == next_project_id
           n  == Len(input.amounts)
           mn == [i \in 0..(n - 1) |->
                    NewMilestone(input.amounts[i + 1], input.delivery_windows[i + 1])]
<1>1. /\ p \in Projects /\ milestones' = [milestones EXCEPT ![p] = mn]
      /\ UNCHANGED escrow_vars /\ n \in 2..5
      /\ \E new : project' = [project EXCEPT ![p] = new]
  BY DEF CreateProject, ValidProjectInput
<1>2. input.amounts \in Seq(Int)
  BY RegistryAssumption DEF ProjectInput
<1>3. /\ project \in [Projects -> Project \cup {NoProject}]
      /\ milestones \in [Projects -> MilestoneLists]
  BY DEF RegistryInv, ProjectTypes
<1>4. project[p] = NoProject
  BY <1>1, RegistryAssumption DEF RegistryInv, IdsFresh
<1>5. vault'[p] = NoVault
  <2>1. vault[p] = NoVault
    BY <1>1, <1>4 DEF RegistryInv, ProjectOK
  <2>2. QED
    BY <1>1, <2>1 DEF escrow_vars, vault_vars
<1>6. milestones'[p] = mn
  BY <1>1, <1>3
<1>7. DOMAIN mn = 0..(n - 1) /\ Cardinality(0..(n - 1)) = n
  <2>1. 0 \in Int /\ n - 1 \in Int
    BY <1>1
  <2>2. QED
    BY <1>1, <2>1, FS_Interval
<1>8. \A m \in 1..n : mn[m - 1].amount = input.amounts[m]
  <2>1. ASSUME NEW m \in 1..n PROVE mn[m - 1].amount = input.amounts[m]
    <3>1. m - 1 \in 0..(n - 1) /\ (m - 1) + 1 = m
      BY <1>1
    <3>2. mn[m - 1] = NewMilestone(input.amounts[m], input.delivery_windows[m])
      BY <3>1
    <3>3. QED
      BY <3>2 DEF NewMilestone
  <2>2. QED
    BY <2>1
<1> HIDE DEF mn
<1>9. PlanOf(mn) = [m \in 1..n |-> input.amounts[m]]
  BY <1>7, <1>8 DEF PlanOf
<1>10. PlanOf(mn) = input.amounts
  BY <1>2, <1>9
<1>11. QED
  BY <1>1, <1>3, <1>4, <1>5, <1>6, <1>10

\* The terms are kept by every step.
LEMMA TermsNext ==
  ASSUME RegistryInv, [RegistryNext]_vars, \A p \in Projects : TermsKept(p)
  PROVE  \A p \in Projects : TermsKept(p)'
<1>1. CASE RegistryTick \/ AdminStep \/ UNCHANGED vars
  <2>1. UNCHANGED <<project, milestones>> /\ MoneyKept
    BY <1>1, OtherSteps, OtherMoney
  <2>2. QED
    BY <2>1, TermsUntouched DEF MoneyKept
<1>2. ASSUME NEW input \in ProjectInputs, CreateProject(input)
      PROVE  \A p \in Projects : TermsKept(p)'
  <2>1. MoneyKept
    BY <1>2, OtherMoney
  <2>2. ASSUME NEW p \in Projects, p = next_project_id PROVE TermsKept(p)'
    BY <1>2, <2>2, CreatesTerms DEF TermsKept
  <2>3. ASSUME NEW p \in Projects, p # next_project_id PROVE TermsKept(p)'
    BY <1>2, <2>1, <2>3, CreatesTerms, TermsUntouched DEF MoneyKept
  <2>4. QED
    BY <2>2, <2>3
<1>3. ASSUME NEW q \in Projects, ActorStep(q) \/ PermissionlessStep(q)
      PROVE  \A p \in Projects : TermsKept(p)'
  <2>1. Shaped(q) /\ OthersKept(q) /\ project[q] # NoProject
    BY <1>3, EveryCallIsShaped, CallsExist
  <2>2. SameAmounts(milestones[q], milestones'[q])
    BY <2>1, ShapesKeepAmounts
  <2>3. TermsKept(q)'
    <3>1. CASE OpenFunding(q)
      <4>1. PlanOf(milestones'[q]) = PlanOf(milestones[q])
        BY <2>1, <2>2, OfProject, SamePlan
      <4>2. PlanOf(milestones[q]) \in {input.amounts : input \in ProjectInputs}
        BY <2>1 DEF TermsKept
      <4>3. QED
        BY <3>1, <4>1, <4>2, OpenedVault DEF TermsKept
    <3>2. CASE SameTermsIn(vault[q], vault'[q])
      BY <2>1, <2>2, <3>2, TermsStay
    <3>3. QED
      BY <2>1, <3>1, <3>2, ShapesKeepTerms
  <2>4. \A p \in Projects : p # q => TermsKept(p)'
    BY <2>1, TermsUntouched DEF OthersKept
  <2>5. QED
    BY <2>3, <2>4
<1>4. ASSUME NEW q \in Projects, NEW c \in Contributors, PayRefund(q, c)
      PROVE  \A p \in Projects : TermsKept(p)'
  <2>1. UNCHANGED <<project, milestones>> /\ ClaimRefund(q, c)
    BY <1>4, OtherSteps DEF PayRefund
  <2>2. /\ SameTermsIn(vault[q], vault'[q])
        /\ \A p \in Projects : p # q => vault'[p] = vault[p]
    BY <2>1, ClaimedVault
  <2>3. TermsKept(q)'
    BY <2>1, <2>2 DEF TermsKept, SameTermsIn
  <2>4. \A p \in Projects : p # q => TermsKept(p)'
    BY <2>1, <2>2, TermsUntouched
  <2>5. QED
    BY <2>3, <2>4
<1>5. QED
  BY <1>1, <1>2, <1>3, <1>4 DEF RegistryNext

\* And hold when nobody has proposed anything.
LEMMA AgreementInvariant == RegistrySpec => []AgreementInv
<1>1. RegistryInit => AgreementInv
  <2>1. RegistryInit => \A p \in Projects : TermsKept(p)
    BY DEF RegistryInit, TermsKept
  <2>2. QED
    BY <2>1, RegistryInitInv DEF AgreementInv
<1>2. AgreementInv /\ [RegistryNext]_vars => AgreementInv'
  <2>1. ASSUME RegistryInv, \A p \in Projects : TermsKept(p), [RegistryNext]_vars
        PROVE  RegistryInv' /\ \A p \in Projects : TermsKept(p)'
    BY <2>1, RegistryNextInv, TermsNext
  <2>2. QED
    BY <2>1 DEF AgreementInv
<1>3. QED
  BY <1>1, <1>2, PTL DEF RegistrySpec

-----------------------------------------------------------------------------
(* The agreement's variables.                                               *)

phases  == [p \in Projects |-> Phase(p)]
plans   == [p \in Projects |-> Plan(p)]
paids   == [p \in Projects |-> PaidSoFar(p)]
repaids == [p \in Projects |-> Repaid(p)]
helds   == [p \in Projects |-> Held(p)]

\* What they are of one project, before and after a step.
LEMMA AgreementAt ==
  ASSUME NEW p \in Projects
  PROVE  /\ phases[p] = PhaseOf(project[p], vault[p])
         /\ phases'[p] = PhaseOf(project'[p], vault'[p])
         /\ plans[p] = PlanIn(vault[p]) /\ plans'[p] = PlanIn(vault'[p])
         /\ paids[p] = PaidIn(vault[p]) /\ paids'[p] = PaidIn(vault'[p])
         /\ repaids[p] = RepaidIn(refund_receipt[p])
         /\ repaids'[p] = RepaidIn(refund_receipt'[p])
         /\ helds[p] = HeldBy(vault[p]) /\ helds'[p] = HeldBy(vault'[p])
<1>1. phases[p] = Phase(p) /\ phases'[p] = Phase(p)'
  BY DEF phases
<1>2. plans[p] = Plan(p) /\ plans'[p] = Plan(p)'
  BY DEF plans
<1>3. paids[p] = PaidSoFar(p) /\ paids'[p] = PaidSoFar(p)'
  BY DEF paids
<1>4. repaids[p] = Repaid(p) /\ repaids'[p] = Repaid(p)'
  BY DEF repaids
<1>5. helds[p] = Held(p) /\ helds'[p] = Held(p)'
  BY DEF helds
<1>6. QED
  BY <1>1, <1>2, <1>3, <1>4, <1>5, MappingIs

\* A function that differs at one place.
LEMMA OneChanged ==
  ASSUME NEW S, NEW f, NEW g, f = [q \in S |-> f[q]], g = [q \in S |-> g[q]],
         NEW p \in S, \A q \in S : q # p => g[q] = f[q]
  PROVE  g = [f EXCEPT ![p] = g[p]]
OBVIOUS

\* A call about one project changes them for that one.
LEMMA AgreementMoves ==
  ASSUME NEW p \in Projects, OthersKept(p)
  PROVE  /\ phases' = [phases EXCEPT ![p] = PhaseOf(project'[p], vault'[p])]
         /\ plans' = [plans EXCEPT ![p] = PlanIn(vault'[p])]
         /\ paids' = [paids EXCEPT ![p] = PaidIn(vault'[p])]
         /\ repaids' = [repaids EXCEPT ![p] = RepaidIn(refund_receipt'[p])]
         /\ helds' = [helds EXCEPT ![p] = HeldBy(vault'[p])]
<1>1. \A q \in Projects : q # p =>
        /\ phases'[q] = phases[q] /\ plans'[q] = plans[q] /\ paids'[q] = paids[q]
        /\ repaids'[q] = repaids[q] /\ helds'[q] = helds[q]
  <2>1. ASSUME NEW q \in Projects, q # p
        PROVE  /\ phases'[q] = phases[q] /\ plans'[q] = plans[q] /\ paids'[q] = paids[q]
               /\ repaids'[q] = repaids[q] /\ helds'[q] = helds[q]
    <3>1. /\ project'[q] = project[q] /\ vault'[q] = vault[q]
          /\ refund_receipt'[q] = refund_receipt[q]
      BY <2>1 DEF OthersKept
    <3>2. QED
      BY <3>1, AgreementAt
  <2>2. QED
    BY <2>1
<1>2. phases = [q \in Projects |-> phases[q]] /\ phases' = [q \in Projects |-> phases'[q]]
  BY DEF phases
<1>3. plans = [q \in Projects |-> plans[q]] /\ plans' = [q \in Projects |-> plans'[q]]
  BY DEF plans
<1>4. paids = [q \in Projects |-> paids[q]] /\ paids' = [q \in Projects |-> paids'[q]]
  BY DEF paids
<1>5. repaids = [q \in Projects |-> repaids[q]] /\ repaids' = [q \in Projects |-> repaids'[q]]
  BY DEF repaids
<1>6. helds = [q \in Projects |-> helds[q]] /\ helds' = [q \in Projects |-> helds'[q]]
  BY DEF helds
<1>7. /\ phases' = [phases EXCEPT ![p] = phases'[p]]
      /\ plans' = [plans EXCEPT ![p] = plans'[p]]
      /\ paids' = [paids EXCEPT ![p] = paids'[p]]
      /\ repaids' = [repaids EXCEPT ![p] = repaids'[p]]
      /\ helds' = [helds EXCEPT ![p] = helds'[p]]
  BY <1>1, <1>2, <1>3, <1>4, <1>5, <1>6, OneChanged
<1>8. QED
  BY <1>7, AgreementAt

\* What a step keeps of that project, it keeps.
LEMMA AgreementKeeps ==
  ASSUME NEW p \in Projects, OthersKept(p)
  PROVE  /\ PhaseOf(project'[p], vault'[p]) = phases[p] => phases' = phases
         /\ PlanIn(vault'[p]) = plans[p] => plans' = plans
         /\ PaidIn(vault'[p]) = paids[p] => paids' = paids
         /\ RepaidIn(refund_receipt'[p]) = repaids[p] => repaids' = repaids
         /\ HeldBy(vault'[p]) = helds[p] => helds' = helds
<1>1. PhaseOf(project'[p], vault'[p]) = phases[p] => phases' = phases
  BY AgreementMoves DEF phases
<1>2. PlanIn(vault'[p]) = plans[p] => plans' = plans
  BY AgreementMoves DEF plans
<1>3. PaidIn(vault'[p]) = paids[p] => paids' = paids
  BY AgreementMoves DEF paids
<1>4. RepaidIn(refund_receipt'[p]) = repaids[p] => repaids' = repaids
  BY AgreementMoves DEF repaids
<1>5. HeldBy(vault'[p]) = helds[p] => helds' = helds
  BY AgreementMoves DEF helds
<1>6. QED
  BY <1>1, <1>2, <1>3, <1>4, <1>5

\* The phase of a project by its status.
LEMMA PhaseByStatus ==
  ASSUME NEW pr, NEW v, pr # NoProject, Backed(pr, v)
  PROVE  /\ pr.status = "Draft" => v = NoVault /\ PhaseOf(pr, v) = "proposed"
         /\ pr.status = "Funding" =>
              v # NoVault /\ ~v.refundable /\ PhaseOf(pr, v) = "funding"
         /\ pr.status = "Funded" =>
              v # NoVault /\ ~v.refundable /\ PhaseOf(pr, v) = "funded"
         /\ pr.status \in Running =>
              v # NoVault /\ ~v.refundable /\ PhaseOf(pr, v) = "delivering"
         /\ pr.status = "Completed" =>
              v # NoVault /\ ~v.refundable /\ PhaseOf(pr, v) = "completed"
         /\ v = NoVault => PhaseOf(pr, v) = "proposed"
         /\ v # NoVault /\ v.refundable => PhaseOf(pr, v) = "returning"
<1>1. pr.status \in {"Funding", "Funded", "Completed"} \cup Running =>
        v # NoVault /\ ~v.refundable
  BY DEF Backed, Running
<1>2. pr.status = "Draft" => v = NoVault
  BY DEF Backed
<1>3. QED
  BY <1>1, <1>2, PhasesAre

\* A project and its vault, before and after a call about it.
LEMMA BeforeAndAfter ==
  ASSUME RegistryInv, RegistryInv', NEW p \in Projects, project[p] # NoProject,
         SameAmounts(milestones[p], milestones'[p])
  PROVE  /\ project'[p] # NoProject
         /\ Backed(project[p], vault[p]) /\ Backed(project'[p], vault'[p])
<1>1. project'[p] # NoProject
  BY StillThere
<1>2. ProjectOK(p)'
  BY DEF RegistryInv
<1>3. QED
  BY <1>1, <1>2, OfProject DEF ProjectOK

-----------------------------------------------------------------------------
(* Every call is a step of the agreement, or none.                          *)

\* Ballots, decisions and drafts are none of the agreement's business.
LEMMA QuietRefines ==
  ASSUME RegistryInv, RegistryInv', NEW p \in Projects, project[p] # NoProject, OthersKept(p),
         Waits(p) \/ Decides(p) \/ Abandons(p)
  PROVE  UNCHANGED Agreement!agreement
<1>1. /\ MoneyKept /\ SameAmounts(milestones[p], milestones'[p])
      /\ \/ project[p].status = project'[p].status
         \/ project[p].status \in Running /\ project'[p].status \in Running
         \/ project[p].status = "Draft"
  BY DEF Waits, Stays, Decides, Abandons
<1>2. /\ vault'[p] = vault[p] /\ refund_receipt'[p] = refund_receipt[p]
      /\ UNCHANGED contribution
  BY <1>1 DEF MoneyKept
<1>3. /\ project'[p] # NoProject
      /\ Backed(project[p], vault[p]) /\ Backed(project'[p], vault'[p])
  BY <1>1, BeforeAndAfter
<1>4. PhaseOf(project'[p], vault'[p]) = PhaseOf(project[p], vault[p])
  <2>1. CASE project[p].status = "Draft"
    BY <1>2, <1>3, <2>1, PhaseByStatus
  <2>2. CASE project[p].status # "Draft"
    BY <1>1, <1>2, <1>3, <2>2, SamePhase
  <2>3. QED
    BY <2>1, <2>2
<1>5. UNCHANGED <<phases, plans, paids, repaids, helds>>
  BY <1>2, <1>4, AgreementAt, AgreementKeeps
<1>6. QED
  BY <1>2, <1>5 DEF Agreement!agreement, phases, plans, paids, repaids, helds

\* Calling a project off starts the return.
LEMMA CallsOffRefines ==
  ASSUME RegistryInv, RegistryInv', NEW p \in Projects, project[p] # NoProject, OthersKept(p),
         CallsOff(p)
  PROVE  Agreement!Next
<1>1. /\ project[p].status \in {"Funding", "Funded"} \cup Running
      /\ SameAmounts(milestones[p], milestones'[p]) /\ EnableRefunds(p)
  BY DEF CallsOff
<1>2. /\ project'[p] # NoProject
      /\ Backed(project[p], vault[p]) /\ Backed(project'[p], vault'[p])
  BY <1>1, BeforeAndAfter
<1>3. /\ SameTermsIn(vault[p], vault'[p]) /\ vault[p] # NoVault /\ vault'[p].refundable
      /\ vault'[p].next_milestone = vault[p].next_milestone
      /\ vault'[p].deposited = vault[p].deposited /\ vault'[p].released = vault[p].released
      /\ vault'[p].refunded_total = vault[p].refunded_total
      /\ UNCHANGED <<contribution, refund_receipt>>
  BY <1>1, ReturnedVault
<1>4. phases[p] \in {"funding", "funded", "delivering"}
  BY <1>1, <1>2, PhaseByStatus, AgreementAt
<1>5. phases' = [phases EXCEPT ![p] = "returning"]
  BY <1>2, <1>3, PhaseByStatus, AgreementMoves DEF SameTermsIn
<1>6. UNCHANGED <<plans, paids, repaids, helds>>
  BY <1>3, AgreementAt, AgreementKeeps DEF SameTermsIn, PlanIn, PaidIn, HeldBy
<1>7. Agreement!Return(p)
  BY <1>3, <1>4, <1>5, <1>6 DEF Agreement!Return, phases, plans, paids, repaids, helds
<1>8. QED
  BY <1>7 DEF Agreement!Next

\* Delivery begins with enough contributors, counted once each.
LEMMA BeginsRefines ==
  ASSUME RegistryInv, RegistryInv', NEW p \in Projects, project[p] # NoProject, OthersKept(p),
         Begins(p)
  PROVE  Agreement!Next
<1>1. /\ project[p].status = "Funded" /\ project'[p].status \in Running
      /\ EnoughContributors(project[p]) /\ MoneyKept
      /\ SameAmounts(milestones[p], milestones'[p])
  BY DEF Begins, Running
<1>2. /\ project'[p] # NoProject
      /\ Backed(project[p], vault[p]) /\ Backed(project'[p], vault'[p])
  BY <1>1, BeforeAndAfter
<1>3. phases[p] = "funded" /\ phases' = [phases EXCEPT ![p] = "delivering"]
  BY <1>1, <1>2, PhaseByStatus, AgreementAt, AgreementMoves
<1>4. UNCHANGED <<contribution, plans, paids, repaids, helds>>
  BY <1>1, AgreementAt, AgreementKeeps DEF MoneyKept
<1>5. Cardinality(Givers(contribution[p])) >= Policy.min_contributors
  <2>1. vault[p] # NoVault
    BY <1>1, <1>2, PhaseByStatus
  <2>2. vault[p].contributor_count = Cardinality(Givers(contribution[p]))
    BY <2>1, OfOpenVault DEF RegistryInv, DepositsOK
  <2>3. QED
    BY <1>1, <1>2, <2>1, <2>2 DEF Backed, EnoughContributors
<1>6. Agreement!Cardinality(Agreement!Givers(p)) >= Policy.min_contributors
  <2>1. Agreement!Givers(p) = Givers(contribution[p])
    BY DEF Agreement!Givers, Givers
  <2>2. Agreement!Cardinality(Givers(contribution[p])) = Cardinality(Givers(contribution[p]))
    BY DEF Agreement!Cardinality, Cardinality
  <2>3. QED
    BY <1>5, <2>1, <2>2
<1>7. Agreement!Begin(p)
  BY <1>3, <1>4, <1>6 DEF Agreement!Begin, phases, plans, paids, repaids, helds
<1>8. QED
  BY <1>7 DEF Agreement!Next

\* open_funding opens the agreement with the plan of the project.
LEMMA OpensRefines ==
  ASSUME AgreementInv, RegistryInv', NEW p \in Projects, OthersKept(p), OpenFunding(p)
  PROVE  Agreement!Next
<1>0. RegistryInv /\ TermsKept(p)
  BY DEF AgreementInv
<1>1. /\ project[p] # NoProject /\ project[p].status = "Draft"
      /\ project'[p].status = "Funding"
      /\ SameAmounts(milestones[p], milestones'[p])
  BY <1>0, OpensShape, SameLists
<1>2. /\ project'[p] # NoProject
      /\ Backed(project[p], vault[p]) /\ Backed(project'[p], vault'[p])
  BY <1>0, <1>1, BeforeAndAfter
<1>3. /\ vault[p] = NoVault /\ vault'[p] # NoVault
      /\ vault'[p].milestone_amounts = PlanOf(milestones[p])
      /\ vault'[p].deposited = 0 /\ vault'[p].released = 0 /\ vault'[p].refunded_total = 0
      /\ vault'[p].next_milestone = 0
      /\ UNCHANGED <<contribution, refund_receipt>>
  BY <1>0, OpenedVault
<1>4. phases[p] = "proposed" /\ phases' = [phases EXCEPT ![p] = "funding"]
  BY <1>1, <1>2, PhaseByStatus, AgreementAt, AgreementMoves
<1>5. UNCHANGED <<paids, repaids, helds>>
  BY <1>3, AgreementAt, AgreementKeeps DEF PaidIn, HeldBy
<1>6. PICK amounts \in {input.amounts : input \in ProjectInputs} :
        amounts = PlanOf(milestones[p])
  BY <1>0, <1>1 DEF TermsKept
<1>7. plans' = [plans EXCEPT ![p] = amounts]
  BY <1>3, <1>6, AgreementMoves DEF PlanIn
<1>8. Agreement!Open(p)
  BY <1>3, <1>4, <1>5, <1>7 DEF Agreement!Open, phases, plans, paids, repaids, helds
<1>9. QED
  BY <1>8 DEF Agreement!Next

\* A sum means the same in the agreement.
LEMMA SameSums ==
  ASSUME NEW f
  PROVE  Agreement!SumFunction(f) = SumFunction(f)
BY DEF Agreement!SumFunction, SumFunction, Agreement!SumFunctionOnSet, SumFunctionOnSet,
       Agreement!FoldFunctionOnSet, FoldFunctionOnSet,
       Agreement!MapThenFoldSet, MapThenFoldSet

\* The plan adds up to the goal of the vault.
LEMMA GoalIs ==
  ASSUME NEW p \in Projects, TermsKept(p), project[p] # NoProject, vault[p] # NoVault
  PROVE  Agreement!Goal(p) = vault[p].goal
<1>1. Agreement!Goal(p) = Agreement!SumFunction(plans[p])
  BY DEF Agreement!Goal, plans
<1>2. plans[p] = vault[p].milestone_amounts
  BY AgreementAt DEF PlanIn
<1>3. QED
  BY <1>1, <1>2, SameSums DEF TermsKept, SumSeq

\* Until delivery, nothing leaves the vault: it holds what was deposited.
LEMMA NothingReleased ==
  ASSUME RegistryInv, NEW p \in Projects, project[p] # NoProject,
         project[p].status \in {"Funding", "Funded"}
  PROVE  /\ vault[p] # NoVault /\ vault[p].released = 0 /\ vault[p].refunded_total = 0
         /\ vault[p].next_milestone = 0 /\ vault[p].deposited \in Nat
         /\ HeldBy(vault[p]) = vault[p].deposited
<1> DEFINE v == vault[p]
           paid == release_receipt[p]
<1>1. Backed(project[p], v) /\ Staged(project[p], milestones[p])
  BY OfProject
<1>2. v # NoVault /\ ~v.refundable /\ v.next_milestone = 0
  <2>1. PaidCount(project[p]) = 0
    BY <1>1 DEF Staged, PaidCount, BeforeDelivery
  <2>2. QED
    BY <1>1, <2>1 DEF Backed
<1>3. v \in Vault /\ VaultOK(v) /\ ReleasesOK(v, paid)
  BY <1>2, OfOpenVault DEF RegistryInv
<1>4. \A m \in 0..4 : paid[m] = 0
  BY <1>2, <1>3 DEF ReleasesOK
<1>5. v.released = 0
  <2>1. IsFiniteSet(0..4)
    <3>1. 0 \in Int /\ 4 \in Int
      OBVIOUS
    <3>2. QED
      BY <3>1, FS_Interval
  <2>2. QED
    BY <1>3, <1>4, <2>1, SumOfZeros DEF ReleasesOK
<1>6. v.refunded_total = 0 /\ v.deposited \in Nat
  BY <1>2, <1>3 DEF VaultOK, Vault
<1>7. QED
  BY <1>2, <1>5, <1>6 DEF HeldBy

\* A contribution is a gift, and the one that meets the goal closes the funding.
LEMMA GivesRefines ==
  ASSUME AgreementInv, RegistryInv', NEW p \in Projects, OthersKept(p),
         NEW c \in Contributors, NEW amount \in AmountInputs, Contribute(p, c, amount)
  PROVE  Agreement!Next
<1> DEFINE v == vault[p]
           w == vault'[p]
<1>0. RegistryInv /\ TermsKept(p) /\ amount \in Int
  BY EscrowAssumption DEF AgreementInv
<1>1. /\ project[p] # NoProject /\ project[p].status = "Funding"
      /\ SameAmounts(milestones[p], milestones'[p])
      /\ \/ project'[p].status = "Funding" /\ v.deposited + amount # project[p].goal
         \/ project'[p].status = "Funded" /\ v.deposited + amount = project[p].goal
      /\ Deposit(p, c, amount) \/ DepositThenLock(p, c, amount)
  BY <1>0, GivesShape, SameLists
<1>2. /\ project'[p] # NoProject /\ Backed(project[p], v) /\ Backed(project'[p], w)
  BY <1>0, <1>1, BeforeAndAfter
<1>3. /\ SameTermsIn(v, w) /\ v # NoVault
      /\ w.next_milestone = v.next_milestone /\ w.deposited = v.deposited + amount
      /\ w.released = v.released /\ w.refunded_total = v.refunded_total
      /\ amount > 0 /\ v.deposited + amount <= v.goal
      /\ contribution' = [contribution EXCEPT ![p][c] = @ + amount]
      /\ UNCHANGED refund_receipt
  BY <1>0, <1>1, RaisedVault
<1>4. /\ v.released = 0 /\ v.refunded_total = 0 /\ v.deposited \in Nat
      /\ HeldBy(v) = v.deposited
  BY <1>0, <1>1, NothingReleased
<1>5. HeldBy(w) = v.deposited + amount
  BY <1>0, <1>3, <1>4 DEF HeldBy, SameTermsIn
<1>6. Agreement!Goal(p) = v.goal /\ v.goal = project[p].goal
  BY <1>0, <1>1, <1>2, <1>3, GoalIs DEF Backed
<1>7. UNCHANGED <<plans, paids, repaids>>
  BY <1>3, AgreementAt, AgreementKeeps DEF SameTermsIn, PlanIn, PaidIn
<1>8. helds[p] = v.deposited /\ helds' = [helds EXCEPT ![p] = @ + amount]
      /\ helds'[p] = v.deposited + amount
  BY <1>4, <1>5, AgreementAt, AgreementMoves
<1>9. phases[p] = "funding"
  BY <1>1, <1>2, PhaseByStatus, AgreementAt
<1>10. phases' = [phases EXCEPT ![p] = IF helds'[p] = Agreement!Goal(p) THEN "funded" ELSE @]
  <2>1. CASE helds'[p] = Agreement!Goal(p)
    <3>1. project'[p].status = "Funded"
      BY <1>1, <1>6, <1>8, <2>1
    <3>2. PhaseOf(project'[p], w) = "funded"
      BY <1>2, <3>1, PhaseByStatus
    <3>3. QED
      BY <2>1, <3>2, AgreementMoves
  <2>2. CASE helds'[p] # Agreement!Goal(p)
    <3>1. project'[p].status = "Funding"
      BY <1>1, <1>6, <1>8, <2>2
    <3>2. PhaseOf(project'[p], w) = "funding"
      BY <1>2, <3>1, PhaseByStatus
    <3>3. QED
      BY <1>9, <2>2, <3>2, AgreementMoves
  <2>3. QED
    BY <2>1, <2>2
<1>11. contribution'[p][c] - contribution[p][c] = amount
  <2>1. contribution \in [Projects -> [Contributors -> Nat]]
    BY <1>0 DEF RegistryInv, Books, EscrowInv, EscrowTypeOK
  <2>2. contribution'[p][c] = contribution[p][c] + amount /\ contribution[p][c] \in Nat
    BY <1>3, <2>1
  <2>3. QED
    BY <1>0, <2>2
<1>12. helds[p] + amount <= Agreement!Goal(p)
  BY <1>3, <1>6, <1>8
<1>13. Agreement!Give(p, c, contribution'[p][c] - contribution[p][c])
  BY <1>3, <1>7, <1>8, <1>9, <1>10, <1>11, <1>12
     DEF Agreement!Give, phases, plans, paids, repaids, helds
<1>14. QED
  BY <1>13 DEF Agreement!Next

\* release_milestone pays the next milestone, its planned amount.
LEMMA PaysRefines ==
  ASSUME AgreementInv, RegistryInv', NEW p \in Projects, OthersKept(p),
         NEW i \in DOMAIN milestones[p], ReleaseApproved(p, i)
  PROVE  Agreement!Next
<1> DEFINE v == vault[p]
           w == vault'[p]
           ms == milestones[p]
           n == Cardinality(DOMAIN ms)
           amount == ms[i].amount
<1>0. RegistryInv /\ TermsKept(p)
  BY DEF AgreementInv
<1>1. /\ project[p] # NoProject /\ project[p].status = "Active"
      /\ SameAmounts(ms, milestones'[p]) /\ ReleaseMilestone(p, i, amount)
      /\ \/ i + 1 \notin DOMAIN ms /\ project'[p].status = "Completed"
         \/ i + 1 \in DOMAIN ms /\ project'[p].status = "Active"
  BY <1>0, PaysShape
<1>2. /\ project'[p] # NoProject /\ Backed(project[p], v) /\ Backed(project'[p], w)
  BY <1>0, <1>1, BeforeAndAfter
<1>3. /\ n \in 2..5 /\ DOMAIN ms = 0..(n - 1) /\ amount \in Nat
  BY <1>0, <1>1, OfProject, ListIndices DEF Milestone
<1>4. /\ SameTermsIn(v, w) /\ v \in Vault /\ v # NoVault
      /\ i = v.next_milestone /\ amount = v.milestone_amounts[i + 1]
      /\ w.next_milestone = v.next_milestone + 1 /\ w.deposited = v.deposited
      /\ w.released = v.released + amount /\ w.refunded_total = v.refunded_total
      /\ UNCHANGED <<contribution, refund_receipt>>
  BY <1>0, <1>1, <1>3, PaidVault
<1>5. plans[p] = v.milestone_amounts /\ Len(plans[p]) = n
  <2>1. plans[p] = v.milestone_amounts /\ v.milestone_amounts = PlanOf(ms)
    BY <1>0, <1>1, <1>4, AgreementAt DEF PlanIn, TermsKept
  <2>2. v.milestone_amounts \in Seq(Int)
    BY <1>4 DEF Vault
  <2>3. DOMAIN v.milestone_amounts = 1..n
    BY <2>1 DEF PlanOf
  <2>4. n \in Nat
    BY <1>3
  <2>5. QED
    BY <2>1, <2>2, <2>3, <2>4
<1>6. paids[p] = i /\ paids' = [paids EXCEPT ![p] = @ + 1] /\ paids'[p] = i + 1
  BY <1>4, AgreementAt, AgreementMoves DEF PaidIn, SameTermsIn
<1>7. helds' = [helds EXCEPT ![p] = @ - plans[p][paids[p] + 1]]
  <2>1. /\ v.deposited \in Int /\ v.released \in Int /\ v.refunded_total \in Int
    BY <1>4 DEF Vault
  <2>2. HeldBy(w) = HeldBy(v) - amount
    BY <1>3, <1>4, <2>1 DEF HeldBy, SameTermsIn
  <2>3. amount = plans[p][paids[p] + 1]
    BY <1>4, <1>5, <1>6
  <2>4. QED
    BY <2>2, <2>3, AgreementAt, AgreementMoves
<1>8. UNCHANGED <<plans, repaids>>
  BY <1>4, AgreementAt, AgreementKeeps DEF SameTermsIn, PlanIn
<1>9. phases[p] = "delivering"
  BY <1>1, <1>2, PhaseByStatus, AgreementAt DEF Running
<1>10. phases' = [phases EXCEPT ![p] = IF paids'[p] = Len(plans[p]) THEN "completed" ELSE @]
  <2>1. i + 1 \notin DOMAIN ms <=> i + 1 = n
    BY <1>3
  <2>2. CASE i + 1 = n
    <3>1. PhaseOf(project'[p], w) = "completed"
      BY <1>1, <1>2, <2>1, <2>2, PhaseByStatus
    <3>2. QED
      BY <1>5, <1>6, <2>2, <3>1, AgreementMoves
  <2>3. CASE i + 1 # n
    <3>1. PhaseOf(project'[p], w) = "delivering"
      BY <1>1, <1>2, <2>1, <2>3, PhaseByStatus DEF Running
    <3>2. phases' = [phases EXCEPT ![p] = phases[p]]
      BY <1>9, <3>1, AgreementMoves
    <3>3. paids'[p] # Len(plans[p])
      BY <1>5, <1>6, <2>3
    <3>4. QED
      BY <3>2, <3>3
  <2>4. QED
    BY <2>2, <2>3
<1>11. Agreement!Pay(p)
  BY <1>4, <1>6, <1>7, <1>8, <1>9, <1>10
     DEF Agreement!Pay, phases, plans, paids, repaids, helds
<1>12. QED
  BY <1>11 DEF Agreement!Next

\* claim_refund: one share back, and to the last claimant all there is left.
LEMMA RepaysRefines ==
  ASSUME RegistryInv, RegistryInv', NEW p \in Projects, NEW c \in Contributors, PayRefund(p, c)
  PROVE  Agreement!Next
<1> DEFINE v == vault[p]
           w == vault'[p]
           given == contribution[p]
           back == refund_receipt[p]
           more == refund_receipt'[p]
           amount == RefundAmount(v, given[c])
<1>1. ClaimRefund(p, c) /\ UNCHANGED <<project, milestones>>
  BY OtherSteps DEF PayRefund
<1>2. /\ SameTermsIn(v, w) /\ v \in Vault /\ v # NoVault /\ v.refundable /\ w.refundable
      /\ w \in Vault /\ VaultOK(w) /\ VaultOK(v)
      /\ amount \in Nat /\ back[c] = None /\ given[c] > 0
      /\ w.next_milestone = v.next_milestone /\ w.deposited = v.deposited
      /\ w.released = v.released /\ w.refunded_total = v.refunded_total + amount
      /\ refund_receipt' = [refund_receipt EXCEPT ![p][c] = amount]
      /\ UNCHANGED contribution
      /\ \A q \in Projects : q # p => vault'[q] = vault[q]
  BY <1>1, ClaimedVault
<1>3. /\ refund_receipt \in [Projects -> [Contributors -> Nat \cup {None}]]
      /\ contribution \in [Projects -> [Contributors -> Nat]]
  BY DEF RegistryInv, Books, EscrowInv, EscrowTypeOK
<1>4. /\ more = [back EXCEPT ![c] = amount]
      /\ \A q \in Projects : q # p => refund_receipt'[q] = refund_receipt[q]
  BY <1>2, <1>3
<1> HIDE DEF amount
<1>5. OthersKept(p)
  BY <1>1, <1>2, <1>4 DEF OthersKept
<1>6. RepaidIn(more) = RepaidIn(back) \cup {c}
  <2>1. amount # None
    BY <1>2, NoneAssumption
  <2>2. more[c] = amount /\ \A d \in Contributors : d # c => more[d] = back[d]
    BY <1>3, <1>4
  <2>3. QED
    BY <2>1, <2>2 DEF RepaidIn
<1>7. repaids' = [repaids EXCEPT ![p] = @ \cup {c}] /\ repaids'[p] = RepaidIn(more)
      /\ repaids[p] = RepaidIn(back)
  BY <1>5, <1>6, AgreementAt, AgreementMoves
<1>8. /\ HeldBy(v) \in Nat /\ HeldBy(w) = w.remaining_pool
      /\ HeldBy(w) = HeldBy(v) - amount /\ amount \in 0..HeldBy(v)
  <2>1. /\ v.deposited \in Nat /\ v.released \in Nat /\ v.refunded_total \in Nat
        /\ v.remaining_pool \in Nat /\ w.remaining_pool \in Nat
    BY <1>2 DEF Vault
  <2>2. /\ v.released + v.refunded_total + v.remaining_pool = v.deposited
        /\ v.released + (v.refunded_total + amount) + w.remaining_pool = v.deposited
    BY <1>2 DEF VaultOK
  <2>3. /\ HeldBy(v) = v.deposited - v.released - v.refunded_total
        /\ HeldBy(w) = v.deposited - v.released - (v.refunded_total + amount)
    BY <1>2 DEF HeldBy, SameTermsIn
  <2>4. QED
    BY <1>2, <2>1, <2>2, <2>3
<1>9. helds[p] = HeldBy(v) /\ helds'[p] = HeldBy(w)
      /\ helds' = [helds EXCEPT ![p] = @ - amount]
  BY <1>5, <1>8, AgreementAt, AgreementMoves
<1>10. ASSUME Givers(given) \subseteq repaids'[p]
       PROVE  helds'[p] = 0
  <2>1. w # NoVault
    BY <1>2, EscrowAssumption
  <2>2. RefundsOK(w, contribution'[p], more)
    <3>1. BooksOK(p)'
      BY DEF RegistryInv, Books
    <3>2. QED
      BY <2>1, <3>1 DEF BooksOK
  <2>3. w.remaining_shares = SumFunctionOnSet(given, Open(more))
    BY <1>2, <2>2 DEF RefundsOK
  <2>4. \A d \in Open(more) : given[d] = 0
    <3>1. \A d \in Contributors : given[d] \in Nat
      BY <1>3
    <3>2. \A d \in Open(more) : d \in Contributors /\ d \notin Givers(given)
      BY <1>7, <1>10 DEF Open, RepaidIn
    <3>3. QED
      BY <3>1, <3>2 DEF Givers
  <2>5. IsFiniteSet(Open(more))
    BY EscrowAssumption, FS_Subset DEF Open
  <2>6. w.remaining_shares = 0
    BY <2>3, <2>4, <2>5, SumOfZeros
  <2>7. w.remaining_pool = 0
    BY <1>2, <2>6 DEF VaultOK
  <2>8. QED
    BY <1>8, <1>9, <2>7
<1>11. project[p] # NoProject /\ Backed(project[p], v)
  <2>1. project[p] # NoProject
    BY <1>2 DEF RegistryInv, ProjectOK
  <2>2. QED
    BY <2>1, OfProject
<1>12. Backed(project[p], w) /\ w # NoVault
  <2>1. ProjectOK(p)'
    BY DEF RegistryInv
  <2>2. QED
    BY <1>1, <1>2, <1>11, <2>1, EscrowAssumption DEF ProjectOK
<1>13. phases[p] = "returning" /\ UNCHANGED phases
  <2>1. PhaseOf(project[p], v) = "returning" /\ PhaseOf(project[p], w) = "returning"
    BY <1>2, <1>11, <1>12, PhaseByStatus
  <2>2. QED
    BY <1>1, <1>5, <2>1, AgreementAt, AgreementKeeps
<1>14. UNCHANGED <<plans, paids>>
  BY <1>2, <1>5, AgreementAt, AgreementKeeps DEF SameTermsIn, PlanIn, PaidIn
<1>15. Agreement!Givers(p) = Givers(given) /\ c \in Givers(given) \ repaids[p]
  BY <1>2, <1>7 DEF Agreement!Givers, Givers, RepaidIn
<1>16. \E share \in 0..helds[p] : helds' = [helds EXCEPT ![p] = @ - share]
  BY <1>8, <1>9
<1>17. Givers(given) \subseteq repaids'[p] => helds'[p] = 0
  BY <1>10
<1>18. Agreement!Repay(p, c)
  BY <1>2, <1>7, <1>13, <1>14, <1>15, <1>16, <1>17
     DEF Agreement!Repay, phases, plans, paids, repaids, helds
<1>19. QED
  BY <1>18 DEF Agreement!Next

\* What has nothing to do with a project's money or its status.
LEMMA OtherStepsRefine ==
  ASSUME RegistryInv, RegistryTick \/ AdminStep \/ UNCHANGED vars
  PROVE  UNCHANGED Agreement!agreement
<1>1. UNCHANGED <<project, milestones>> /\ MoneyKept
  BY OtherSteps, OtherMoney
<1>2. \A q \in Projects :
        /\ Phase(q)' = Phase(q) /\ Plan(q)' = Plan(q) /\ PaidSoFar(q)' = PaidSoFar(q)
        /\ Repaid(q)' = Repaid(q) /\ Held(q)' = Held(q)
  BY <1>1, MappingIs DEF MoneyKept
<1>3. QED
  BY <1>1, <1>2 DEF Agreement!agreement, MoneyKept

\* create_project makes a proposal, and nothing is agreed on yet.
LEMMA CreatesRefines ==
  ASSUME RegistryInv, RegistryInv', NEW input \in ProjectInputs, CreateProject(input)
  PROVE  UNCHANGED Agreement!agreement
<1>1. MoneyKept
  BY OtherMoney
<1>2. ASSUME NEW q \in Projects
      PROVE  /\ Phase(q)' = Phase(q) /\ Plan(q)' = Plan(q) /\ PaidSoFar(q)' = PaidSoFar(q)
             /\ Repaid(q)' = Repaid(q) /\ Held(q)' = Held(q)
  <2>1. vault'[q] = vault[q] /\ refund_receipt'[q] = refund_receipt[q]
    BY <1>1 DEF MoneyKept
  <2>2. project'[q] = project[q] \/ vault[q] = NoVault
    BY <2>1, CreatesTerms
  <2>3. PhaseOf(project'[q], vault'[q]) = PhaseOf(project[q], vault[q])
    <3>1. CASE vault[q] = NoVault
      <4>1. \A pr \in {project[q], project'[q]} : pr # NoProject => Backed(pr, NoVault)
        BY <2>1, <3>1 DEF RegistryInv, ProjectOK
      <4>2. QED
        BY <2>1, <3>1, <4>1, PhasesAre
    <3>2. CASE project'[q] = project[q]
      BY <2>1, <3>2
    <3>3. QED
      BY <2>2, <3>1, <3>2
  <2>4. QED
    BY <2>1, <2>3, MappingIs
<1>3. QED
  BY <1>1, <1>2 DEF Agreement!agreement, MoneyKept

\* Every step of the contracts is a step of the agreement or leaves it alone.
LEMMA StepRefines ==
  ASSUME AgreementInv, AgreementInv', [RegistryNext]_vars
  PROVE  [Agreement!Next]_(Agreement!agreement)
<1>0. RegistryInv /\ RegistryInv'
  BY DEF AgreementInv
<1>1. CASE RegistryTick \/ AdminStep \/ UNCHANGED vars
  BY <1>0, <1>1, OtherStepsRefine
<1>2. CASE \E input \in ProjectInputs : CreateProject(input)
  BY <1>0, <1>2, CreatesRefines
<1>3. ASSUME NEW p \in Projects, ActorStep(p) \/ PermissionlessStep(p)
      PROVE  [Agreement!Next]_(Agreement!agreement)
  <2>1. Shaped(p) /\ OthersKept(p) /\ project[p] # NoProject
    BY <1>0, <1>3, EveryCallIsShaped, CallsExist
  <2>2. CASE Waits(p) \/ Decides(p) \/ Abandons(p)
    BY <1>0, <2>1, <2>2, QuietRefines
  <2>3. CASE CallsOff(p)
    BY <1>0, <2>1, <2>3, CallsOffRefines
  <2>4. CASE Begins(p)
    BY <1>0, <2>1, <2>4, BeginsRefines
  <2>5. CASE OpenFunding(p)
    BY <1>0, <2>1, <2>5, OpensRefines
  <2>6. CASE Gives(p)
    BY <1>0, <2>1, <2>6, GivesRefines DEF Gives
  <2>7. CASE Pays(p)
    BY <1>0, <2>1, <2>7, PaysRefines DEF Pays
  <2>8. QED
    BY <2>1, <2>2, <2>3, <2>4, <2>5, <2>6, <2>7 DEF Shaped
<1>4. CASE \E p \in Projects, c \in Contributors : PayRefund(p, c)
  BY <1>0, <1>4, RepaysRefines
<1>5. QED
  BY <1>1, <1>2, <1>3, <1>4 DEF RegistryNext

\* Nothing is agreed on at the start.
LEMMA InitRefines == RegistryInit => Agreement!Init
<1> SUFFICES ASSUME RegistryInit PROVE Agreement!Init
  OBVIOUS
<1>1. /\ contribution = [p \in Projects |-> [c \in Contributors |-> 0]]
      /\ \A p \in Projects : /\ vault[p] = NoVault
                             /\ refund_receipt[p] = [c \in Contributors |-> None]
  BY DEF RegistryInit, EscrowInit
<1>2. \A p \in Projects : /\ Plan(p) = <<>> /\ PaidSoFar(p) = 0 /\ Held(p) = 0
                          /\ Repaid(p) = {}
  BY <1>1 DEF Plan, PaidSoFar, Held, Repaid
<1>3. \A p \in Projects : Phase(p) = "proposed"
  BY <1>1, PhasesAre, MappingIs DEF RegistryInit
<1>4. QED
  BY <1>1, <1>2, <1>3 DEF Agreement!Init

(***************************************************************************)
(* For every set of projects, contributors, assets and plans, the registry *)
(* and the escrow together implement the agreement: what a funded project  *)
(* is paid, and what goes back to its givers when it is called off, is     *)
(* what the agreement says, whatever the order of calls, timeouts and      *)
(* pauses.                                                                 *)
(***************************************************************************)
THEOREM ContractsImplementAgreement == RegistrySpec => ImplementsAgreement
<1>1. AgreementInv /\ AgreementInv' /\ [RegistryNext]_vars
        => [Agreement!Next]_(Agreement!agreement)
  BY StepRefines
<1>2. QED
  BY <1>1, InitRefines, AgreementInvariant, PTL
     DEF RegistrySpec, ImplementsAgreement, Agreement!Spec

-----------------------------------------------------------------------------
(* The page of a project.  First what it offers, then that nothing else     *)
(* can be done.                                                             *)

Offered(p) == \E a \in Wallets : \E label \in Buttons(p, a) : Sends(p, a, label)

LEMMA OfferedBy ==
  ASSUME NEW p, NEW a \in Wallets, NEW label \in Buttons(p, a), Sends(p, a, label)
  PROVE  Offered(p)
BY DEF Offered

\* The buttons by the status in the contract.
LEMMA ButtonsByStatus ==
  ASSUME NEW p, NEW a
  PROVE  /\ project[p].status = "Draft" => DraftButtons(p, a) \subseteq Buttons(p, a)
         /\ project[p].status = "Funding" => FundingButtons(p, a) \subseteq Buttons(p, a)
         /\ project[p].status = "Funded" => "Activate project" \in Buttons(p, a)
         /\ project[p].status = "Active" => ActiveButtons(p, a) \subseteq Buttons(p, a)
         /\ project[p].status = "Disputed" => DisputeButtons(p, a) \subseteq Buttons(p, a)
         /\ project[p].status \in {"Active", "Disputed"} =>
              "Apply project deadline" \in Buttons(p, a)
         /\ vault[p] # NoVault /\ vault[p].refundable =>
              "Claim project refund" \in Buttons(p, a)
<1>1. View(p).status = normalizeProjectStatus(project[p].status)
      /\ View(p).refundable = (vault[p] # NoVault /\ vault[p].refundable)
  BY DEF View
<1>2. /\ normalizeProjectStatus("Draft") = "draft"
      /\ normalizeProjectStatus("Funding") = "funding"
      /\ normalizeProjectStatus("Funded") = "funded"
      /\ normalizeProjectStatus("Active") = "active"
      /\ normalizeProjectStatus("Disputed") = "disputed"
  BY DEF normalizeProjectStatus
<1>3. QED
  BY <1>1, <1>2 DEF Buttons, Only, RefundOffered

\* What the page shows of the current milestone.
LEMMA MilestoneShown ==
  ASSUME NEW p
  PROVE  LET m == milestones[p][Current(p)]
             shown == View(p).milestone
         IN /\ shown.index = Current(p) /\ shown.attempt = m.attempt
            /\ shown.status = normalizeMilestoneStatus(m.status)
            /\ shown.status # "pending" => shown.evidence = receipts[p].evidence
BY DEF View

LEMMA MilestoneNames ==
  /\ normalizeMilestoneStatus("Pending") = "pending"
  /\ normalizeMilestoneStatus("EvidenceSubmitted") = "evidence_submitted"
  /\ normalizeMilestoneStatus("UnderReview") = "under_review"
  /\ normalizeMilestoneStatus("Verified") = "verified"
  /\ normalizeMilestoneStatus("Voting") = "voting"
  /\ normalizeMilestoneStatus("Approved") = "approved"
  /\ normalizeMilestoneStatus("Rejected") = "rejected"
BY DEF normalizeMilestoneStatus

\* The buttons of an active project by the stage of its current milestone.
LEMMA ActiveByStage ==
  ASSUME NEW p, NEW a
  PROVE  LET m == milestones[p][Current(p)]
             filed == receipts[p].evidence # None
         IN
         /\ m.status = "Pending" /\ a = project[p].creator =>
              "Anchor evidence hash" \in ActiveButtons(p, a)
         /\ m.status = "EvidenceSubmitted" => "Open evidence review" \in ActiveButtons(p, a)
         /\ m.status = "UnderReview" => "Finalize evidence review" \in ActiveButtons(p, a)
         /\ m.status = "UnderReview" /\ a \in project[p].reviewers /\ filed =>
              {"Verify milestone evidence", "Reject milestone evidence"}
                \subseteq ActiveButtons(p, a)
         /\ m.status = "Verified" => "Open contributor voting" \in ActiveButtons(p, a)
         /\ m.status = "Voting" /\ filed =>
              {"Approve milestone", "Dispute milestone", "Finalize contributor vote"}
                \subseteq ActiveButtons(p, a)
         /\ m.status = "Approved" => "Release milestone payout" \in ActiveButtons(p, a)
         /\ m.status = "Rejected" /\ a = project[p].creator =>
              "Start evidence rework" \in ActiveButtons(p, a)
<1> PICK shown : shown = View(p).milestone
  OBVIOUS
<1>1. LET m == milestones[p][Current(p)] IN
      /\ shown.status = normalizeMilestoneStatus(m.status)
      /\ shown.status # "pending" => shown.evidence = receipts[p].evidence
  BY MilestoneShown
<1> PICK m : m = milestones[p][Current(p)]
  OBVIOUS
<1>2. shown.status = "pending" => ActiveButtons(p, a) = Only(a = project[p].creator, {"Anchor evidence hash"})
  BY DEF ActiveButtons
<1>3. shown.status = "evidence_submitted" => ActiveButtons(p, a) = {"Open evidence review"}
  BY DEF ActiveButtons
<1>4. shown.status = "under_review" =>
        ActiveButtons(p, a) = Only(a \in project[p].reviewers /\ shown.evidence # None,
                                   {"Verify milestone evidence", "Reject milestone evidence"})
                                \cup {"Finalize evidence review"}
  BY DEF ActiveButtons
<1>5. shown.status = "verified" => ActiveButtons(p, a) = {"Open contributor voting"}
  BY DEF ActiveButtons
<1>6. shown.status = "voting" =>
        ActiveButtons(p, a) = Only(shown.evidence # None,
          {"Approve milestone", "Dispute milestone", "Finalize contributor vote"})
  BY DEF ActiveButtons
<1>7. shown.status = "approved" => ActiveButtons(p, a) = {"Release milestone payout"}
  BY DEF ActiveButtons
<1>8. shown.status = "rejected" =>
        ActiveButtons(p, a) = Only(a = project[p].creator, {"Start evidence rework"})
  BY DEF ActiveButtons
<1> HIDE DEF ActiveButtons
<1>9. QED
  BY <1>1, <1>2, <1>3, <1>4, <1>5, <1>6, <1>7, <1>8, MilestoneNames DEF Only

\* Somebody is there to click.
LEMMA CreatorIsThere ==
  ASSUME RegistryInv, NEW p \in Projects, project[p] # NoProject
  PROVE  project[p].creator \in Wallets
BY OfProject DEF Project

\* Calls about a draft.
LEMMA DraftOffered ==
  ASSUME RegistryInv, NEW p \in Projects,
         \/ \E metadata \in MetadataInputs : UpdateDraft(p, metadata)
         \/ \E role \in {"reviewers", "arbitrators"}, w \in Wallets : AcceptRole(p, role, w)
         \/ OpenFunding(p) \/ CancelProject(p)
  PROVE  DraftEdited(p) \/ Offered(p)
<1>1. CASE \E metadata \in MetadataInputs : UpdateDraft(p, metadata)
  BY <1>1 DEF DraftEdited
<1>2. ASSUME NEW w \in Wallets, AcceptRole(p, "reviewers", w)
      PROVE  Offered(p)
  <2>1. project[p].status = "Draft" /\ w \in project[p].reviewers
    BY <1>2 DEF AcceptRole, HasStatus
  <2>2. "Accept reviewer assignment" \in Buttons(p, w)
    BY <2>1, ButtonsByStatus DEF DraftButtons, Only
  <2>3. Sends(p, w, "Accept reviewer assignment")
    BY <1>2 DEF Sends, SendsFunding
  <2>4. QED
    BY <2>2, <2>3, OfferedBy
<1>3. ASSUME NEW w \in Wallets, AcceptRole(p, "arbitrators", w)
      PROVE  Offered(p)
  <2>1. project[p].status = "Draft" /\ w \in project[p].arbitrators
    BY <1>3 DEF AcceptRole, HasStatus
  <2>2. "Accept arbitrator assignment" \in Buttons(p, w)
    BY <2>1, ButtonsByStatus DEF DraftButtons, Only
  <2>3. Sends(p, w, "Accept arbitrator assignment")
    BY <1>3 DEF Sends, SendsFunding
  <2>4. QED
    BY <2>2, <2>3, OfferedBy
<1>4. CASE OpenFunding(p)
  <2>1. project[p] # NoProject /\ project[p].status = "Draft"
    BY <1>4 DEF OpenFunding, HasStatus
  <2> PICK a \in Wallets : a = project[p].creator
    BY <2>1, CreatorIsThere
  <2>2. "Open project funding" \in Buttons(p, a)
    BY <2>1, ButtonsByStatus DEF DraftButtons, Only
  <2>3. Sends(p, a, "Open project funding")
    BY <1>4 DEF Sends, SendsFunding
  <2>4. QED
    BY <2>2, <2>3, OfferedBy
<1>5. CASE CancelProject(p)
  <2>1. CASE HasStatus(p, "Draft")
    BY <1>5, <2>1 DEF DraftEdited
  <2>2. CASE HasStatus(p, "Funding")
    <3>1. project[p] # NoProject /\ project[p].status = "Funding"
      BY <2>2 DEF HasStatus
    <3> PICK a \in Wallets : a = project[p].creator
      BY <3>1, CreatorIsThere
    <3>2. "Cancel project" \in Buttons(p, a)
      BY <3>1, ButtonsByStatus DEF FundingButtons, Only
    <3>3. Sends(p, a, "Cancel project")
      BY <1>5 DEF Sends, SendsFunding
    <3>4. QED
      BY <3>2, <3>3, OfferedBy
  <2>3. QED
    BY <1>5, <2>1, <2>2 DEF CancelProject
<1>6. QED
  BY <1>1, <1>2, <1>3, <1>4, <1>5

\* Calls that raise the money, and start with it.
LEMMA FundingOffered ==
  ASSUME RegistryInv, NEW p \in Projects,
         \/ \E c \in Contributors, amount \in AmountInputs : Contribute(p, c, amount)
         \/ FinalizeFunding(p) \/ ActivateProject(p)
  PROVE  Offered(p)
<1>1. ASSUME NEW c \in Contributors, NEW amount \in AmountInputs, Contribute(p, c, amount)
      PROVE  Offered(p)
  <2>1. project[p].status = "Funding" /\ c \in Wallets
    BY <1>1, RegistryAssumption DEF Contribute, HasStatus
  <2>2. "Contribute Testnet XLM" \in Buttons(p, c)
    BY <2>1, ButtonsByStatus DEF FundingButtons
  <2>3. Sends(p, c, "Contribute Testnet XLM")
    BY <1>1 DEF Sends, SendsFunding
  <2>4. QED
    BY <2>1, <2>2, <2>3, OfferedBy
<1>2. CASE FinalizeFunding(p)
  <2>1. project[p] # NoProject /\ project[p].status = "Funding"
    BY <1>2 DEF FinalizeFunding, HasStatus
  <2> PICK a \in Wallets : a = project[p].creator
    BY <2>1, CreatorIsThere
  <2>2. "Finalize project funding" \in Buttons(p, a)
    BY <2>1, ButtonsByStatus DEF FundingButtons
  <2>3. Sends(p, a, "Finalize project funding")
    BY <1>2 DEF Sends, SendsFunding
  <2>4. QED
    BY <2>2, <2>3, OfferedBy
<1>3. CASE ActivateProject(p)
  <2>1. project[p] # NoProject /\ project[p].status = "Funded"
    BY <1>3 DEF ActivateProject, HasStatus
  <2> PICK a \in Wallets : a = project[p].creator
    BY <2>1, CreatorIsThere
  <2>2. "Activate project" \in Buttons(p, a)
    BY <2>1, ButtonsByStatus
  <2>3. Sends(p, a, "Activate project")
    BY <1>3 DEF Sends, SendsFunding
  <2>4. QED
    BY <2>2, <2>3, OfferedBy
<1>4. QED
  BY <1>1, <1>2, <1>3

\* A call about a milestone of an active project is about the current one, and
\* an account that finds the button among those of its stage may send it.
LEMMA StageOffered ==
  ASSUME RegistryInv, NEW p \in Projects, NEW i \in DOMAIN milestones[p], ActiveAt(p, i),
         milestones[p][i].status \notin {"Pending", "Released"} \/ ActiveAtCurrent(p, i)
  PROVE  /\ i = Current(p) /\ View(p).milestone.index = i
         /\ View(p).milestone.attempt = milestones[p][i].attempt
         /\ milestones[p][i].status \in {"UnderReview", "Voting"} =>
              View(p).milestone.evidence = receipts[p].evidence
         /\ project[p].creator \in Wallets
         /\ \A a : ActiveButtons(p, a) \subseteq Buttons(p, a)
<1>1. project[p] # NoProject /\ project[p].status = "Active" /\ i = Current(p)
  BY AtCurrent DEF ActiveAt
<1>2. \A a : ActiveButtons(p, a) \subseteq Buttons(p, a)
  BY <1>1, ButtonsByStatus
<1>3. QED
  BY <1>1, <1>2, CreatorIsThere, MilestoneShown DEF normalizeMilestoneStatus

\* A milestone that has been delivered has its evidence on file.
FiledStages == {"EvidenceSubmitted", "UnderReview", "Verified", "Voting"}

Filed(p) ==
  project[p] # NoProject /\ milestones[p][Current(p)].status \in FiledStages
    => receipts[p].evidence # None

\* open_review, finalize_review, open_voting, finalize_vote, start_rework and
\* release_milestone
LEMMA StagesOffered ==
  ASSUME RegistryInv, NEW p \in Projects, Filed(p), NEW i \in DOMAIN milestones[p],
         \/ OpenReview(p, i) \/ FinalizeReview(p, i) \/ OpenVoting(p, i)
         \/ FinalizeVote(p, i) \/ StartRework(p, i) \/ ReleaseApproved(p, i)
  PROVE  Offered(p)
<1>1. CASE OpenReview(p, i)
  <2>1. ActiveAt(p, i) /\ milestones[p][i].status = "EvidenceSubmitted"
    BY <1>1 DEF OpenReview, ActiveAtCurrent
  <2>2. /\ i = Current(p) /\ View(p).milestone.index = i
        /\ project[p].creator \in Wallets
        /\ \A a : ActiveButtons(p, a) \subseteq Buttons(p, a)
    BY <2>1, StageOffered
  <2> PICK a \in Wallets : a = project[p].creator
    BY <2>2
  <2>3. "Open evidence review" \in Buttons(p, a)
    BY <2>1, <2>2, ActiveByStage
  <2>4. Sends(p, a, "Open evidence review")
    BY <1>1, <2>2 DEF Sends, SendsReview
  <2>5. QED
    BY <2>3, <2>4, OfferedBy
<1>2. CASE FinalizeReview(p, i)
  <2>1. ActiveAt(p, i) /\ milestones[p][i].status = "UnderReview"
    BY <1>2 DEF FinalizeReview, ActiveAtCurrent
  <2>2. /\ i = Current(p) /\ View(p).milestone.index = i
        /\ project[p].creator \in Wallets
        /\ \A a : ActiveButtons(p, a) \subseteq Buttons(p, a)
    BY <2>1, StageOffered
  <2> PICK a \in Wallets : a = project[p].creator
    BY <2>2
  <2>3. "Finalize evidence review" \in Buttons(p, a)
    BY <2>1, <2>2, ActiveByStage
  <2>4. Sends(p, a, "Finalize evidence review")
    BY <1>2, <2>2 DEF Sends, SendsReview
  <2>5. QED
    BY <2>3, <2>4, OfferedBy
<1>3. CASE OpenVoting(p, i)
  <2>1. ActiveAt(p, i) /\ milestones[p][i].status = "Verified"
    BY <1>3 DEF OpenVoting, ActiveAtCurrent
  <2>2. /\ i = Current(p) /\ View(p).milestone.index = i
        /\ project[p].creator \in Wallets
        /\ \A a : ActiveButtons(p, a) \subseteq Buttons(p, a)
    BY <2>1, StageOffered
  <2> PICK a \in Wallets : a = project[p].creator
    BY <2>2
  <2>3. "Open contributor voting" \in Buttons(p, a)
    BY <2>1, <2>2, ActiveByStage
  <2>4. Sends(p, a, "Open contributor voting")
    BY <1>3, <2>2 DEF Sends, SendsVote
  <2>5. QED
    BY <2>3, <2>4, OfferedBy
<1>4. CASE FinalizeVote(p, i)
  <2>1. ActiveAt(p, i) /\ milestones[p][i].status = "Voting"
    BY <1>4 DEF FinalizeVote, ActiveAtCurrent
  <2>2. /\ i = Current(p) /\ View(p).milestone.index = i
        /\ project[p].creator \in Wallets
        /\ \A a : ActiveButtons(p, a) \subseteq Buttons(p, a)
    BY <2>1, StageOffered
  <2> PICK a \in Wallets : a = project[p].creator
    BY <2>2
  <2>3. "Finalize contributor vote" \in Buttons(p, a)
    BY <2>1, <2>2, ActiveByStage DEF Filed, FiledStages, ActiveAt
  <2>4. Sends(p, a, "Finalize contributor vote")
    BY <1>4, <2>2 DEF Sends, SendsVote
  <2>5. QED
    BY <2>3, <2>4, OfferedBy
<1>5. CASE StartRework(p, i)
  <2>1. ActiveAt(p, i) /\ milestones[p][i].status = "Rejected"
    BY <1>5 DEF StartRework, ActiveAtCurrent
  <2>2. /\ i = Current(p) /\ View(p).milestone.index = i
        /\ project[p].creator \in Wallets
        /\ \A a : ActiveButtons(p, a) \subseteq Buttons(p, a)
    BY <2>1, StageOffered
  <2> PICK a \in Wallets : a = project[p].creator
    BY <2>2
  <2>3. "Start evidence rework" \in Buttons(p, a)
    BY <2>1, <2>2, ActiveByStage
  <2>4. Sends(p, a, "Start evidence rework")
    BY <1>5, <2>2 DEF Sends, SendsReview
  <2>5. QED
    BY <2>3, <2>4, OfferedBy
<1>6. CASE ReleaseApproved(p, i)
  <2>1. ActiveAt(p, i) /\ milestones[p][i].status = "Approved"
    BY <1>6 DEF ReleaseApproved, ActiveAtCurrent
  <2>2. /\ i = Current(p) /\ View(p).milestone.index = i
        /\ project[p].creator \in Wallets
        /\ \A a : ActiveButtons(p, a) \subseteq Buttons(p, a)
    BY <2>1, StageOffered
  <2> PICK a \in Wallets : a = project[p].creator
    BY <2>2
  <2>3. "Release milestone payout" \in Buttons(p, a)
    BY <2>1, <2>2, ActiveByStage
  <2>4. Sends(p, a, "Release milestone payout")
    BY <1>6, <2>2 DEF Sends, SendsVote
  <2>5. QED
    BY <2>3, <2>4, OfferedBy
<1>7. QED
  BY <1>1, <1>2, <1>3, <1>4, <1>5, <1>6

\* submit_evidence
LEMMA EvidenceOffered ==
  ASSUME RegistryInv, NEW p \in Projects, NEW i \in DOMAIN milestones[p], NEW attempt,
         NEW hash \in Hashes, SubmitEvidence(p, i, attempt, hash)
  PROVE  Offered(p)
<1>1. /\ ActiveAt(p, i) /\ ActiveAtCurrent(p, i) /\ milestones[p][i].status = "Pending"
      /\ milestones[p][i].attempt = attempt
  BY DEF SubmitEvidence, ActiveAtCurrent
<1>2. /\ i = Current(p) /\ View(p).milestone.index = i /\ View(p).milestone.attempt = attempt
      /\ project[p].creator \in Wallets
      /\ \A a : ActiveButtons(p, a) \subseteq Buttons(p, a)
  BY <1>1, StageOffered
<1> PICK a \in Wallets : a = project[p].creator
  BY <1>2
<1>3. "Anchor evidence hash" \in Buttons(p, a)
  BY <1>1, <1>2, ActiveByStage
<1>4. Sends(p, a, "Anchor evidence hash")
  BY <1>2 DEF Sends, SendsReview
<1>5. QED
  BY <1>3, <1>4, OfferedBy

\* attest
LEMMA AttestOffered ==
  ASSUME RegistryInv, NEW p \in Projects, NEW i \in DOMAIN milestones[p], NEW w \in Wallets,
         NEW attempt, NEW hash \in Hashes, NEW decision \in ReviewerDecisions,
         Attest(p, i, w, attempt, hash, decision)
  PROVE  Offered(p)
<1>1. /\ ActiveAt(p, i) /\ milestones[p][i].status = "UnderReview"
      /\ milestones[p][i].attempt = attempt /\ receipts[p].evidence = hash
      /\ w \in project[p].reviewers /\ hash # None
  BY RegistryAssumption DEF Attest, ActiveAtCurrent, CitesEvidence
<1>2. /\ i = Current(p) /\ View(p).milestone.index = i /\ View(p).milestone.attempt = attempt
      /\ View(p).milestone.evidence = hash
      /\ \A a : ActiveButtons(p, a) \subseteq Buttons(p, a)
  BY <1>1, StageOffered
<1>3. {"Verify milestone evidence", "Reject milestone evidence"} \subseteq Buttons(p, w)
  BY <1>1, <1>2, ActiveByStage
<1>4. CASE decision = "Verify"
  <2>1. Sends(p, w, "Verify milestone evidence")
    BY <1>2, <1>4 DEF Sends, SendsReview
  <2>2. QED
    BY <1>3, <2>1, OfferedBy
<1>5. CASE decision = "Reject"
  <2>1. Sends(p, w, "Reject milestone evidence")
    BY <1>2, <1>5 DEF Sends, SendsReview
  <2>2. QED
    BY <1>3, <2>1, OfferedBy
<1>6. QED
  BY <1>4, <1>5 DEF ReviewerDecisions

\* vote
LEMMA VoteOffered ==
  ASSUME RegistryInv, NEW p \in Projects, NEW i \in DOMAIN milestones[p],
         NEW c \in Contributors, NEW attempt, NEW hash \in Hashes,
         NEW decision \in ContributorDecisions, Vote(p, i, c, attempt, hash, decision)
  PROVE  Offered(p)
<1>1. /\ ActiveAt(p, i) /\ milestones[p][i].status = "Voting"
      /\ milestones[p][i].attempt = attempt /\ receipts[p].evidence = hash
      /\ c \in Wallets /\ hash # None
  BY RegistryAssumption DEF Vote, ActiveAtCurrent, CitesEvidence
<1>2. /\ i = Current(p) /\ View(p).milestone.index = i /\ View(p).milestone.attempt = attempt
      /\ View(p).milestone.evidence = hash
      /\ \A a : ActiveButtons(p, a) \subseteq Buttons(p, a)
  BY <1>1, StageOffered
<1>3. {"Approve milestone", "Dispute milestone"} \subseteq Buttons(p, c)
  BY <1>1, <1>2, ActiveByStage
<1>4. CASE decision = "Approve"
  <2>1. Sends(p, c, "Approve milestone")
    BY <1>2, <1>4 DEF Sends, SendsVote
  <2>2. QED
    BY <1>1, <1>3, <2>1, OfferedBy
<1>5. CASE decision = "Dispute"
  <2>1. Sends(p, c, "Dispute milestone")
    BY <1>2, <1>5 DEF Sends, SendsVote
  <2>2. QED
    BY <1>1, <1>3, <2>1, OfferedBy
<1>6. QED
  BY <1>4, <1>5 DEF ContributorDecisions

\* arbitrate
LEMMA ArbitrateOffered ==
  ASSUME RegistryInv, NEW p \in Projects, NEW i, NEW w \in Wallets, NEW attempt,
         NEW decision \in Arbitrations, Arbitrate(p, i, w, attempt, decision)
  PROVE  Offered(p)
<1>1. /\ DisputedAt(p, i) /\ milestones[p][i].attempt = attempt
      /\ project[p].status = "Disputed" /\ w \in project[p].arbitrators
  BY DEF Arbitrate, DisputedAt, HasStatus
<1>2. View(p).milestone.index = i /\ View(p).milestone.attempt = attempt
  BY <1>1, AtDispute, MilestoneShown
<1>3. {"Approve release in arbitration", "Require evidence rework",
       "Reject milestone in arbitration"} \subseteq Buttons(p, w)
  BY <1>1, ButtonsByStatus DEF DisputeButtons, Only
<1>4. CASE decision = "ApproveRelease"
  <2>1. Sends(p, w, "Approve release in arbitration")
    BY <1>2, <1>4 DEF Sends, SendsDispute
  <2>2. QED
    BY <1>3, <2>1, OfferedBy
<1>5. CASE decision = "RequireRework"
  <2>1. Sends(p, w, "Require evidence rework")
    BY <1>2, <1>5 DEF Sends, SendsDispute
  <2>2. QED
    BY <1>3, <2>1, OfferedBy
<1>6. CASE decision = "RejectMilestone"
  <2>1. Sends(p, w, "Reject milestone in arbitration")
    BY <1>2, <1>6 DEF Sends, SendsDispute
  <2>2. QED
    BY <1>3, <2>1, OfferedBy
<1>7. QED
  BY <1>4, <1>5, <1>6, RegistryAssumption DEF ArbitrationDecisions

\* finalize_dispute
LEMMA DisputeOffered ==
  ASSUME RegistryInv, NEW p \in Projects, NEW i, FinalizeDispute(p, i)
  PROVE  Offered(p)
<1>1. DisputedAt(p, i) /\ project[p] # NoProject /\ project[p].status = "Disputed"
  BY DEF FinalizeDispute, DisputedAt, HasStatus
<1>2. View(p).milestone.index = i
  BY <1>1, AtDispute, MilestoneShown
<1> PICK a \in Wallets : a = project[p].creator
  BY <1>1, CreatorIsThere
<1>3. "Finalize milestone dispute" \in Buttons(p, a)
  BY <1>1, ButtonsByStatus DEF DisputeButtons
<1>4. Sends(p, a, "Finalize milestone dispute")
  BY <1>2 DEF Sends, SendsDispute
<1>5. QED
  BY <1>3, <1>4, OfferedBy

\* apply_timeout
LEMMA TimeoutOffered ==
  ASSUME RegistryInv, NEW p \in Projects, ApplyTimeout(p)
  PROVE  Offered(p)
<1>1. CASE FinalizeFunding(p) \/ ActivateProject(p)
  BY <1>1, FundingOffered
<1>2. CASE HasStatus(p, "Disputed") \/ HasStatus(p, "Active")
  <2>1. project[p] # NoProject /\ project[p].status \in {"Active", "Disputed"}
    BY <1>2 DEF HasStatus
  <2> PICK a \in Wallets : a = project[p].creator
    BY <2>1, CreatorIsThere
  <2>2. "Apply project deadline" \in Buttons(p, a)
    BY <2>1, ButtonsByStatus
  <2>3. Sends(p, a, "Apply project deadline")
    BY DEF Sends
  <2>4. QED
    BY <2>2, <2>3, OfferedBy
<1>3. QED
  BY <1>1, <1>2 DEF ApplyTimeout

\* claim_refund
LEMMA RefundIsOffered ==
  ASSUME RegistryInv, NEW p \in Projects, NEW c \in Contributors, PayRefund(p, c)
  PROVE  Offered(p)
<1>1. vault[p] # NoVault /\ vault[p].refundable /\ c \in Wallets
  BY RegistryAssumption DEF PayRefund, ClaimRefund
<1>2. "Claim project refund" \in Buttons(p, c)
  BY <1>1, ButtonsByStatus
<1>3. Sends(p, c, "Claim project refund")
  BY DEF Sends
<1>4. QED
  BY <1>1, <1>2, <1>3, OfferedBy

\* Every call about a project is a button of its page, or edits a draft.
LEMMA EveryCallIsOffered ==
  ASSUME RegistryInv, NEW p \in Projects, Filed(p), ActorStep(p) \/ PermissionlessStep(p)
  PROVE  DraftEdited(p) \/ Offered(p)
<1>1. CASE \/ \E metadata \in MetadataInputs : UpdateDraft(p, metadata)
           \/ \E role \in {"reviewers", "arbitrators"}, w \in Wallets : AcceptRole(p, role, w)
           \/ OpenFunding(p) \/ CancelProject(p)
  BY <1>1, DraftOffered
<1>2. CASE \/ \E c \in Contributors, amount \in AmountInputs : Contribute(p, c, amount)
           \/ FinalizeFunding(p) \/ ActivateProject(p)
  BY <1>2, FundingOffered
<1>3. ASSUME NEW i \in DOMAIN milestones[p],
             \/ OpenReview(p, i) \/ FinalizeReview(p, i) \/ OpenVoting(p, i)
             \/ FinalizeVote(p, i) \/ StartRework(p, i) \/ ReleaseApproved(p, i)
      PROVE  Offered(p)
  BY <1>3, StagesOffered
<1>4. ASSUME NEW i \in DOMAIN milestones[p], NEW attempt, NEW hash \in Hashes,
             SubmitEvidence(p, i, attempt, hash)
      PROVE  Offered(p)
  BY <1>4, EvidenceOffered
<1>5. ASSUME NEW i \in DOMAIN milestones[p], NEW attempt, NEW hash \in Hashes, NEW w \in Wallets,
             NEW decision \in ReviewerDecisions, Attest(p, i, w, attempt, hash, decision)
      PROVE  Offered(p)
  BY <1>5, AttestOffered
<1>6. ASSUME NEW i \in DOMAIN milestones[p], NEW attempt, NEW hash \in Hashes,
             NEW c \in Contributors, NEW decision \in ContributorDecisions,
             Vote(p, i, c, attempt, hash, decision)
      PROVE  Offered(p)
  BY <1>6, VoteOffered
<1>7. ASSUME NEW i \in DOMAIN milestones[p], NEW attempt, NEW w \in Wallets,
             NEW decision \in Arbitrations, Arbitrate(p, i, w, attempt, decision)
      PROVE  Offered(p)
  BY <1>7, ArbitrateOffered
<1>8. ASSUME NEW i \in DOMAIN milestones[p], FinalizeDispute(p, i)
      PROVE  Offered(p)
  BY <1>8, DisputeOffered
<1>9. CASE ApplyTimeout(p)
  BY <1>9, TimeoutOffered
<1>10. CASE ActorStep(p)
  BY ONLY <1>10, <1>1, <1>2, <1>3, <1>4, <1>5, <1>6, <1>7 DEF ActorStep
<1>11. CASE PermissionlessStep(p)
  BY ONLY <1>11, <1>2, <1>3, <1>8, <1>9 DEF PermissionlessStep
<1>12. QED
  BY <1>10, <1>11

-----------------------------------------------------------------------------
(* What is delivered has its evidence on file, whatever step is taken.      *)

\* A step that writes the current milestone of a project.
LEMMA FiledBySetting ==
  ASSUME RegistryInv, NEW p \in Projects, NEW i \in DOMAIN milestones[p], NEW n,
         i = Current(p), Current(p)' = i, SetMilestone(p, i, n),
         n.status \in FiledStages => receipts'[p].evidence # None
  PROVE  Filed(p)'
<1>1. milestones'[p][i] = n
  BY DEF SetMilestone, RegistryInv, ProjectTypes
<1>2. QED
  BY <1>1 DEF Filed

\* A step that writes none.
LEMMA FiledByKeeping ==
  ASSUME NEW p \in Projects, Filed(p), project[p] # NoProject,
         milestones'[p] = milestones[p], receipts'[p] = receipts[p],
         Current(p)' = Current(p)
  PROVE  Filed(p)'
BY DEF Filed

\* A ballot leaves the evidence where it is.
LEMMA BallotsKeepEvidence ==
  ASSUME RegistryInv, NEW p \in Projects, NEW w, NEW d,
         \/ receipts' = [receipts EXCEPT ![p].attested[w] = d]
         \/ receipts' = [receipts EXCEPT ![p].voted[w] = d]
         \/ receipts' = [receipts EXCEPT ![p].arbitrated[w] = d]
  PROVE  receipts'[p].evidence = receipts[p].evidence
<1>1. receipts \in [Projects -> Receipts]
  BY DEF RegistryInv, ProjectTypes
<1>2. QED
  BY <1>1 DEF Receipts

\* What a call makes of the stage of a milestone.
LEMMA StagesAfter ==
  ASSUME NEW m \in Milestone
  PROVE  /\ \A s : Entered(m, s).status = s
         /\ MarkRejected(m).status = "Rejected" /\ Disputed(m).status = "Disputed"
         /\ Started(m).status = m.status
         /\ CanRework(m) => ResetForRework(m).status = "Pending"
         /\ \A t : [Entered(m, "UnderReview") EXCEPT !.review_deadline = t].status = "UnderReview"
         /\ \A t : [Entered(m, "Voting") EXCEPT !.voting_deadline = t].status = "Voting"
<1>1. ResetForRework(m).status = "Pending"
  BY DEF ResetForRework, NewMilestone
<1>2. QED
  BY <1>1, RecordsKeep

\* submit_evidence, open_review, finalize_review, open_voting, finalize_vote
\* and start_rework
LEMMA StagesFiled ==
  ASSUME RegistryInv, NEW p \in Projects, Filed(p), NEW i \in DOMAIN milestones[p],
         \/ \E attempt \in Attempts, hash \in Hashes : SubmitEvidence(p, i, attempt, hash)
         \/ OpenReview(p, i) \/ FinalizeReview(p, i)
         \/ OpenVoting(p, i) \/ FinalizeVote(p, i) \/ StartRework(p, i)
  PROVE  Filed(p)'
<1> DEFINE m == milestones[p][i]
<1>1. /\ ActiveAt(p, i) /\ UNCHANGED project
      /\ m.status \notin {"Pending", "Released"} \/ ActiveAtCurrent(p, i)
  BY DEF SubmitEvidence, OpenReview, FinalizeReview, OpenVoting, FinalizeVote, StartRework,
         ActiveAtCurrent
<1>2. i = Current(p) /\ Current(p)' = i /\ m \in Milestone /\ project[p] # NoProject
  BY <1>1, AtCurrent DEF Current
<1>3. m.status \in FiledStages => receipts[p].evidence # None
  BY <1>2 DEF Filed
<1>4. ASSUME NEW attempt \in Attempts, NEW hash \in Hashes, SubmitEvidence(p, i, attempt, hash)
      PROVE  Filed(p)'
  <2>1. /\ SetMilestone(p, i, Entered(m, "EvidenceSubmitted"))
        /\ receipts' = [receipts EXCEPT ![p].evidence = hash]
    BY <1>4 DEF SubmitEvidence
  <2>2. receipts'[p].evidence = hash
    BY <2>1 DEF RegistryInv, ProjectTypes, Receipts
  <2>3. QED
    BY <1>2, <2>1, <2>2, FiledBySetting, RegistryAssumption
<1>5. CASE OpenReview(p, i)
  <2>1. /\ SetMilestone(p, i, [Entered(m, "UnderReview") EXCEPT
                                 !.review_deadline = RegistryNow + Policy.review_window])
        /\ receipts' = receipts /\ m.status = "EvidenceSubmitted"
    BY <1>5 DEF OpenReview
  <2>2. receipts'[p].evidence # None
    BY <1>3, <2>1 DEF FiledStages
  <2>3. QED
    BY <1>2, <2>1, <2>2, FiledBySetting
<1>6. CASE FinalizeReview(p, i)
  <2>1. SetMilestone(p, i, MarkRejected(m))
    BY <1>6 DEF FinalizeReview
  <2>2. MarkRejected(m).status \notin FiledStages
    BY <1>2, StagesAfter DEF FiledStages
  <2>3. QED
    BY <1>2, <2>1, <2>2, FiledBySetting
<1>7. CASE OpenVoting(p, i)
  <2>1. /\ SetMilestone(p, i, [Entered(m, "Voting") EXCEPT
                                 !.voting_deadline = RegistryNow + Policy.voting_window])
        /\ receipts' = receipts /\ m.status = "Verified"
    BY <1>7 DEF OpenVoting
  <2>2. receipts'[p].evidence # None
    BY <1>3, <2>1 DEF FiledStages
  <2>3. QED
    BY <1>2, <2>1, <2>2, FiledBySetting
<1>8. CASE FinalizeVote(p, i)
  <2>1. \/ SetMilestone(p, i, Entered(m, "Approved")) \/ SetMilestone(p, i, MarkRejected(m))
    BY <1>8 DEF FinalizeVote
  <2>2. Entered(m, "Approved").status \notin FiledStages /\ MarkRejected(m).status \notin FiledStages
    BY <1>2, StagesAfter DEF FiledStages
  <2>3. QED
    BY <1>2, <2>1, <2>2, FiledBySetting
<1>9. CASE StartRework(p, i)
  <2>1. SetMilestone(p, i, ResetForRework(m)) /\ CanRework(m)
    BY <1>9 DEF StartRework
  <2>2. ResetForRework(m).status \notin FiledStages
    BY <1>2, <2>1, StagesAfter DEF FiledStages
  <2>3. QED
    BY <1>2, <2>1, <2>2, FiledBySetting
<1>10. QED
  BY <1>4, <1>5, <1>6, <1>7, <1>8, <1>9

\* attest
LEMMA AttestFiled ==
  ASSUME RegistryInv, NEW p \in Projects, Filed(p), NEW i \in DOMAIN milestones[p],
         NEW w \in Wallets, NEW attempt, NEW hash, NEW decision,
         Attest(p, i, w, attempt, hash, decision)
  PROVE  Filed(p)'
<1> DEFINE m == milestones[p][i]
           n == AfterAttestation(Attested(m, decision))
<1>1. /\ ActiveAtCurrent(p, i) /\ ActiveAt(p, i) /\ UNCHANGED project /\ m.status = "UnderReview"
      /\ SetMilestone(p, i, n)
      /\ receipts' = [receipts EXCEPT ![p].attested[w] = decision]
  BY DEF Attest, ActiveAtCurrent
<1>2. i = Current(p) /\ Current(p)' = i /\ project[p] # NoProject
  BY <1>1, AtCurrent DEF Current
<1>3. receipts'[p].evidence # None
  BY <1>1, <1>2, BallotsKeepEvidence DEF Filed, FiledStages
<1> HIDE DEF n
<1>4. QED
  BY <1>1, <1>2, <1>3, FiledBySetting

\* vote
LEMMA VoteFiled ==
  ASSUME RegistryInv, NEW p \in Projects, Filed(p), NEW i \in DOMAIN milestones[p],
         NEW c, NEW attempt, NEW hash, NEW decision, Vote(p, i, c, attempt, hash, decision)
  PROVE  Filed(p)'
<1> DEFINE m == milestones[p][i]
<1>1. /\ ActiveAtCurrent(p, i) /\ ActiveAt(p, i) /\ m.status = "Voting"
      /\ receipts' = [receipts EXCEPT ![p].voted[c] = decision]
      /\ \E n : SetMilestone(p, i, n)
      /\ SetStatus(p, "Disputed") \/ UNCHANGED project
  BY DEF Vote, ActiveAtCurrent
<1>2. i = Current(p) /\ project[p] # NoProject
  BY <1>1, AtCurrent
<1>3. Current(p)' = i
  BY <1>1, <1>2, StatusSet DEF Current
<1>4. receipts'[p].evidence # None
  BY <1>1, <1>2, BallotsKeepEvidence DEF Filed, FiledStages
<1>5. QED
  BY <1>1, <1>2, <1>3, <1>4, FiledBySetting

\* arbitrate
LEMMA ArbitrateFiled ==
  ASSUME RegistryInv, NEW p \in Projects, Filed(p), NEW i \in DOMAIN milestones[p],
         NEW w, NEW attempt, NEW decision, Arbitrate(p, i, w, attempt, decision)
  PROVE  Filed(p)'
<1> DEFINE m == milestones[p][i]
           n == Judged(m, decision)
<1>1. /\ DisputedAt(p, i) /\ UNCHANGED project /\ SetMilestone(p, i, n)
  BY DEF Arbitrate
<1>2. i = Current(p) /\ m \in Milestone /\ m.status = "Disputed" /\ Current(p)' = i
  BY <1>1, AtDispute DEF Current
<1>3. n.status = "Disputed"
  <2>1. 0 \in Nat
    OBVIOUS
  <2>2. QED
    BY <1>2, <2>1, BallotsKeep
<1> HIDE DEF n
<1>4. QED
  BY <1>1, <1>2, <1>3, FiledBySetting DEF FiledStages

\* finalize_dispute
LEMMA DisputeFiled ==
  ASSUME RegistryInv, NEW p \in Projects, Filed(p), NEW i, FinalizeDispute(p, i)
  PROVE  Filed(p)'
<1> DEFINE m == milestones[p][i]
<1>1. /\ DisputedAt(p, i)
      /\ \/ SetMilestone(p, i, Entered(m, "Approved"))
         \/ SetMilestone(p, i, ResetForRework(m)) /\ CanRework(m)
         \/ SetMilestone(p, i, Entered(m, "Rejected"))
      /\ SetStatus(p, "Active") \/ SetStatus(p, "Failed")
  BY DEF FinalizeDispute, FailProject
<1>2. i = Current(p) /\ m \in Milestone /\ project[p] # NoProject /\ i \in DOMAIN milestones[p]
  BY <1>1, AtDispute
<1>3. Current(p)' = i
  BY <1>1, <1>2, StatusSet
<1>4. /\ Entered(m, "Approved").status \notin FiledStages
      /\ CanRework(m) => ResetForRework(m).status \notin FiledStages
      /\ Entered(m, "Rejected").status \notin FiledStages
  BY <1>2, StagesAfter DEF FiledStages
<1>5. QED
  BY <1>1, <1>2, <1>3, <1>4, FiledBySetting

\* Calls that leave the milestones and the receipts alone, and the start.
LEMMA FundingFiled ==
  ASSUME RegistryInv, NEW p \in Projects, Filed(p),
         \/ \E metadata \in MetadataInputs : UpdateDraft(p, metadata)
         \/ \E role \in {"reviewers", "arbitrators"}, w \in Wallets : AcceptRole(p, role, w)
         \/ OpenFunding(p) \/ CancelProject(p)
         \/ \E c \in Contributors, amount \in AmountInputs : Contribute(p, c, amount)
         \/ FinalizeFunding(p) \/ ActivateProject(p)
  PROVE  Filed(p)'
<1>1. project[p] # NoProject
  BY DEF UpdateDraft, AcceptRole, OpenFunding, CancelProject, Contribute, FinalizeFunding,
         ActivateProject, HasStatus
<1>2. project[p] \in Project /\ project \in [Projects -> Project \cup {NoProject}]
  BY <1>1, OfProject DEF RegistryInv, ProjectTypes
<1>3. Current(p)' = Current(p)
  <2>1. CASE \E metadata \in MetadataInputs : UpdateDraft(p, metadata)
    BY <1>2, <2>1 DEF UpdateDraft, Current, Project
  <2>2. CASE \E role \in {"reviewers", "arbitrators"}, w \in Wallets : AcceptRole(p, role, w)
    BY <2>2 DEF AcceptRole, Current
  <2>3. CASE OpenFunding(p) \/ CancelProject(p)
    BY <1>1, <2>3, StatusSet DEF OpenFunding, CancelProject
  <2>4. CASE \E c \in Contributors, amount \in AmountInputs : Contribute(p, c, amount)
    BY <2>4, GivesShape
  <2>5. CASE FinalizeFunding(p)
    <3>1. SetStatus(p, "Failed") \/ project' = [project EXCEPT ![p] = FundedNow(@)]
      BY <2>5 DEF FinalizeFunding
    <3>2. FundedNow(project[p]).current_milestone = project[p].current_milestone
      BY <1>2 DEF FundedNow, Project
    <3>3. CASE project' = [project EXCEPT ![p] = FundedNow(project[p])]
      BY <1>2, <3>2, <3>3 DEF Current
    <3>4. QED
      BY <1>1, <3>1, <3>3, StatusSet
  <2>6. CASE ActivateProject(p)
    BY <1>1, <2>6, StatusSet DEF ActivateProject
  <2>7. QED
    BY <2>1, <2>2, <2>3, <2>4, <2>5, <2>6
<1>4. CASE UNCHANGED <<milestones, receipts>>
  BY <1>1, <1>3, <1>4, FiledByKeeping
<1>5. CASE ActivateProject(p) /\ SetMilestone(p, 0, Started(milestones[p][0]))
  <2>1. project[p].status \in BeforeDelivery
    BY <1>5 DEF ActivateProject, HasStatus, BeforeDelivery
  <2>2. /\ Current(p) = 0 /\ 0 \in DOMAIN milestones[p] /\ milestones[p][0] \in Milestone
        /\ milestones[p][0].status = "Pending"
    BY <1>1, <2>1, OfProject DEF Staged, Untouched, Current
  <2>3. Started(milestones[p][0]).status \notin FiledStages
    BY <2>2, StagesAfter DEF FiledStages
  <2>4. QED
    BY <1>3, <1>5, <2>2, <2>3, FiledBySetting
<1>6. QED
  BY <1>4, <1>5 DEF UpdateDraft, AcceptRole, OpenFunding, CancelProject, Contribute,
                    FinalizeFunding, ActivateProject

\* release_milestone: the next milestone, if there is one, has not been touched.
LEMMA ReleaseFiled ==
  ASSUME RegistryInv, NEW p \in Projects, NEW i \in DOMAIN milestones[p], ReleaseApproved(p, i)
  PROVE  Filed(p)'
<1> DEFINE ms   == milestones[p]
           m    == ms[i]
           paid == [ms EXCEPT ![i] = Entered(m, "Released")]
<1>1. project[p] # NoProject /\ i = Current(p)
  BY PaysShape
<1>2. /\ project \in [Projects -> Project \cup {NoProject}] /\ project[p] \in Project
      /\ milestones \in [Projects -> MilestoneLists]
      /\ \A j \in DOMAIN ms : ms[j] \in Milestone
      /\ i \in 0..4 /\ \A j \in DOMAIN ms : j > i => Untouched(ms[j])
  BY <1>1, OfProject DEF RegistryInv, ProjectTypes, Staged, Current
<1>3. CASE i + 1 \notin DOMAIN ms
  <2>1. SetStatus(p, "Completed") /\ milestones' = [milestones EXCEPT ![p] = paid]
    BY <1>3 DEF ReleaseApproved
  <2>2. Current(p)' = i
    BY <1>1, <2>1, StatusSet
  <2>3. milestones'[p][i] = Entered(m, "Released")
    BY <1>2, <2>1
  <2>4. Entered(m, "Released").status = "Released"
    BY <1>2, StagesAfter
  <2>5. QED
    BY <2>2, <2>3, <2>4 DEF Filed, FiledStages
<1>4. CASE i + 1 \in DOMAIN ms
  <2>1. /\ project' = [project EXCEPT ![p].current_milestone = i + 1]
        /\ milestones' = [milestones EXCEPT ![p] =
                            [paid EXCEPT ![i + 1] = Started(paid[i + 1])]]
    BY <1>4 DEF ReleaseApproved
  <2>2. Current(p)' = i + 1
    BY <1>2, <2>1 DEF Current, Project
  <2>3. i + 1 # i /\ i + 1 > i
    BY <1>2
  <2>4. paid[i + 1] = ms[i + 1] /\ ms[i + 1] \in Milestone /\ ms[i + 1].status = "Pending"
    BY <1>2, <1>4, <2>3 DEF Untouched
  <2>5. milestones'[p][i + 1] = Started(paid[i + 1])
    BY <1>2, <1>4, <2>1
  <2>6. milestones'[p][i + 1].status = "Pending"
    BY <2>4, <2>5, StagesAfter
  <2>7. QED
    BY <2>2, <2>6 DEF Filed, FiledStages
<1>5. QED
  BY <1>3, <1>4

\* apply_timeout
LEMMA TimeoutFiled ==
  ASSUME RegistryInv, NEW p \in Projects, Filed(p), ApplyTimeout(p)
  PROVE  Filed(p)'
<1>1. CASE FinalizeFunding(p) \/ ActivateProject(p)
  BY <1>1, FundingFiled
<1>2. CASE FinalizeDispute(p, Current(p))
  BY <1>2, DisputeFiled
<1>3. CASE HasStatus(p, "Active") /\ ApplyTimeoutToCurrent(p, Current(p))
  <2> DEFINE i == Current(p)
             m == milestones[p][i]
  <2>1. project[p] # NoProject /\ i \in DOMAIN milestones[p] /\ m \in Milestone
    <3>1. project[p] # NoProject
      BY <1>3 DEF HasStatus
    <3>2. QED
      BY <3>1, OfProject DEF Current
  <2>2. CASE RejectForTimeout(p, i)
    <3>1. SetMilestone(p, i, MarkRejected(m))
      BY <2>2 DEF RejectForTimeout
    <3>2. SetStatus(p, "Failed") \/ UNCHANGED project
      BY <2>2 DEF RejectForTimeout, FailProject
    <3>3. Current(p)' = i
      BY <2>1, <3>2, StatusSet DEF Current
    <3>4. MarkRejected(m).status \notin FiledStages
      BY <2>1, StagesAfter DEF FiledStages
    <3>5. QED
      BY <2>1, <3>1, <3>3, <3>4, FiledBySetting
  <2>3. CASE OpenReview(p, i) \/ FinalizeReview(p, i) \/ OpenVoting(p, i) \/ FinalizeVote(p, i)
    BY <2>1, <2>3, StagesFiled
  <2>4. CASE FailProject(p) /\ UNCHANGED <<milestones, receipts>>
    <3>1. Current(p)' = i
      BY <2>1, <2>4, StatusSet DEF FailProject
    <3>2. QED
      BY <2>1, <2>4, <3>1, FiledByKeeping
  <2> HIDE DEF i
  <2>5. ApplyTimeoutToCurrent(p, i)
    BY <1>3 DEF i
  <2>6. QED
    BY <2>2, <2>3, <2>4, <2>5 DEF ApplyTimeoutToCurrent
<1>4. QED
  BY <1>1, <1>2, <1>3 DEF ApplyTimeout

\* Every call about a project keeps it so.
LEMMA EveryCallFiles ==
  ASSUME RegistryInv, NEW p \in Projects, Filed(p), ActorStep(p) \/ PermissionlessStep(p)
  PROVE  Filed(p)'
<1>1. CASE \/ \E metadata \in MetadataInputs : UpdateDraft(p, metadata)
           \/ \E role \in {"reviewers", "arbitrators"}, w \in Wallets : AcceptRole(p, role, w)
           \/ OpenFunding(p) \/ CancelProject(p)
           \/ \E c \in Contributors, amount \in AmountInputs : Contribute(p, c, amount)
           \/ FinalizeFunding(p) \/ ActivateProject(p)
  BY <1>1, FundingFiled
<1>2. ASSUME NEW i \in DOMAIN milestones[p],
             \/ \E attempt \in Attempts, hash \in Hashes : SubmitEvidence(p, i, attempt, hash)
             \/ OpenReview(p, i) \/ FinalizeReview(p, i)
             \/ OpenVoting(p, i) \/ FinalizeVote(p, i) \/ StartRework(p, i)
      PROVE  Filed(p)'
  BY <1>2, StagesFiled
<1>3. ASSUME NEW i \in DOMAIN milestones[p], NEW attempt, NEW hash, NEW w \in Wallets,
             NEW decision, Attest(p, i, w, attempt, hash, decision)
      PROVE  Filed(p)'
  BY <1>3, AttestFiled
<1>4. ASSUME NEW i \in DOMAIN milestones[p], NEW attempt, NEW hash, NEW c, NEW decision,
             Vote(p, i, c, attempt, hash, decision)
      PROVE  Filed(p)'
  BY <1>4, VoteFiled
<1>5. ASSUME NEW i \in DOMAIN milestones[p], NEW attempt, NEW w, NEW decision,
             Arbitrate(p, i, w, attempt, decision)
      PROVE  Filed(p)'
  BY <1>5, ArbitrateFiled
<1>6. ASSUME NEW i \in DOMAIN milestones[p], FinalizeDispute(p, i)
      PROVE  Filed(p)'
  BY <1>6, DisputeFiled
<1>7. ASSUME NEW i \in DOMAIN milestones[p], ReleaseApproved(p, i)
      PROVE  Filed(p)'
  BY <1>7, ReleaseFiled
<1>8. CASE ApplyTimeout(p)
  BY <1>8, TimeoutFiled
<1>9. CASE ActorStep(p)
  BY ONLY <1>9, <1>1, <1>2, <1>3, <1>4, <1>5 DEF ActorStep
<1>10. CASE PermissionlessStep(p)
  BY ONLY <1>10, <1>1, <1>2, <1>6, <1>7, <1>8 DEF PermissionlessStep
<1>11. QED
  BY <1>9, <1>10

-----------------------------------------------------------------------------
(* Nothing is done to a project but by the calls about it.                  *)

\* Receipts and seats change only for the project a call is about.
WrittenAt(p) ==
  \A q \in Projects : q # p => receipts'[q] = receipts[q] /\ accepted'[q] = accepted[q]

LEMMA MilestoneWrites ==
  ASSUME RegistryInv, NEW p \in Projects, NEW i,
         \/ \E attempt, hash : SubmitEvidence(p, i, attempt, hash)
         \/ OpenReview(p, i) \/ FinalizeReview(p, i) \/ OpenVoting(p, i)
         \/ FinalizeVote(p, i) \/ StartRework(p, i) \/ FinalizeDispute(p, i)
         \/ ReleaseApproved(p, i)
         \/ \E w, attempt, hash, d : Attest(p, i, w, attempt, hash, d)
         \/ \E c, attempt, hash, d : Vote(p, i, c, attempt, hash, d)
         \/ \E w, attempt, d : Arbitrate(p, i, w, attempt, d)
  PROVE  WrittenAt(p)
<1>1. receipts \in [Projects -> Receipts]
  BY DEF RegistryInv, ProjectTypes
<1>2. UNCHANGED accepted
  BY DEF SubmitEvidence, OpenReview, FinalizeReview, OpenVoting, FinalizeVote, StartRework,
         FinalizeDispute, ReleaseApproved, Attest, Vote, Arbitrate, DecisionOnly
<1>3. \/ UNCHANGED receipts
      \/ \E hash : receipts' = [receipts EXCEPT ![p].evidence = hash]
      \/ receipts' = [receipts EXCEPT ![p] = NoReceipts]
      \/ \E w, d : receipts' = [receipts EXCEPT ![p].attested[w] = d]
      \/ \E w, d : receipts' = [receipts EXCEPT ![p].voted[w] = d]
      \/ \E w, d : receipts' = [receipts EXCEPT ![p].arbitrated[w] = d]
  BY DEF SubmitEvidence, OpenReview, FinalizeReview, OpenVoting, FinalizeVote, StartRework,
         FinalizeDispute, ReleaseApproved, Attest, Vote, Arbitrate
<1>4. \A q \in Projects : q # p => receipts'[q] = receipts[q]
  BY <1>1, <1>3
<1>5. QED
  BY <1>2, <1>4 DEF WrittenAt

LEMMA FundingWrites ==
  ASSUME RegistryInv, NEW p \in Projects,
         \/ \E metadata : UpdateDraft(p, metadata)
         \/ \E role \in {"reviewers", "arbitrators"}, w \in Wallets : AcceptRole(p, role, w)
         \/ OpenFunding(p) \/ CancelProject(p)
         \/ \E c, amount : Contribute(p, c, amount)
         \/ FinalizeFunding(p) \/ ActivateProject(p)
  PROVE  WrittenAt(p)
<1>1. UNCHANGED receipts
  BY DEF UpdateDraft, AcceptRole, OpenFunding, CancelProject, Contribute, FinalizeFunding,
         ActivateProject
<1>2. \/ UNCHANGED accepted
      \/ \E role, seats : accepted' = [accepted EXCEPT ![p][role] = seats]
  BY DEF UpdateDraft, AcceptRole, OpenFunding, CancelProject, Contribute, FinalizeFunding,
         ActivateProject
<1>3. \A q \in Projects : q # p => accepted'[q] = accepted[q]
  BY <1>2 DEF RegistryInv, ProjectTypes
<1>4. QED
  BY <1>1, <1>3 DEF WrittenAt

LEMMA TimeoutWrites ==
  ASSUME RegistryInv, NEW p \in Projects, ApplyTimeout(p)
  PROVE  WrittenAt(p)
<1>1. CASE FinalizeFunding(p) \/ ActivateProject(p)
  BY <1>1, FundingWrites
<1>2. CASE FinalizeDispute(p, Current(p))
  BY <1>2, MilestoneWrites
<1>3. CASE ApplyTimeoutToCurrent(p, Current(p))
  <2>1. CASE UNCHANGED <<accepted, receipts>>
    BY <2>1 DEF WrittenAt
  <2>2. CASE \/ OpenReview(p, Current(p)) \/ FinalizeReview(p, Current(p))
             \/ OpenVoting(p, Current(p)) \/ FinalizeVote(p, Current(p))
    BY <2>2, MilestoneWrites
  <2>3. QED
    BY <1>3, <2>1, <2>2 DEF ApplyTimeoutToCurrent, RejectForTimeout
<1>4. QED
  BY <1>1, <1>2, <1>3 DEF ApplyTimeout

LEMMA EveryCallWrites ==
  ASSUME RegistryInv, NEW p \in Projects, ActorStep(p) \/ PermissionlessStep(p)
  PROVE  WrittenAt(p)
<1>1. CASE \/ \E metadata \in MetadataInputs : UpdateDraft(p, metadata)
           \/ \E role \in {"reviewers", "arbitrators"}, w \in Wallets : AcceptRole(p, role, w)
           \/ OpenFunding(p) \/ CancelProject(p)
           \/ \E c \in Contributors, amount \in AmountInputs : Contribute(p, c, amount)
           \/ FinalizeFunding(p) \/ ActivateProject(p)
  BY <1>1, FundingWrites
<1>2. ASSUME NEW i,
             \/ \E attempt, hash : SubmitEvidence(p, i, attempt, hash)
             \/ OpenReview(p, i) \/ FinalizeReview(p, i) \/ OpenVoting(p, i)
             \/ FinalizeVote(p, i) \/ StartRework(p, i) \/ FinalizeDispute(p, i)
             \/ ReleaseApproved(p, i)
             \/ \E w, attempt, hash, d : Attest(p, i, w, attempt, hash, d)
             \/ \E c, attempt, hash, d : Vote(p, i, c, attempt, hash, d)
             \/ \E w, attempt, d : Arbitrate(p, i, w, attempt, d)
      PROVE  WrittenAt(p)
  BY <1>2, MilestoneWrites
<1>3. CASE ApplyTimeout(p)
  BY <1>3, TimeoutWrites
<1>4. CASE ActorStep(p)
  BY ONLY <1>4, <1>1, <1>2 DEF ActorStep
<1>5. CASE PermissionlessStep(p)
  BY ONLY <1>5, <1>1, <1>2, <1>3 DEF PermissionlessStep
<1>6. QED
  BY <1>4, <1>5

\* A call about another project leaves everything about this one.
LEMMA CallsElsewhere ==
  ASSUME RegistryInv, NEW p \in Projects, NEW q \in Projects, q # p,
         ActorStep(q) \/ PermissionlessStep(q)
  PROVE  /\ About(p)' = About(p)
         /\ Filed(p) => Filed(p)'
<1>1. OthersKept(q) /\ WrittenAt(q)
  BY EveryCallIsShaped, EveryCallWrites
<1>2. QED
  BY <1>1 DEF OthersKept, WrittenAt, About, Filed, Current

\* Neither do the refunds of another project, the clock, or administration.
LEMMA OthersElsewhere ==
  ASSUME RegistryInv, NEW p \in Projects, project[p] # NoProject,
         \/ RegistryTick \/ AdminStep \/ UNCHANGED vars
         \/ \E input \in ProjectInputs : CreateProject(input)
         \/ \E q \in Projects, c \in Contributors : q # p /\ PayRefund(q, c)
  PROVE  About(p)' = About(p)
<1>1. CASE RegistryTick \/ AdminStep \/ UNCHANGED vars
  <2>1. UNCHANGED <<project, milestones>> /\ MoneyKept
    BY <1>1, OtherSteps, OtherMoney
  <2>2. UNCHANGED <<accepted, receipts>>
    BY <1>1, AdminCall DEF RegistryTick, vars, project_vars
  <2>3. QED
    BY <2>1, <2>2 DEF About, MoneyKept
<1>2. CASE \E input \in ProjectInputs : CreateProject(input)
  <2>1. project'[p] = project[p] /\ milestones'[p] = milestones[p] /\ MoneyKept
    BY <1>2, CreatesElsewhere, OtherMoney
  <2>2. UNCHANGED <<accepted, receipts>>
    BY <1>2 DEF CreateProject
  <2>3. QED
    BY <2>1, <2>2 DEF About, MoneyKept
<1>3. ASSUME NEW q \in Projects, NEW c \in Contributors, q # p, PayRefund(q, c)
      PROVE  About(p)' = About(p)
  <2>1. UNCHANGED project_vars /\ ClaimRefund(q, c)
    BY <1>3 DEF PayRefund
  <2>2. vault'[p] = vault[p] /\ contribution'[p] = contribution[p]
          /\ refund_receipt'[p] = refund_receipt[p]
    BY <1>3, <2>1 DEF ClaimRefund, RegistryInv, Books, EscrowInv, EscrowTypeOK
  <2>3. QED
    BY <2>1, <2>2 DEF About, project_vars
<1>4. QED
  BY <1>1, <1>2, <1>3

\* A refund leaves the milestones and the receipts alone.
LEMMA RefundsFiled ==
  ASSUME NEW p \in Projects, Filed(p), NEW q \in Projects, NEW c, PayRefund(q, c)
  PROVE  Filed(p)'
BY DEF PayRefund, project_vars, Filed, Current

\* A new project has delivered nothing.
LEMMA CreatesFiled ==
  ASSUME RegistryInv, NEW p \in Projects, Filed(p),
         NEW input \in ProjectInputs, CreateProject(input)
  PROVE  Filed(p)'
<1>1. CASE project[p] # NoProject
  BY <1>1, OthersElsewhere DEF Filed, About, Current
<1>2. CASE project[p] = NoProject
  <2>1. CASE p # next_project_id
    BY <1>2, <2>1, CreatesTerms DEF Filed
  <2>2. CASE p = next_project_id
    <3>1. /\ project \in [Projects -> Project \cup {NoProject}]
          /\ milestones \in [Projects -> MilestoneLists]
      BY DEF RegistryInv, ProjectTypes
    <3>2. Current(p)' = 0
      BY <2>2, <3>1 DEF CreateProject, Current
    <3>3. 0 \in 0..(Len(input.amounts) - 1)
      <4>1. Len(input.amounts) \in 2..5
        BY DEF CreateProject, ValidProjectInput
      <4>2. \A n \in 2..5 : 0 \in 0..(n - 1)
        OBVIOUS
      <4>3. QED
        BY ONLY <4>1, <4>2, Zenon
    <3>4. milestones'[p][0].status = "Pending"
      BY <2>2, <3>1, <3>3 DEF CreateProject, NewMilestone
    <3>5. QED
      BY <3>2, <3>4 DEF Filed, FiledStages
  <2>3. QED
    BY <2>1, <2>2
<1>3. QED
  BY <1>1, <1>2

\* Together with the invariant of the registry, it is inductive.
PageInv == RegistryInv /\ \A p \in Projects : Filed(p)

LEMMA PageInitInv == RegistryInit => PageInv
<1>1. RegistryInit => \A p \in Projects : project[p] = NoProject
  BY DEF RegistryInit
<1>2. QED
  BY <1>1, RegistryInitInv DEF PageInv, Filed

LEMMA PageNextInv == PageInv /\ [RegistryNext]_vars => PageInv'
<1> SUFFICES ASSUME PageInv, [RegistryNext]_vars PROVE PageInv'
  OBVIOUS
<1>1. RegistryInv /\ RegistryInv'
  BY RegistryNextInv DEF PageInv
<1>2. ASSUME NEW p \in Projects PROVE Filed(p)'
  <2>1. Filed(p)
    BY DEF PageInv
  <2>2. CASE RegistryTick \/ AdminStep \/ UNCHANGED vars
    <3>1. UNCHANGED <<project, milestones, receipts>>
      BY <1>1, <2>2, AdminCall DEF RegistryTick, vars, project_vars
    <3>2. QED
      BY <2>1, <3>1 DEF Filed, Current
  <2>3. CASE \E input \in ProjectInputs : CreateProject(input)
    BY <1>1, <2>1, <2>3, CreatesFiled
  <2>4. CASE \E q \in Projects, c \in Contributors : PayRefund(q, c)
    BY <2>1, <2>4, RefundsFiled
  <2>5. ASSUME NEW q \in Projects, ActorStep(q) \/ PermissionlessStep(q)
        PROVE  Filed(p)'
    <3>1. CASE q = p
      BY <1>1, <2>1, <2>5, <3>1, EveryCallFiles
    <3>2. CASE q # p
      BY <1>1, <2>1, <2>5, <3>2, CallsElsewhere
    <3>3. QED
      BY <3>1, <3>2
  <2>6. QED
    BY <2>2, <2>3, <2>4, <2>5 DEF RegistryNext
<1>3. QED
  BY <1>1, <1>2 DEF PageInv

\* Whatever is done to a project, a button of its page does.
LEMMA StepOffered ==
  ASSUME PageInv, [RegistryNext]_vars, NEW p \in Projects, project[p] # NoProject,
         About(p)' # About(p)
  PROVE  DraftEdited(p) \/ Offered(p)
<1>1. RegistryInv /\ Filed(p)
  BY DEF PageInv
<1>2. ~(RegistryTick \/ AdminStep \/ UNCHANGED vars
          \/ \E input \in ProjectInputs : CreateProject(input))
  BY <1>1, OthersElsewhere
<1>3. ASSUME NEW q \in Projects, NEW c \in Contributors, PayRefund(q, c)
      PROVE  Offered(p)
  <2>1. q = p
    BY <1>1, <1>3, OthersElsewhere
  <2>2. QED
    BY <1>1, <1>3, <2>1, RefundIsOffered
<1>4. ASSUME NEW q \in Projects, ActorStep(q) \/ PermissionlessStep(q)
      PROVE  DraftEdited(p) \/ Offered(p)
  <2>1. q = p
    BY <1>1, <1>4, CallsElsewhere
  <2>2. QED
    BY <1>1, <1>4, <2>1, EveryCallIsOffered
<1>5. QED
  BY <1>2, <1>3, <1>4 DEF RegistryNext

(***************************************************************************)
(* Nobody needs more than the page: in every behaviour of the contracts,   *)
(* whatever is done about a project that is no draft any more, some        *)
(* account is offered as a button at that moment, and the click sends      *)
(* exactly that call.  It rests on the evidence being on file wherever a   *)
(* milestone has been delivered, which the buttons that cite it ask for.   *)
(***************************************************************************)
THEOREM PageOffersAlways == RegistrySpec => PageOffersEveryMove
<1>1. RegistrySpec => []PageInv
  BY PageInitInv, PageNextInv, PTL DEF RegistrySpec
<1>2. PageInv /\ [RegistryNext]_vars
        => [\A p \in Created : About(p)' # About(p) => DraftEdited(p) \/ Offered(p)]_vars
  BY StepOffered DEF Created
<1>3. (\A p \in Created : About(p)' # About(p) => DraftEdited(p) \/ Offered(p)) =>
        \A p \in Created :
          About(p)' # About(p) =>
            \/ DraftEdited(p)
            \/ \E a \in Wallets : \E label \in Buttons(p, a) : Sends(p, a, label)
  BY DEF Offered
<1>4. QED
  BY <1>1, <1>2, <1>3, PTL DEF RegistrySpec, PageOffersEveryMove

=============================================================================
