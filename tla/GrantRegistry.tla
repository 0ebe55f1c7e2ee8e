---------------------------- MODULE GrantRegistry ----------------------------
(***************************************************************************)
(* The Level 3 registry over its escrow: funding, a contributor vote per   *)
(* milestone, release.  The registry calls the escrow in its own           *)
(* transaction; contributors call the escrow directly, and the two         *)
(* contracts are paused separately.                                        *)
(***************************************************************************)
EXTENDS GrantEscrow

CONSTANTS
  OptionCount,   \* external: options of the Signals poll
  GrantInputs,   \* arguments of create_grant that are tried
  NoGrant        \* an absent Grant entry

BPS_DENOMINATOR == 10000

Grant == [goal : Nat \ {0}, deadline : Int,
          approval_bps : 1..BPS_DENOMINATOR, quorum_bps : 1..BPS_DENOMINATOR,
          status : {"Funding", "Active", "Failed", "Cancelled", "Completed"},
          current_milestone : Nat]

Milestone == [amount : Nat \ {0}, yes_weight : Nat, no_weight : Nat,
              status : {"Pending", "Voting", "Released"}]

ASSUME GrantRegistryAssumption ==
  /\ Grants \subseteq Nat
  /\ OptionCount \in Nat
  /\ GrantInputs \subseteq
       [asset : Assets, category : Nat, goal : Int, deadline : Int, amounts : Seq(Int),
        approval_bps : Nat, quorum_bps : Nat]
  /\ NoGrant \notin Grant

VARIABLES
  registry_paused,
  next_grant_id,
  grant,
  milestones,    \* Milestones(grant), a function from milestone indices
  voted          \* Voted(grant, milestone, wallet), a set of wallets each

registry_vars == <<registry_paused, next_grant_id, grant, milestones, voted>>
vars          == <<escrow_vars, registry_vars>>

RegistryInit ==
  /\ EscrowInit
  /\ registry_paused = FALSE
  /\ next_grant_id = 1
  /\ grant = [g \in Grants |-> NoGrant]
  /\ milestones = [g \in Grants |-> <<>>]
  /\ voted = [g \in Grants |-> [i \in 0..4 |-> {}]]

HasStatus(g, status) == grant[g] # NoGrant /\ grant[g].status = status

SetStatus(g, status) == grant' = [grant EXCEPT ![g].status = status]

CreateGrant(input) ==
  LET g == next_grant_id
      n == Len(input.amounts)
  IN
  /\ g \in Grants
  /\ ~registry_paused
  /\ input.goal > 0
  /\ input.deadline > now
  /\ {input.approval_bps, input.quorum_bps} \subseteq 1..BPS_DENOMINATOR
  /\ input.category < OptionCount
  /\ n \in 2..5
  /\ \A m \in 1..n : input.amounts[m] > 0
  /\ SumFunction(input.amounts) = input.goal
  /\ OpenGrant(g, input.asset, input.goal, input.deadline)
  /\ next_grant_id' = g + 1
  /\ grant' = [grant EXCEPT ![g] =
       [goal |-> input.goal, deadline |-> input.deadline,
        approval_bps |-> input.approval_bps, quorum_bps |-> input.quorum_bps,
        status |-> "Funding", current_milestone |-> 0]]
  /\ milestones' = [milestones EXCEPT ![g] =
       [i \in 0..(n - 1) |->
          [amount |-> input.amounts[i + 1], yes_weight |-> 0, no_weight |-> 0,
           status |-> IF i = 0 THEN "Voting" ELSE "Pending"]]]
  /\ UNCHANGED <<registry_paused, voted>>

FundedAtDeadline(g) == now >= grant[g].deadline

Funded(g) == vault[g].deposited = grant[g].goal

FinalizeFunding(g) ==
  /\ ~registry_paused
  /\ HasStatus(g, "Funding")
  /\ \/ /\ Funded(g)
        /\ SetStatus(g, "Active")
        /\ UNCHANGED escrow_vars
     \/ /\ ~Funded(g)
        /\ now >= grant[g].deadline
        /\ SetRefundable(g)
        /\ SetStatus(g, "Failed")
  /\ UNCHANGED <<registry_paused, next_grant_id, milestones, voted>>

\* The milestone being voted on, and the milestones with it replaced by m.
Current(g)        == milestones[g][grant[g].current_milestone]
WithCurrent(g, m)  == [milestones[g] EXCEPT ![grant[g].current_milestone] = m]

VoteMilestone(g, v, approve) ==
  LET weight == contribution[g][v] IN
  /\ ~registry_paused
  /\ HasStatus(g, "Active")
  /\ v \notin voted[g][grant[g].current_milestone]
  /\ weight > 0
  /\ Current(g).status = "Voting"
  /\ milestones' = [milestones EXCEPT ![g] = WithCurrent(g,
       [Current(g) EXCEPT !.yes_weight = IF approve THEN @ + weight ELSE @,
                          !.no_weight  = IF approve THEN @ ELSE @ + weight])]
  /\ voted' = [voted EXCEPT ![g][grant[g].current_milestone] = @ \cup {v}]
  /\ UNCHANGED <<escrow_vars, registry_paused, next_grant_id, grant>>

ApprovedByMajority(g, m) ==
  m.yes_weight * BPS_DENOMINATOR
    >= (m.yes_weight + m.no_weight) * grant[g].approval_bps

\* Quorum of everything deposited, and approval of everything cast.
Approved(g, m) ==
  LET participation == m.yes_weight + m.no_weight IN
  /\ participation * BPS_DENOMINATOR >= vault[g].deposited * grant[g].quorum_bps
  /\ m.yes_weight * BPS_DENOMINATOR >= participation * grant[g].approval_bps

FinalizeMilestone(g) ==
  LET i    == grant[g].current_milestone
      paid == WithCurrent(g, [Current(g) EXCEPT !.status = "Released"])
  IN
  /\ ~registry_paused
  /\ HasStatus(g, "Active")
  /\ Current(g).status = "Voting"
  /\ Approved(g, Current(g))
  /\ Release(g, Current(g).amount)
  /\ \/ /\ i + 1 \notin DOMAIN milestones[g]
        /\ SetStatus(g, "Completed")
        /\ milestones' = [milestones EXCEPT ![g] = paid]
     \/ /\ i + 1 \in DOMAIN milestones[g]
        /\ grant' = [grant EXCEPT ![g].current_milestone = i + 1]
        /\ milestones' = [milestones EXCEPT ![g] =
                            [paid EXCEPT ![i + 1].status = "Voting"]]
  /\ UNCHANGED <<registry_paused, next_grant_id, voted>>

CancelGrant(g) ==
  /\ ~registry_paused
  /\ HasStatus(g, "Funding")
  /\ SetRefundable(g)
  /\ SetStatus(g, "Cancelled")
  /\ UNCHANGED <<registry_paused, next_grant_id, milestones, voted>>

SetRegistryPaused(paused) ==
  /\ registry_paused' = paused
  /\ UNCHANGED <<escrow_vars, next_grant_id, grant, milestones, voted>>

RegistryNext ==
  \/ \E input \in GrantInputs : CreateGrant(input)
  \/ \E g \in Grants :
       \/ FinalizeFunding(g) \/ FinalizeMilestone(g) \/ CancelGrant(g)
       \/ \E v \in Contributors, approve \in BOOLEAN : VoteMilestone(g, v, approve)
  \/ \E paused \in BOOLEAN : SetRegistryPaused(paused)
  \/ /\ \/ Tick
        \/ \E g \in Grants, c \in Contributors :
             \/ \E amount \in AmountInputs : Contribute(g, c, amount)
             \/ ClaimRefund(g, c)
        \/ \E paused \in BOOLEAN : SetEscrowPaused(paused)
     /\ UNCHANGED registry_vars

GrantSpec == RegistryInit /\ [][RegistryNext]_vars

-----------------------------------------------------------------------------

Created == {g \in Grants : grant[g] # NoGrant}

Owed(g) == vault[g].deposited - vault[g].released - SumFunction(returned[g])

(***************************************************************************)
(* Whatever contributors, creators and administrators do, the escrow holds *)
(* exactly what its vaults owe, and no vault owes less than nothing: no    *)
(* claim and no release takes another grant's money.                       *)
(***************************************************************************)
GrantSolvency ==
  /\ \A g \in Created : Owed(g) >= 0
  /\ \A a \in Assets :
       custody[a] = SumFunction([g \in {h \in Created : vault[h].asset = a} |-> Owed(g)])

(***************************************************************************)
(* The registry's status and the escrow's money agree: refunds are open    *)
(* exactly for failed and cancelled grants, a grant delivers only on a     *)
(* full vault, and exactly the amounts of the released milestones left it. *)
(***************************************************************************)
StatusMatchesMoney ==
  \A g \in Created :
    LET v == vault[g]
        released == {i \in DOMAIN milestones[g] : milestones[g][i].status = "Released"}
    IN
    /\ v.refundable <=> grant[g].status \in {"Failed", "Cancelled"}
    /\ grant[g].status \in {"Active", "Completed"} => v.deposited = v.goal
    /\ grant[g].status = "Completed" => v.released = v.goal
    /\ v.released = SumFunction([i \in released |-> milestones[g][i].amount])

(***************************************************************************)
(* A milestone is paid only after a vote of the contributors, each with    *)
(* the weight of what the escrow holds for it, once, that met quorum and   *)
(* approval.                                                               *)
(***************************************************************************)
ReleasedByVote ==
  \A g \in Created : \A i \in DOMAIN milestones[g] :
    LET m     == milestones[g][i]
        votes == m.yes_weight + m.no_weight
    IN
    /\ votes = SumFunctionOnSet(contribution[g], voted[g][i])
    /\ m.status = "Released" =>
         /\ votes * BPS_DENOMINATOR >= vault[g].goal * grant[g].quorum_bps
         /\ m.yes_weight * BPS_DENOMINATOR >= votes * grant[g].approval_bps

(***************************************************************************)
(* A full pro-rata refund: whoever has contributed more to a failed or     *)
(* cancelled grant than they got back can claim, while the escrow is not   *)
(* paused.                                                                 *)
(***************************************************************************)
FullRefund ==
  \A g \in Created, c \in Contributors :
    (vault[g].refundable /\ ~escrow_paused /\ contribution[g][c] > returned[g][c])
      => ENABLED ClaimRefund(g, c)
=============================================================================
