-------------------------- MODULE FundingAgreement --------------------------
(***************************************************************************)
(* What the registry and the escrow promise together, with neither         *)
(* contract in sight: for each project an agreement between those who give *)
(* and the one who delivers.                                               *)
(*                                                                         *)
(* Money is given to a plan of milestones until it is met to the unit.     *)
(* From then on it leaves in two ways only: to the project, one milestone  *)
(* after the other and each its planned amount, or, once and for all, back *)
(* to those who gave it.  Who decides, and by when, is left open.          *)
(***************************************************************************)
EXTENDS Integers, Sequences, FiniteSets, Functions

CONSTANTS
  Projects,
  Contributors,
  Plans,           \* the milestone amounts a project may propose
  MinContributors  \* fewer givers than this and nothing is delivered

VARIABLES
  phase,    \* how far the agreement on a project has come
  plan,     \* the amounts of its milestones
  given,    \* what each contributor gave
  paid,     \* how many milestones have been paid
  repaid,   \* the contributors who have taken their share back
  held      \* the money in custody for the project

agreement == <<phase, plan, given, paid, repaid, held>>

Goal(p) == SumFunction(plan[p])

Givers(p) == {c \in Contributors : given[p][c] > 0}

Init ==
  /\ phase = [p \in Projects |-> "proposed"]
  /\ plan = [p \in Projects |-> <<>>]
  /\ given = [p \in Projects |-> [c \in Contributors |-> 0]]
  /\ paid = [p \in Projects |-> 0]
  /\ repaid = [p \in Projects |-> {}]
  /\ held = [p \in Projects |-> 0]

Open(p) ==
  /\ phase[p] = "proposed"
  /\ phase' = [phase EXCEPT ![p] = "funding"]
  /\ \E amounts \in Plans : plan' = [plan EXCEPT ![p] = amounts]
  /\ UNCHANGED <<given, paid, repaid, held>>

\* The gift that meets the plan closes the funding.
Give(p, c, amount) ==
  /\ phase[p] = "funding"
  /\ amount > 0
  /\ held[p] + amount <= Goal(p)
  /\ given' = [given EXCEPT ![p][c] = @ + amount]
  /\ held' = [held EXCEPT ![p] = @ + amount]
  /\ phase' = [phase EXCEPT ![p] = IF held'[p] = Goal(p) THEN "funded" ELSE @]
  /\ UNCHANGED <<plan, paid, repaid>>

Begin(p) ==
  /\ phase[p] = "funded"
  /\ Cardinality(Givers(p)) >= MinContributors
  /\ phase' = [phase EXCEPT ![p] = "delivering"]
  /\ UNCHANGED <<plan, given, paid, repaid, held>>

Pay(p) ==
  /\ phase[p] = "delivering"
  /\ paid' = [paid EXCEPT ![p] = @ + 1]
  /\ held' = [held EXCEPT ![p] = @ - plan[p][paid[p] + 1]]
  /\ phase' = [phase EXCEPT ![p] =
                 IF paid'[p] = Len(plan[p]) THEN "completed" ELSE @]
  /\ UNCHANGED <<plan, given, repaid>>

\* No way leads here from a completed project.
Return(p) ==
  /\ phase[p] \in {"funding", "funded", "delivering"}
  /\ phase' = [phase EXCEPT ![p] = "returning"]
  /\ UNCHANGED <<plan, given, paid, repaid, held>>

\* Each giver takes a share once, and the last one leaves nothing behind.
Repay(p, c) ==
  /\ phase[p] = "returning"
  /\ c \in Givers(p) \ repaid[p]
  /\ repaid' = [repaid EXCEPT ![p] = @ \cup {c}]
  /\ \E share \in 0..held[p] : held' = [held EXCEPT ![p] = @ - share]
  /\ Givers(p) \subseteq repaid'[p] => held'[p] = 0
  /\ UNCHANGED <<phase, plan, given, paid>>

Next ==
  \E p \in Projects :
    \/ Open(p) \/ Begin(p) \/ Pay(p) \/ Return(p)
    \/ \E c \in Contributors :
         \/ Repay(p, c)
         \/ Give(p, c, given'[p][c] - given[p][c])

Spec == Init /\ [][Next]_agreement
=============================================================================
