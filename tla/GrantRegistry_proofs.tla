------------------------ MODULE GrantRegistry_proofs ------------------------
(***************************************************************************)
(* The money and the votes of the Level 3 grants, proved for every number  *)
(* of grants, contributors and assets, and for every plan and threshold.   *)
(***************************************************************************)
EXTENDS GrantRegistry, SumTheorems

GrantTypeOK ==
  /\ now \in Nat
  /\ vault \in [Grants -> Vault \cup {NoVault}]
  /\ contribution \in [Grants -> [Contributors -> Nat]]
  /\ returned \in [Grants -> [Contributors -> Nat]]
  /\ refunded \in [Grants -> SUBSET Contributors]
  /\ custody \in [Assets -> Int]
  /\ next_grant_id \in Nat
  /\ grant \in [Grants -> Grant \cup {NoGrant}]
  /\ voted \in [Grants -> [0..4 -> SUBSET Contributors]]
  /\ DOMAIN milestones = Grants

\* A grant that is not there yet.
Blank(g) ==
  /\ vault[g] = NoVault
  /\ contribution[g] = [c \in Contributors |-> 0]
  /\ returned[g] = [c \in Contributors |-> 0]
  /\ refunded[g] = {}
  /\ voted[g] = [i \in 0..4 |-> {}]

(***************************************************************************)
(* What the escrow knows of one grant: deposits are what was contributed,  *)
(* refunds and releases exclude each other, and nobody gets back more than *)
(* they gave.                                                              *)
(***************************************************************************)
MoneyOK(v, given, back, claimed) ==
  /\ v.deposited = SumFunctionOnSet(given, Contributors)
  /\ v.released <= v.deposited
  /\ v.deposited <= v.goal
  /\ v.refundable => v.released = 0
  /\ \A c \in Contributors :
       /\ back[c] <= given[c]
       /\ c \notin claimed => back[c] = 0
       /\ ~v.refundable => back[c] = 0

Released(ms) == {i \in DOMAIN ms : ms[i].status = "Released"}

Amounts(ms) == [i \in DOMAIN ms |-> ms[i].amount]

(***************************************************************************)
(* The registry's plan against the vault: milestones are released in their *)
(* order, only of a funded grant, and what has left the vault is what they *)
(* add up to.                                                              *)
(***************************************************************************)
PlanOK(gr, ms, v) ==
  /\ v.goal = gr.goal
  /\ gr.current_milestone \in DOMAIN ms
  /\ \E n \in 2..5 : DOMAIN ms = 0..(n - 1) /\ ms \in [0..(n - 1) -> Milestone]
  /\ SumFunctionOnSet(Amounts(ms), DOMAIN ms) = v.goal
  /\ v.released = SumFunctionOnSet(Amounts(ms), Released(ms))
  /\ v.refundable <=> gr.status \in {"Failed", "Cancelled"}
  /\ gr.status \in {"Active", "Completed"} => v.deposited = v.goal
  /\ gr.status = "Completed" => Released(ms) = DOMAIN ms
  /\ gr.status = "Active" =>
       \A i \in DOMAIN ms : ms[i].status =
         IF i < gr.current_milestone THEN "Released"
         ELSE IF i = gr.current_milestone THEN "Voting" ELSE "Pending"
  /\ gr.status \in {"Funding", "Failed", "Cancelled"} =>
       /\ gr.current_milestone = 0
       /\ \A i \in DOMAIN ms : ms[i].status = IF i = 0 THEN "Voting" ELSE "Pending"

(***************************************************************************)
(* The ballots of one grant: nobody votes before it is funded, weights are *)
(* what the voters contributed, and a release met quorum and approval.     *)
(***************************************************************************)
VotesOK(gr, ms, goal, given, ballots) ==
  /\ gr.status \notin {"Active", "Completed"} => \A i \in 0..4 : ballots[i] = {}
  /\ \A i \in DOMAIN ms :
       LET votes == ms[i].yes_weight + ms[i].no_weight IN
       /\ votes = SumFunctionOnSet(given, ballots[i])
       /\ ms[i].status = "Released" =>
            /\ votes * BPS_DENOMINATOR >= goal * gr.quorum_bps
            /\ ms[i].yes_weight * BPS_DENOMINATOR >= votes * gr.approval_bps

GrantOK(g) ==
  IF grant[g] = NoGrant THEN Blank(g)
  ELSE /\ vault[g] \in Vault
       /\ g < next_grant_id
       /\ MoneyOK(vault[g], contribution[g], returned[g], refunded[g])
       /\ PlanOK(grant[g], milestones[g], vault[g])
       /\ VotesOK(grant[g], milestones[g], vault[g].goal, contribution[g], voted[g])

Debts(a) ==
  [g \in Grants |-> IF grant[g] # NoGrant /\ vault[g].asset = a THEN Owed(g) ELSE 0]

CustodyOK == \A a \in Assets : custody[a] = SumFunctionOnSet(Debts(a), Grants)

\* The inductive invariant.
GrantInv ==
  /\ GrantTypeOK
  /\ \A g \in Grants : GrantOK(g)
  /\ CustodyOK

-----------------------------------------------------------------------------
(* What the parts of the invariant say of one grant.                        *)

\* What a vault owes is a number, and never negative.
LEMMA OwedOK ==
  ASSUME GrantTypeOK, NEW g \in Grants, GrantOK(g), grant[g] # NoGrant
  PROVE  /\ SumFunctionOnSet(returned[g], Contributors) \in Nat
         /\ SumFunctionOnSet(contribution[g], Contributors) \in Nat
         /\ Owed(g) = vault[g].deposited - vault[g].released
                         - SumFunctionOnSet(returned[g], Contributors)
         /\ Owed(g) \in Nat
<1> DEFINE back == returned[g]
           given == contribution[g]
<1>1. /\ back \in [Contributors -> Nat] /\ given \in [Contributors -> Nat]
      /\ vault[g] \in Vault /\ MoneyOK(vault[g], given, back, refunded[g])
  BY DEF GrantTypeOK, GrantOK
<1>2. Owed(g) = vault[g].deposited - vault[g].released - SumFunctionOnSet(back, Contributors)
  BY <1>1 DEF Owed, SumFunction
<1> HIDE DEF back, given
<1>3. SumFunctionOnSet(back, Contributors) \in Nat /\ SumFunctionOnSet(given, Contributors) \in Nat
  BY <1>1, SumNat, GrantEscrowAssumption
<1>4. SumFunctionOnSet(back, Contributors) <= SumFunctionOnSet(given, Contributors)
  BY <1>1, SumLeq, GrantEscrowAssumption DEF MoneyOK
<1>5. ~vault[g].refundable => SumFunctionOnSet(back, Contributors) = 0
  BY <1>1, SumOfZeros, GrantEscrowAssumption DEF MoneyOK
<1>6. vault[g].deposited \in Nat /\ vault[g].released \in Nat
  BY <1>1 DEF Vault
<1>7. Owed(g) \in Nat
  BY <1>1, <1>2, <1>3, <1>4, <1>5, <1>6 DEF MoneyOK
<1>8. QED
  BY <1>2, <1>3, <1>7 DEF back, given

\* What is owed in one asset, grant by grant, is a function to the naturals.
LEMMA DebtsAreNumbers ==
  ASSUME GrantTypeOK, \A g \in Grants : GrantOK(g), NEW a \in Assets
  PROVE  Debts(a) \in [Grants -> Nat]
BY OwedOK DEF Debts

\* A step that changes what one grant is owed and the balance by the same
\* amount.
LEMMA CustodyStep ==
  ASSUME GrantInv, NEW h \in Grants, NEW b \in Assets, NEW d \in Int,
         \A g \in Grants \ {h}, a \in Assets : Debts(a)'[g] = Debts(a)[g],
         \A a \in Assets : Debts(a)'[h] = Debts(a)[h] + (IF a = b THEN d ELSE 0),
         custody' = [custody EXCEPT ![b] = @ + d]
  PROVE  CustodyOK'
<1> SUFFICES ASSUME NEW a \in Assets
             PROVE  custody'[a] = SumFunctionOnSet(Debts(a)', Grants)
  BY DEF CustodyOK
<1>1. Debts(a) \in [Grants -> Nat]
  BY DebtsAreNumbers DEF GrantInv
<1> DEFINE old == Debts(a)
           new == Debts(a)'
<1>3. custody[a] = SumFunctionOnSet(old, Grants) /\ custody \in [Assets -> Int]
  BY DEF GrantInv, CustodyOK, GrantTypeOK
<1>4. /\ \A g \in Grants \ {h} : new[g] = old[g]
      /\ new[h] = old[h] + (IF a = b THEN d ELSE 0)
  OBVIOUS
<1>5. /\ \A g \in Grants : old[g] \in Int
      /\ \A g \in Grants : new[g] \in Int
  BY <1>1, <1>4
<1> HIDE DEF old, new
<1>6. SumFunctionOnSet(new, Grants) = SumFunctionOnSet(old, Grants) + (new[h] - old[h])
  BY <1>4, <1>5, SumChange, GrantEscrowAssumption
<1>7. SumFunctionOnSet(old, Grants) \in Int
  BY <1>5, SumInt, GrantEscrowAssumption
<1>8. custody'[a] = custody[a] + (IF a = b THEN d ELSE 0)
  BY <1>3
<1>9. QED
  BY <1>3, <1>4, <1>5, <1>6, <1>7, <1>8 DEF new

\* A grant that a step leaves alone stays in order.
LEMMA Untouched ==
  ASSUME NEW g \in Grants, GrantOK(g), next_grant_id \in Nat, next_grant_id' \in Nat,
         next_grant_id <= next_grant_id', g \in Nat,
         vault'[g] = vault[g], contribution'[g] = contribution[g],
         returned'[g] = returned[g], refunded'[g] = refunded[g],
         grant'[g] = grant[g], milestones'[g] = milestones[g], voted'[g] = voted[g]
  PROVE  GrantOK(g)'
BY DEF GrantOK, Blank

-----------------------------------------------------------------------------
(* One lemma for each operation.                                            *)

\* Milestones counted from zero add up to what the amounts, counted from one,
\* add up to.
LEMMA AmountsFromZero ==
  ASSUME NEW amounts \in Seq(Int), NEW n \in Nat, n = Len(amounts), NEW ms,
         DOMAIN ms = 0..(n - 1), \A i \in 0..(n - 1) : ms[i].amount = amounts[i + 1]
  PROVE  SumFunctionOnSet(Amounts(ms), DOMAIN ms) = SumFunction(amounts)
<1> DEFINE S  == 0..(n - 1)
           up == [i \in S |-> i + 1]
           f  == Amounts(ms)
<1>1. IsFiniteSet(S)
  <2>1. 0 \in Int /\ n - 1 \in Int
    OBVIOUS
  <2>2. QED
    BY <2>1, FS_Interval
<1>2. DOMAIN ms = S /\ DOMAIN amounts = 1..n
  OBVIOUS
<1>3. \A i \in S : f[i] = amounts[up[i]] /\ amounts[up[i]] \in Int
  BY <1>2 DEF Amounts
<1>4. \A i, j \in S : up[i] = up[j] => i = j
  OBVIOUS
<1>5. /\ \A i \in S : up[i] \in 1..n
      /\ \A k \in 1..n : k - 1 \in S /\ up[k - 1] = k
  OBVIOUS
<1> DEFINE All == 1..n
<1>6. up \in Bijection(S, All)
  BY <1>4, <1>5 DEF Bijection, Injection, Surjection, IsInjective
<1> HIDE DEF S, up, f, All
<1>7. SumFunctionOnSet(f, S) = SumFunctionOnSet(amounts, All)
  BY <1>1, <1>3, <1>6, SumReindexed
<1>8. QED
  BY <1>2, <1>7 DEF SumFunction, f, All

\* A new grant has an empty vault whose goal is what its milestones add up to.
LEMMA CreateGrantInv ==
  ASSUME GrantInv, NEW input \in GrantInputs, CreateGrant(input),
         NEW g \in Grants, g = next_grant_id
  PROVE  GrantInv'
<1> DEFINE n == Len(input.amounts)
           given == contribution[g]
           ms == milestones'[g]
           v == vault'[g]
<1>0. GrantTypeOK /\ (\A h \in Grants : GrantOK(h)) /\ CustodyOK
  BY DEF GrantInv
<1>1. /\ input.asset \in Assets /\ input.goal \in Int /\ input.deadline \in Int
      /\ input.amounts \in Seq(Int) /\ n \in Nat
      /\ input.approval_bps \in Nat /\ input.quorum_bps \in Nat
  BY GrantRegistryAssumption
<1>2. /\ g \in Grants /\ g \in Nat /\ vault[g] = NoVault /\ next_grant_id' = g + 1
      /\ input.goal > 0
      /\ input.approval_bps \in 1..BPS_DENOMINATOR
      /\ input.quorum_bps \in 1..BPS_DENOMINATOR
      /\ n \in 2..5 /\ \A m \in 1..n : input.amounts[m] > 0
      /\ SumFunction(input.amounts) = input.goal
  BY GrantRegistryAssumption DEF CreateGrant, OpenGrant
<1>3. /\ UNCHANGED <<now, contribution, refunded, custody, returned, voted>>
      /\ vault' = [vault EXCEPT ![g] =
            [asset |-> input.asset, goal |-> input.goal, deadline |-> input.deadline,
             deposited |-> 0, released |-> 0, refundable |-> FALSE]]
      /\ grant' = [grant EXCEPT ![g] =
            [goal |-> input.goal, deadline |-> input.deadline,
             approval_bps |-> input.approval_bps, quorum_bps |-> input.quorum_bps,
             status |-> "Funding", current_milestone |-> 0]]
      /\ milestones' = [milestones EXCEPT ![g] =
            [i \in 0..(n - 1) |->
               [amount |-> input.amounts[i + 1], yes_weight |-> 0, no_weight |-> 0,
                status |-> IF i = 0 THEN "Voting" ELSE "Pending"]]]
  BY DEF CreateGrant, OpenGrant
<1>4. grant[g] = NoGrant /\ Blank(g)
  BY <1>0, <1>2, GrantEscrowAssumption DEF GrantOK
<1>5. /\ v \in Vault
      /\ v = [asset |-> input.asset, goal |-> input.goal, deadline |-> input.deadline,
              deposited |-> 0, released |-> 0, refundable |-> FALSE]
      /\ grant'[g] \in Grant
      /\ grant'[g].goal = input.goal /\ grant'[g].status = "Funding"
      /\ grant'[g].current_milestone = 0
  BY <1>0, <1>1, <1>2, <1>3 DEF GrantTypeOK, Vault, Grant
<1>6. GrantTypeOK'
  BY <1>0, <1>2, <1>3, <1>5 DEF GrantTypeOK
<1>7. \A h \in Grants \ {g} : GrantOK(h)'
  BY <1>0, <1>2, <1>3, <1>6, Untouched, GrantRegistryAssumption DEF GrantTypeOK
<1>8. MoneyOK(v, given, returned[g], refunded[g])
  <2>1. SumFunctionOnSet(given, Contributors) = 0
    BY <1>4, SumOfZeros, GrantEscrowAssumption DEF Blank
  <2>2. QED
    BY <1>1, <1>2, <1>4, <1>5, <2>1 DEF MoneyOK, Blank
<1>9. ms = [i \in 0..(n - 1) |->
             [amount |-> input.amounts[i + 1], yes_weight |-> 0, no_weight |-> 0,
              status |-> IF i = 0 THEN "Voting" ELSE "Pending"]]
  BY <1>0, <1>2, <1>3 DEF GrantTypeOK
<1> HIDE DEF ms, v, n
<1>10. /\ DOMAIN ms = 0..(n - 1)
       /\ \A i \in 0..(n - 1) :
            /\ ms[i].amount = input.amounts[i + 1]
            /\ ms[i].yes_weight = 0 /\ ms[i].no_weight = 0
            /\ ms[i].status = IF i = 0 THEN "Voting" ELSE "Pending"
  BY <1>9
<1>11. PlanOK(grant'[g], ms, v)
  <2>1. ms \in [0..(n - 1) -> Milestone]
    <3>1. \A i \in 0..(n - 1) : i + 1 \in 1..n /\ input.amounts[i + 1] \in Nat \ {0}
      <4>1. \A m \in 1..n : input.amounts[m] \in Int /\ input.amounts[m] > 0
        BY <1>1, <1>2 DEF n
      <4>2. \A i \in 0..(n - 1) : i + 1 \in 1..n
        BY <1>2
      <4>3. QED
        BY <4>1, <4>2
    <3>2. \A i \in 0..(n - 1) :
            [amount |-> input.amounts[i + 1], yes_weight |-> 0, no_weight |-> 0,
             status |-> IF i = 0 THEN "Voting" ELSE "Pending"] \in Milestone
      BY <3>1 DEF Milestone
    <3>3. QED
      BY <1>9, <3>2
  <2>2. SumFunctionOnSet(Amounts(ms), DOMAIN ms) = input.goal
    <3>1. SumFunctionOnSet(Amounts(ms), DOMAIN ms) = SumFunction(input.amounts)
      BY <1>1, <1>10, AmountsFromZero DEF n
    <3>2. QED
      BY <1>2, <3>1
  <2>3. Released(ms) = {}
    BY <1>10 DEF Released
  <2>4. SumFunctionOnSet(Amounts(ms), Released(ms)) = 0
    BY <2>3, SumEmpty
  <2>5. 0 \in DOMAIN ms
    BY <1>2, <1>10
  <2>6. QED
    BY <1>2, <1>5, <1>10, <2>1, <2>2, <2>4, <2>5 DEF PlanOK
<1>12. VotesOK(grant'[g], ms, v.goal, given, voted[g])
  <2>1. SumFunctionOnSet(given, {}) = 0
    BY SumEmpty
  <2>2. \A i \in 0..4 : voted[g][i] = {}
    BY <1>4 DEF Blank
  <2>3. DOMAIN ms \subseteq 0..4
    BY <1>2, <1>10
  <2>4. \A i \in DOMAIN ms : /\ ms[i].yes_weight + ms[i].no_weight = 0
                            /\ ms[i].status # "Released"
    BY <1>10
  <2>5. QED
    BY <1>5, <2>1, <2>2, <2>3, <2>4 DEF VotesOK
<1>14. GrantOK(g)'
  <2>1. g < next_grant_id' /\ grant'[g] # NoGrant
    BY <1>2, <1>5, GrantRegistryAssumption
  <2>2. UNCHANGED <<contribution[g], returned[g], refunded[g], voted[g]>>
    BY <1>3
  <2>3. QED
    BY <1>5, <1>8, <1>11, <1>12, <2>1, <2>2 DEF GrantOK, ms, v
<1>13. CustodyOK'
  <2>1. ASSUME NEW a \in Assets PROVE Debts(a)' = Debts(a)
    <3>1. Owed(g)' = 0
      <4>1. SumFunctionOnSet(returned[g], Contributors) = 0
        BY <1>4, SumOfZeros, GrantEscrowAssumption DEF Blank
      <4>2. DOMAIN returned[g] = Contributors
        BY <1>0, <1>2 DEF GrantTypeOK
      <4>3. QED
        BY <1>3, <1>5, <4>1, <4>2 DEF Owed, SumFunction, v
    <3>2. \A h \in Grants \ {g} : Owed(h)' = Owed(h) /\ grant'[h] = grant[h]
                                  /\ vault'[h] = vault[h]
      BY <1>0, <1>3 DEF Owed, GrantTypeOK
    <3>3. \A h \in Grants : (IF grant'[h] # NoGrant /\ vault'[h].asset = a THEN Owed(h)' ELSE 0)
                        = (IF grant[h] # NoGrant /\ vault[h].asset = a THEN Owed(h) ELSE 0)
      BY <1>4, <3>1, <3>2
    <3>4. QED
      BY <3>3 DEF Debts
  <2>2. QED
    BY <1>0, <1>3, <2>1 DEF CustodyOK
<1>15. QED
  BY <1>6, <1>7, <1>14, <1>13 DEF GrantInv

-----------------------------------------------------------------------------
(* Steps of one grant.                                                      *)

\* What the invariant says of a grant that is there.
LEMMA OfOneGrant ==
  ASSUME GrantInv, NEW g \in Grants, grant[g] # NoGrant
  PROVE  /\ GrantTypeOK
         /\ grant[g] \in Grant /\ vault[g] \in Vault /\ vault[g] # NoVault
         /\ g \in Nat /\ g < next_grant_id /\ next_grant_id \in Nat
         /\ contribution[g] \in [Contributors -> Nat]
         /\ returned[g] \in [Contributors -> Nat]
         /\ voted[g] \in [0..4 -> SUBSET Contributors]
         /\ MoneyOK(vault[g], contribution[g], returned[g], refunded[g])
         /\ PlanOK(grant[g], milestones[g], vault[g])
         /\ VotesOK(grant[g], milestones[g], vault[g].goal, contribution[g], voted[g])
BY GrantRegistryAssumption, GrantEscrowAssumption DEF GrantInv, GrantTypeOK, GrantOK

\* Nothing that the invariant speaks of changes.
LEMMA QuietStep ==
  ASSUME GrantInv, now' \in Nat,
         UNCHANGED <<vault, contribution, returned, refunded, custody,
                     next_grant_id, grant, milestones, voted>>
  PROVE  GrantInv'
<1>1. GrantTypeOK'
  BY DEF GrantInv, GrantTypeOK
<1>2. \A g \in Grants : GrantOK(g)'
  BY DEF GrantInv, GrantOK, Blank
<1>3. \A a \in Assets : Debts(a)' = Debts(a)
  BY DEF Debts, Owed
<1>4. CustodyOK'
  BY <1>3 DEF GrantInv, CustodyOK
<1>5. QED
  BY <1>1, <1>2, <1>4 DEF GrantInv

\* What a vault owes and the balance of its asset change by the same amount.
Moves(g, d) ==
  /\ Owed(g)' = Owed(g) + d
  /\ custody' = [custody EXCEPT ![vault[g].asset] = @ + d]

\* One grant h changes and stays in order, and money moves for it alone.
LEMMA OneGrantStep ==
  ASSUME GrantInv, GrantTypeOK', NEW h \in Grants, grant[h] # NoGrant, grant'[h] # NoGrant,
         GrantOK(h)', next_grant_id' = next_grant_id,
         \A g \in Grants \ {h} :
           /\ vault'[g] = vault[g] /\ contribution'[g] = contribution[g]
           /\ returned'[g] = returned[g] /\ refunded'[g] = refunded[g]
           /\ grant'[g] = grant[g] /\ milestones'[g] = milestones[g]
           /\ voted'[g] = voted[g],
         vault'[h].asset = vault[h].asset,
         NEW d \in Int, Moves(h, d)
  PROVE  GrantInv'
<1>1. \A g \in Grants \ {h} : GrantOK(g)'
  BY Untouched, GrantRegistryAssumption DEF GrantInv, GrantTypeOK
<1>2. vault[h].asset \in Assets
  BY OfOneGrant DEF Vault
<1>3. ASSUME NEW a \in Assets
      PROVE  /\ \A g \in Grants \ {h} : Debts(a)'[g] = Debts(a)[g]
             /\ Debts(a)'[h] = Debts(a)[h] + (IF a = vault[h].asset THEN d ELSE 0)
  <2>1. \A g \in Grants \ {h} : Owed(g)' = Owed(g)
    BY DEF Owed
  <2>2. QED
    BY <2>1 DEF Debts, Moves
<1>4. CustodyOK'
  BY <1>2, <1>3, CustodyStep DEF Moves
<1>5. QED
  BY <1>1, <1>4 DEF GrantInv

\* No payment: the vault owes what it owed, the balance is what it was.
LEMMA NoPayment ==
  ASSUME GrantInv, NEW g \in Grants, grant[g] # NoGrant, grant'[g] # NoGrant,
         UNCHANGED <<custody, returned>>,
         vault'[g].deposited = vault[g].deposited, vault'[g].released = vault[g].released
  PROVE  Moves(g, 0)
<1>1. Owed(g) \in Nat /\ custody \in [Assets -> Int] /\ vault[g].asset \in Assets
  BY OwedOK, OfOneGrant DEF GrantInv, GrantTypeOK, Vault
<1>2. Owed(g)' = Owed(g)
  BY DEF Owed
<1>3. QED
  BY <1>1, <1>2 DEF Moves

\* A full vault makes a grant active; an expired or cancelled one opens its
\* vault for refunds, which nothing has left yet.
LEMMA FinalizeFundingInv ==
  ASSUME GrantInv, NEW g \in Grants, FinalizeFunding(g) \/ CancelGrant(g)
  PROVE  GrantInv'
<1> DEFINE ms == milestones[g]
<1>1. /\ grant[g] # NoGrant /\ grant[g].status = "Funding"
      /\ UNCHANGED <<now, contribution, refunded, custody, returned,
                     next_grant_id, milestones, voted>>
  BY DEF FinalizeFunding, CancelGrant, HasStatus, SetRefundable, escrow_vars
<1>2. /\ GrantTypeOK /\ grant[g] \in Grant /\ vault[g] \in Vault
      /\ g < next_grant_id
      /\ MoneyOK(vault[g], contribution[g], returned[g], refunded[g])
      /\ PlanOK(grant[g], milestones[g], vault[g])
      /\ VotesOK(grant[g], milestones[g], vault[g].goal, contribution[g], voted[g])
  BY <1>1, OfOneGrant
<1>3. \/ /\ grant' = [grant EXCEPT ![g].status = "Active"]
         /\ vault[g].deposited = grant[g].goal
         /\ vault' = vault
      \/ /\ \/ grant' = [grant EXCEPT ![g].status = "Failed"]
            \/ grant' = [grant EXCEPT ![g].status = "Cancelled"]
         /\ vault[g].released = 0
         /\ vault' = [vault EXCEPT ![g].refundable = TRUE]
  BY DEF FinalizeFunding, CancelGrant, SetStatus, SetRefundable, Funded, escrow_vars
<1> DEFINE old == grant[g]
           new == grant'[g]
           v   == vault[g]
           w   == vault'[g]
<1>4. /\ \/ /\ new = [old EXCEPT !.status = "Active"]
            /\ v.deposited = old.goal
            /\ w = v
         \/ /\ \/ new = [old EXCEPT !.status = "Failed"]
               \/ new = [old EXCEPT !.status = "Cancelled"]
            /\ v.released = 0
            /\ w = [v EXCEPT !.refundable = TRUE]
      /\ old \in Grant /\ v \in Vault /\ old.status = "Funding"
      /\ v.refundable = FALSE
  <2>1. v.refundable = FALSE
    BY <1>1, <1>2 DEF PlanOK, Vault
  <2>2. QED
    BY <1>1, <1>2, <1>3, <2>1 DEF GrantTypeOK
<1> HIDE DEF old, new, v, w
<1>20. /\ new \in Grant
       /\ new.goal = old.goal /\ new.quorum_bps = old.quorum_bps
       /\ new.approval_bps = old.approval_bps
       /\ new.current_milestone = old.current_milestone
       /\ new.status \in {"Active", "Failed", "Cancelled"}
  BY <1>4 DEF Grant
<1>21. /\ w \in Vault
       /\ w.asset = v.asset /\ w.goal = v.goal
       /\ w.deposited = v.deposited /\ w.released = v.released
  BY <1>4 DEF Vault
<1>22. \/ /\ new.status = "Active" /\ w.refundable = FALSE /\ v.deposited = old.goal
       \/ /\ new.status \in {"Failed", "Cancelled"} /\ w.refundable = TRUE
          /\ v.released = 0
  BY <1>4 DEF Vault, Grant
<1>5. GrantTypeOK'
  <2>1. /\ vault' \in [Grants -> Vault \cup {NoVault}]
        /\ grant' \in [Grants -> Grant \cup {NoGrant}]
    BY <1>2, <1>3, <1>20, <1>21 DEF GrantTypeOK, new, w
  <2>2. QED
    BY <1>1, <1>2, <2>1 DEF GrantTypeOK
<1>6. MoneyOK(w, contribution[g], returned[g], refunded[g])
  BY <1>2, <1>4, <1>21, <1>22 DEF MoneyOK, v
<1>7. PlanOK(new, ms, w)
  <2> DEFINE at == old.current_milestone
  <2>1. /\ PlanOK(old, ms, v) /\ old.status = "Funding"
    BY <1>2, <1>4 DEF v, old
  <2>2. /\ v.goal = old.goal /\ at \in DOMAIN ms
        /\ \E n \in 2..5 : DOMAIN ms = 0..(n - 1) /\ ms \in [0..(n - 1) -> Milestone]
        /\ SumFunctionOnSet(Amounts(ms), DOMAIN ms) = v.goal
        /\ v.released = SumFunctionOnSet(Amounts(ms), Released(ms))
        /\ at = 0
        /\ \A i \in DOMAIN ms : ms[i].status = IF i = 0 THEN "Voting" ELSE "Pending"
    BY <2>1 DEF PlanOK
  <2>3. \A i \in DOMAIN ms : ms[i].status =
          IF i < at THEN "Released" ELSE IF i = at THEN "Voting" ELSE "Pending"
    BY <2>2
  <2>4. w.refundable <=> new.status \in {"Failed", "Cancelled"}
    BY <1>22
  <2>5. new.status \in {"Active", "Completed"} => w.deposited = w.goal
    BY <1>21, <1>22, <2>2
  <2> HIDE DEF ms
  <2>6. new.current_milestone = at /\ new.goal = old.goal /\ new.status # "Completed"
    BY <1>20
  <2> HIDE DEF at
  <2>7. QED
    BY <1>21, <2>2, <2>3, <2>4, <2>5, <2>6 DEF PlanOK
<1>8. VotesOK(new, ms, w.goal, contribution[g], voted[g])
  BY <1>2, <1>4, <1>20, <1>21 DEF VotesOK, v, old
<1>9. new # NoGrant
  BY <1>20, GrantRegistryAssumption
<1>10. GrantOK(g)'
  BY <1>1, <1>2, <1>6, <1>7, <1>8, <1>9, <1>21 DEF GrantOK, new, w
<1>11. Moves(g, 0)
  BY <1>1, <1>9, <1>21, NoPayment DEF new, v, w
<1>13. \A h \in Grants \ {g} :
         /\ vault'[h] = vault[h] /\ contribution'[h] = contribution[h]
         /\ returned'[h] = returned[h] /\ refunded'[h] = refunded[h]
         /\ grant'[h] = grant[h] /\ milestones'[h] = milestones[h]
         /\ voted'[h] = voted[h]
  BY <1>1, <1>2, <1>3 DEF GrantTypeOK
<1>14. vault'[g].asset = vault[g].asset /\ grant'[g] # NoGrant /\ next_grant_id' = next_grant_id
  BY <1>1, <1>9, <1>21 DEF v, w, new
<1>15. QED
  BY <1>1, <1>5, <1>10, <1>11, <1>13, <1>14, OneGrantStep

\* The plan of an active grant: where it stands and what it is made of.
LEMMA ActivePlan ==
  ASSUME GrantInv, NEW g \in Grants, HasStatus(g, "Active")
  PROVE  /\ \E n \in 2..5 : /\ DOMAIN milestones[g] = 0..(n - 1)
                            /\ milestones[g] \in [0..(n - 1) -> Milestone]
         /\ grant[g].current_milestone \in DOMAIN milestones[g]
         /\ DOMAIN milestones[g] \subseteq 0..4
         /\ IsFiniteSet(DOMAIN milestones[g])
         /\ \A i \in DOMAIN milestones[g] :
              milestones[g][i].status =
                IF i < grant[g].current_milestone THEN "Released"
                ELSE IF i = grant[g].current_milestone THEN "Voting" ELSE "Pending"
<1>1. PlanOK(grant[g], milestones[g], vault[g]) /\ grant[g].status = "Active"
  BY OfOneGrant DEF HasStatus
<1>2. PICK n \in 2..5 : /\ DOMAIN milestones[g] = 0..(n - 1)
                        /\ milestones[g] \in [0..(n - 1) -> Milestone]
  BY <1>1 DEF PlanOK
<1>3. IsFiniteSet(DOMAIN milestones[g])
  <2>1. 0 \in Int /\ n - 1 \in Int
    OBVIOUS
  <2>2. QED
    BY <1>2, <2>1, FS_Interval
<1>4. /\ grant[g].current_milestone \in DOMAIN milestones[g]
      /\ \A i \in DOMAIN milestones[g] :
           milestones[g][i].status =
             IF i < grant[g].current_milestone THEN "Released"
             ELSE IF i = grant[g].current_milestone THEN "Voting" ELSE "Pending"
  BY <1>1 DEF PlanOK
<1>5. DOMAIN milestones[g] \subseteq 0..4
  BY <1>2
<1>6. QED
  BY <1>2, <1>3, <1>4, <1>5

\* A vote adds one voter's weight to the ballots of the current milestone, and
\* that voter to its set.
LEMMA VoteMilestoneInv ==
  ASSUME GrantInv, NEW g \in Grants, NEW c \in Contributors, NEW approve \in BOOLEAN,
         VoteMilestone(g, c, approve)
  PROVE  GrantInv'
<1> DEFINE ms     == milestones[g]
           i      == grant[g].current_milestone
           given  == contribution[g]
           weight == given[c]
           m      == ms[i]
           counted == [m EXCEPT !.yes_weight = IF approve THEN @ + weight ELSE @,
                                !.no_weight  = IF approve THEN @ ELSE @ + weight]
           next   == [ms EXCEPT ![i] = counted]
<1>1. /\ HasStatus(g, "Active") /\ grant[g] # NoGrant /\ grant[g].status = "Active"
      /\ c \notin voted[g][i]
      /\ milestones' = [milestones EXCEPT ![g] = next]
      /\ voted' = [voted EXCEPT ![g][i] = @ \cup {c}]
      /\ UNCHANGED <<now, vault, contribution, refunded, custody, returned,
                     next_grant_id, grant>>
  BY DEF VoteMilestone, HasStatus, escrow_vars, Current, WithCurrent
<1>2. /\ GrantTypeOK /\ grant[g] \in Grant /\ vault[g] \in Vault
      /\ g < next_grant_id
      /\ given \in [Contributors -> Nat]
      /\ voted[g] \in [0..4 -> SUBSET Contributors]
      /\ MoneyOK(vault[g], given, returned[g], refunded[g])
      /\ PlanOK(grant[g], ms, vault[g])
      /\ VotesOK(grant[g], ms, vault[g].goal, given, voted[g])
  BY <1>1, OfOneGrant
<1>3. PICK n \in 2..5 : DOMAIN ms = 0..(n - 1) /\ ms \in [0..(n - 1) -> Milestone]
  BY <1>1, ActivePlan
<1>4. /\ i \in DOMAIN ms /\ DOMAIN ms \subseteq 0..4
      /\ m.status = "Voting"
  BY <1>1, ActivePlan
<1>5. milestones'[g] = next /\ voted'[g] = [voted[g] EXCEPT ![i] = @ \cup {c}]
  BY <1>1, <1>2 DEF GrantTypeOK
<1>6. weight \in Nat /\ m \in Milestone
  BY <1>2, <1>3, <1>4
<1> HIDE DEF ms, i, given, weight, m
<1>7. /\ counted \in Milestone
      /\ counted.amount = m.amount /\ counted.status = m.status
      /\ counted.yes_weight + counted.no_weight = (m.yes_weight + m.no_weight) + weight
  <2>1. CASE approve
    <3>1. counted = [m EXCEPT !.yes_weight = @ + weight]
      BY <1>6, <2>1 DEF Milestone
    <3> HIDE DEF counted
    <3>2. QED
      BY <1>6, <3>1 DEF Milestone
  <2>2. CASE ~approve
    <3>1. counted = [m EXCEPT !.no_weight = @ + weight]
      BY <1>6, <2>2 DEF Milestone
    <3> HIDE DEF counted
    <3>2. QED
      BY <1>6, <3>1 DEF Milestone
  <2>3. QED
    BY <2>1, <2>2
<1> HIDE DEF counted
<1>8. /\ DOMAIN next = DOMAIN ms
      /\ next \in [0..(n - 1) -> Milestone]
      /\ next[i] = counted
      /\ \A j \in DOMAIN ms : /\ j # i => next[j] = ms[j]
                              /\ next[j].amount = ms[j].amount
                              /\ next[j].status = ms[j].status
  BY <1>3, <1>4, <1>7 DEF m
<1> HIDE DEF next
<1>9. GrantTypeOK'
  <2>1. voted' \in [Grants -> [0..4 -> SUBSET Contributors]]
    BY <1>1, <1>2, <1>4, <1>5 DEF GrantTypeOK
  <2>2. QED
    BY <1>1, <1>2, <2>1 DEF GrantTypeOK
<1>10. PlanOK(grant[g], next, vault[g])
  <2>1. Amounts(next) = Amounts(ms) /\ Released(next) = Released(ms)
    BY <1>8 DEF Amounts, Released
  <2>2. \E k \in 2..5 : DOMAIN next = 0..(k - 1) /\ next \in [0..(k - 1) -> Milestone]
    BY <1>3, <1>8
  <2>3. /\ vault[g].goal = grant[g].goal
        /\ SumFunctionOnSet(Amounts(ms), DOMAIN ms) = vault[g].goal
        /\ vault[g].released = SumFunctionOnSet(Amounts(ms), Released(ms))
        /\ vault[g].refundable <=> grant[g].status \in {"Failed", "Cancelled"}
        /\ vault[g].deposited = vault[g].goal
        /\ i \in DOMAIN ms
        /\ \A j \in DOMAIN ms : ms[j].status =
             IF j < i THEN "Released" ELSE IF j = i THEN "Voting" ELSE "Pending"
    BY <1>1, <1>2 DEF PlanOK, i
  <2>4. \A j \in DOMAIN next : next[j].status =
             IF j < i THEN "Released" ELSE IF j = i THEN "Voting" ELSE "Pending"
    BY <1>8, <2>3
  <2>5. QED
    BY <1>1, <1>8, <2>1, <2>2, <2>3, <2>4 DEF PlanOK, i
<1>11. VotesOK(grant[g], next, vault[g].goal, given, voted'[g])
  <2>1. \A j \in DOMAIN ms :
          next[j].yes_weight + next[j].no_weight = SumFunctionOnSet(given, voted'[g][j])
    <3>1. ASSUME NEW j \in DOMAIN ms, j # i
          PROVE  next[j].yes_weight + next[j].no_weight = SumFunctionOnSet(given, voted'[g][j])
      <4>1. next[j] = ms[j] /\ voted'[g][j] = voted[g][j]
        BY <1>2, <1>4, <1>5, <1>8, <3>1
      <4>2. QED
        BY <1>2, <3>1, <4>1 DEF VotesOK
    <3> DEFINE before == voted[g][i]
    <3>2. /\ before \in SUBSET Contributors /\ voted'[g][i] = before \cup {c}
          /\ c \notin before
      BY <1>1, <1>2, <1>4, <1>5 DEF i
    <3>3. m.yes_weight + m.no_weight = SumFunctionOnSet(given, before)
      BY <1>2, <1>4 DEF VotesOK, m
    <3> HIDE DEF before
    <3>4. IsFiniteSet(before) /\ \A x \in before : given[x] \in Int
      BY <1>2, <3>2, FS_Subset, GrantEscrowAssumption
    <3>5. SumFunctionOnSet(given, before \cup {c}) = SumFunctionOnSet(given, before) + given[c]
      BY <1>6, <3>2, <3>4, SumAdd DEF weight
    <3>6. next[i].yes_weight + next[i].no_weight = SumFunctionOnSet(given, voted'[g][i])
      BY <1>7, <1>8, <3>2, <3>3, <3>5 DEF weight
    <3>7. QED
      BY <3>1, <3>6
  <2>2. \A j \in DOMAIN ms : next[j].status = "Released" => next[j] = ms[j]
    BY <1>4, <1>7, <1>8
  <2>3. QED
    BY <1>1, <1>2, <1>8, <2>1, <2>2 DEF VotesOK
<1>12. GrantOK(g)'
  BY <1>1, <1>2, <1>5, <1>10, <1>11 DEF GrantOK, given
<1>13. Moves(g, 0)
  BY <1>1, NoPayment
<1>14. \A h \in Grants \ {g} :
         /\ vault'[h] = vault[h] /\ contribution'[h] = contribution[h]
         /\ returned'[h] = returned[h] /\ refunded'[h] = refunded[h]
         /\ grant'[h] = grant[h] /\ milestones'[h] = milestones[h]
         /\ voted'[h] = voted[h]
  BY <1>1, <1>2 DEF GrantTypeOK
<1>15. vault'[g].asset = vault[g].asset /\ grant'[g] # NoGrant
  BY <1>1
<1>16. QED
  BY <1>1, <1>9, <1>12, <1>13, <1>14, <1>15, OneGrantStep

\* A release pays the current milestone after its vote and moves on to the next.
LEMMA FinalizeMilestoneInv ==
  ASSUME GrantInv, NEW g \in Grants, FinalizeMilestone(g)
  PROVE  GrantInv'
<1> DEFINE ms   == milestones[g]
           next == milestones'[g]
           gr   == grant[g]
           new  == grant'[g]
           i    == grant[g].current_milestone
           m    == ms[i]
           v    == vault[g]
           w    == vault'[g]
           paid == [ms EXCEPT ![i] = [m EXCEPT !.status = "Released"]]
<1>1. /\ HasStatus(g, "Active") /\ gr # NoGrant /\ gr.status = "Active"
      /\ m.status = "Voting" /\ Approved(g, m)
      /\ v.released + m.amount <= v.deposited
      /\ custody' = [custody EXCEPT ![v.asset] = @ - m.amount]
      /\ vault' = [vault EXCEPT ![g].released = @ + m.amount]
      /\ UNCHANGED <<now, contribution, refunded, returned, next_grant_id, voted>>
  BY DEF FinalizeMilestone, HasStatus, Current, Release
<1>2. \/ /\ i + 1 \notin DOMAIN ms
         /\ grant' = [grant EXCEPT ![g].status = "Completed"]
         /\ milestones' = [milestones EXCEPT ![g] = paid]
      \/ /\ i + 1 \in DOMAIN ms
         /\ grant' = [grant EXCEPT ![g].current_milestone = i + 1]
         /\ milestones' = [milestones EXCEPT ![g] = [paid EXCEPT ![i + 1].status = "Voting"]]
  BY DEF FinalizeMilestone, Current, WithCurrent, SetStatus
<1>3. /\ GrantTypeOK /\ gr \in Grant /\ v \in Vault
      /\ g < next_grant_id
      /\ MoneyOK(v, contribution[g], returned[g], refunded[g])
      /\ PlanOK(gr, ms, v)
      /\ VotesOK(gr, ms, v.goal, contribution[g], voted[g])
  BY <1>1, OfOneGrant
<1>4. PICK n \in 2..5 : DOMAIN ms = 0..(n - 1) /\ ms \in [0..(n - 1) -> Milestone]
  BY <1>1, ActivePlan
<1>5. /\ i \in 0..(n - 1) /\ m \in Milestone
      /\ \A j \in 0..(n - 1) : ms[j] \in Milestone /\ ms[j].status =
           IF j < i THEN "Released" ELSE IF j = i THEN "Voting" ELSE "Pending"
      /\ IsFiniteSet(0..(n - 1))
  BY <1>1, <1>4, ActivePlan
<1>6. /\ w = [v EXCEPT !.released = @ + m.amount]
      /\ \/ /\ i + 1 \notin DOMAIN ms
            /\ new = [gr EXCEPT !.status = "Completed"]
            /\ next = paid
         \/ /\ i + 1 \in DOMAIN ms
            /\ new = [gr EXCEPT !.current_milestone = i + 1]
            /\ next = [paid EXCEPT ![i + 1].status = "Voting"]
      /\ gr.goal = v.goal /\ v.deposited = v.goal
      /\ SumFunctionOnSet(Amounts(ms), DOMAIN ms) = v.goal
      /\ v.released = SumFunctionOnSet(Amounts(ms), Released(ms))
      /\ v.refundable = FALSE
  <2>1. v.refundable = FALSE
    BY <1>1, <1>3 DEF PlanOK, Vault
  <2>2. w = [v EXCEPT !.released = @ + m.amount]
    BY <1>1, <1>3 DEF GrantTypeOK
  <2>3. \/ /\ i + 1 \notin DOMAIN ms
            /\ new = [gr EXCEPT !.status = "Completed"]
            /\ next = paid
        \/ /\ i + 1 \in DOMAIN ms
            /\ new = [gr EXCEPT !.current_milestone = i + 1]
            /\ next = [paid EXCEPT ![i + 1].status = "Voting"]
    BY <1>2, <1>3 DEF GrantTypeOK
  <2>4. /\ gr.goal = v.goal /\ v.deposited = v.goal
        /\ SumFunctionOnSet(Amounts(ms), DOMAIN ms) = v.goal
        /\ v.released = SumFunctionOnSet(Amounts(ms), Released(ms))
    BY <1>1, <1>3 DEF PlanOK
  <2>5. QED
    BY <2>1, <2>2, <2>3, <2>4
<1>7. i = gr.current_milestone
  OBVIOUS
<1> HIDE DEF ms, next, gr, new, i, m, v, w
\* The milestones after the step.
<1>8. /\ next \in [0..(n - 1) -> Milestone]
      /\ next[i].status = "Released"
      /\ \A j \in 0..(n - 1) :
           /\ next[j].amount = ms[j].amount
           /\ next[j].yes_weight = ms[j].yes_weight
           /\ next[j].no_weight = ms[j].no_weight
           /\ j # i /\ j # i + 1 => next[j] = ms[j]
      /\ i + 1 \in DOMAIN ms => next[i + 1].status = "Voting"
  <2>1. /\ paid \in [0..(n - 1) -> Milestone]
        /\ paid[i].status = "Released"
        /\ \A j \in 0..(n - 1) :
             /\ paid[j].amount = ms[j].amount
             /\ paid[j].yes_weight = ms[j].yes_weight
             /\ paid[j].no_weight = ms[j].no_weight
             /\ j # i => paid[j] = ms[j]
    BY <1>4, <1>5 DEF Milestone, m
  <2> HIDE DEF paid
  <2>2. CASE i + 1 \notin DOMAIN ms
    BY <1>6, <2>1, <2>2
  <2>3. CASE i + 1 \in DOMAIN ms
    <3>1. next = [paid EXCEPT ![i + 1].status = "Voting"] /\ i + 1 \in 0..(n - 1)
      BY <1>4, <1>6, <2>3
    <3> DEFINE after == paid[i + 1]
               voting == [after EXCEPT !.status = "Voting"]
    <3>2. after \in Milestone
      BY <2>1, <3>1
    <3> HIDE DEF after
    <3>3. /\ voting \in Milestone /\ voting.status = "Voting"
          /\ voting.amount = after.amount /\ voting.yes_weight = after.yes_weight
          /\ voting.no_weight = after.no_weight
      BY <3>2 DEF Milestone
    <3>4. next = [paid EXCEPT ![i + 1] = voting]
      BY <3>1 DEF after
    <3> HIDE DEF voting
    <3>5. /\ next[i + 1] = voting /\ DOMAIN next = 0..(n - 1)
          /\ \A j \in 0..(n - 1) : j # i + 1 => next[j] = paid[j]
      BY <2>1, <3>1, <3>4
    <3>6. next \in [0..(n - 1) -> Milestone]
      BY <2>1, <3>1, <3>3, <3>4
    <3>7. i # i + 1
      BY <1>5
    <3>8. QED
      BY <1>5, <2>1, <3>1, <3>3, <3>5, <3>6, <3>7 DEF after
  <2>4. QED
    BY <2>2, <2>3
<1> HIDE DEF paid
<1>9. \A j \in 0..(n - 1) : next[j].status = "Released" <=> j \in Released(ms) \cup {i}
  BY <1>4, <1>5, <1>8 DEF Released
<1>10. /\ Released(next) = Released(ms) \cup {i} /\ i \notin Released(ms)
       /\ DOMAIN next = DOMAIN ms /\ Amounts(next) = Amounts(ms)
       /\ Released(ms) \in SUBSET (0..(n - 1))
       /\ \A j \in 0..(n - 1) : Amounts(ms)[j] \in Int
  BY <1>1, <1>4, <1>5, <1>8, <1>9 DEF Released, Amounts, Milestone
\* The money: what has left the vault is what the released milestones add up to.
<1>11. v.released + m.amount = SumFunctionOnSet(Amounts(next), Released(next))
  <2> DEFINE amounts == Amounts(ms)
             before  == Released(ms)
  <2>1. IsFiniteSet(before)
    BY <1>5, <1>10, FS_Subset
  <2>2. /\ amounts[i] = m.amount /\ amounts[i] \in Int
        /\ \A j \in before : amounts[j] \in Int
        /\ i \notin before
    BY <1>4, <1>5, <1>10 DEF Amounts, m
  <2> HIDE DEF amounts, before
  <2>3. SumFunctionOnSet(amounts, before \cup {i}) = SumFunctionOnSet(amounts, before) + m.amount
    BY <2>1, <2>2, SumAdd
  <2>4. QED
    BY <1>6, <1>10, <2>3 DEF amounts, before
<1>12. /\ w \in Vault /\ w.goal = v.goal /\ w.deposited = v.deposited
       /\ w.asset = v.asset /\ w.refundable = FALSE
       /\ w.released = v.released + m.amount
  BY <1>3, <1>5, <1>6 DEF Vault, Milestone
<1>13. /\ new \in Grant /\ new.goal = gr.goal /\ new.quorum_bps = gr.quorum_bps
       /\ new.approval_bps = gr.approval_bps
       /\ \/ /\ new.status = "Completed" /\ i + 1 \notin DOMAIN ms
             /\ new.current_milestone = i
          \/ /\ new.status = "Active" /\ i + 1 \in DOMAIN ms
             /\ new.current_milestone = i + 1
  <2>1. CASE new = [gr EXCEPT !.status = "Completed"] /\ i + 1 \notin DOMAIN ms
    BY <1>3, <1>7, <2>1 DEF Grant
  <2>2. CASE new = [gr EXCEPT !.current_milestone = i + 1] /\ i + 1 \in DOMAIN ms
    <3>1. i + 1 \in Nat
      BY <1>5
    <3>2. QED
      BY <1>1, <1>3, <2>2, <3>1 DEF Grant
  <2>3. QED
    BY <1>6, <2>1, <2>2
<1>14. GrantTypeOK'
  <2>1. vault' \in [Grants -> Vault \cup {NoVault}]
    BY <1>1, <1>3, <1>12 DEF GrantTypeOK, w
  <2>2. grant' \in [Grants -> Grant \cup {NoGrant}]
    BY <1>2, <1>3, <1>13 DEF GrantTypeOK, new
  <2>3. v.asset \in Assets /\ m.amount \in Int
    BY <1>3, <1>5 DEF Vault, Milestone
  <2>4. custody' \in [Assets -> Int] /\ DOMAIN milestones' = Grants
    BY <1>1, <1>2, <1>3, <2>3 DEF GrantTypeOK, v, m, ms, i
  <2>5. QED
    BY <1>1, <1>3, <2>1, <2>2, <2>4 DEF GrantTypeOK
<1>15. MoneyOK(w, contribution[g], returned[g], refunded[g])
  BY <1>1, <1>3, <1>6, <1>12 DEF MoneyOK
<1>16. PlanOK(new, next, w)
  <2>1. /\ w.goal = new.goal /\ w.deposited = w.goal
        /\ new.current_milestone \in DOMAIN next
    BY <1>4, <1>5, <1>6, <1>10, <1>12, <1>13
  <2>2. \E k \in 2..5 : DOMAIN next = 0..(k - 1) /\ next \in [0..(k - 1) -> Milestone]
    BY <1>4, <1>8
  <2>3. /\ SumFunctionOnSet(Amounts(next), DOMAIN next) = w.goal
        /\ w.released = SumFunctionOnSet(Amounts(next), Released(next))
    BY <1>6, <1>10, <1>11, <1>12
  <2>4. new.status = "Completed" => Released(next) = DOMAIN next
    BY <1>4, <1>5, <1>10, <1>13 DEF Released
  <2>5. new.status = "Active" =>
          \A j \in DOMAIN next : next[j].status =
            IF j < i + 1 THEN "Released" ELSE IF j = i + 1 THEN "Voting" ELSE "Pending"
    BY <1>4, <1>5, <1>8, <1>13
  <2>6. w.refundable <=> new.status \in {"Failed", "Cancelled"}
    BY <1>12, <1>13
  <2>7. QED
    BY <1>13, <2>1, <2>2, <2>3, <2>4, <2>5, <2>6 DEF PlanOK
<1>17. VotesOK(new, next, w.goal, contribution[g], voted[g])
  <2>1. ASSUME NEW j \in DOMAIN next
        PROVE  LET votes == next[j].yes_weight + next[j].no_weight IN
               /\ votes = SumFunctionOnSet(contribution[g], voted[g][j])
               /\ next[j].status = "Released" =>
                    /\ votes * BPS_DENOMINATOR >= w.goal * new.quorum_bps
                    /\ next[j].yes_weight * BPS_DENOMINATOR >= votes * new.approval_bps
    <3>1. /\ ms[j].yes_weight + ms[j].no_weight = SumFunctionOnSet(contribution[g], voted[g][j])
          /\ ms[j].status = "Released" =>
               /\ (ms[j].yes_weight + ms[j].no_weight) * BPS_DENOMINATOR >= v.goal * gr.quorum_bps
               /\ ms[j].yes_weight * BPS_DENOMINATOR
                    >= (ms[j].yes_weight + ms[j].no_weight) * gr.approval_bps
      BY <1>3, <1>10, <2>1 DEF VotesOK
    <3>2. /\ next[j].yes_weight = ms[j].yes_weight /\ next[j].no_weight = ms[j].no_weight
          /\ next[j].status = "Released" => ms[j].status = "Released" \/ j = i
          /\ w.goal = v.goal /\ new.quorum_bps = gr.quorum_bps
          /\ new.approval_bps = gr.approval_bps
      BY <1>4, <1>8, <1>9, <1>10, <1>12, <1>13, <2>1 DEF Released
    <3>3. /\ (m.yes_weight + m.no_weight) * BPS_DENOMINATOR >= v.goal * gr.quorum_bps
          /\ m.yes_weight * BPS_DENOMINATOR >= (m.yes_weight + m.no_weight) * gr.approval_bps
      BY <1>1, <1>6 DEF Approved, v, gr
    <3>4. j = i => ms[j] = m
      BY DEF m
    <3>5. QED
      BY <3>1, <3>2, <3>3, <3>4
  <2>2. QED
    BY <1>13, <2>1 DEF VotesOK
<1>18. new # NoGrant
  BY <1>13, GrantRegistryAssumption
<1>19. GrantOK(g)'
  BY <1>1, <1>3, <1>12, <1>15, <1>16, <1>17, <1>18 DEF GrantOK, new, next, w
<1> DEFINE d == 0 - m.amount
<1>20. Moves(g, d)
  <2>1. /\ Owed(g) = v.deposited - v.released - SumFunctionOnSet(returned[g], Contributors)
        /\ SumFunctionOnSet(returned[g], Contributors) \in Nat
    BY <1>1, <1>3, OwedOK DEF GrantInv, v, gr
  <2>2. DOMAIN returned[g] = Contributors
    BY <1>3 DEF GrantTypeOK
  <2>3. Owed(g)' = w.deposited - w.released - SumFunctionOnSet(returned[g], Contributors)
    BY <1>1, <2>2 DEF Owed, SumFunction, w
  <2>4. v.deposited \in Nat /\ v.released \in Nat /\ m.amount \in Nat /\ v.asset \in Assets
    BY <1>3, <1>5 DEF Vault, Milestone
  <2>5. Owed(g)' = Owed(g) + d
    BY <1>12, <2>1, <2>3, <2>4
  <2>6. custody' = [custody EXCEPT ![v.asset] = @ + d]
    <3>1. custody[v.asset] - m.amount = custody[v.asset] + d
      BY <1>3, <2>4 DEF GrantTypeOK
    <3>2. QED
      BY <1>1, <3>1
  <2>7. QED
    BY <2>5, <2>6 DEF Moves, v
<1>21. d \in Int
  BY <1>5 DEF Milestone
<1>22. \A h \in Grants \ {g} :
         /\ vault'[h] = vault[h] /\ contribution'[h] = contribution[h]
         /\ returned'[h] = returned[h] /\ refunded'[h] = refunded[h]
         /\ grant'[h] = grant[h] /\ milestones'[h] = milestones[h]
         /\ voted'[h] = voted[h]
  BY <1>1, <1>2, <1>3 DEF GrantTypeOK
<1>23. /\ vault'[g].asset = vault[g].asset /\ grant'[g] # NoGrant /\ grant[g] # NoGrant
       /\ next_grant_id' = next_grant_id
  BY <1>1, <1>12, <1>18 DEF v, w, new, gr
<1> HIDE DEF d
<1>24. QED
  BY <1>14, <1>19, <1>20, <1>21, <1>22, <1>23, OneGrantStep

\* A contribution is added to what one contributor gave and to the balance.
LEMMA ContributeInv ==
  ASSUME GrantInv, NEW g \in Grants, NEW c \in Contributors, NEW amount \in AmountInputs,
         Contribute(g, c, amount), UNCHANGED registry_vars
  PROVE  GrantInv'
<1> DEFINE v     == vault[g]
           w     == vault'[g]
           given == contribution[g]
           more  == contribution'[g]
<1>1. /\ amount > 0 /\ v # NoVault
      /\ v.deposited < v.goal /\ v.deposited + amount <= v.goal
      /\ vault' = [vault EXCEPT ![g].deposited = @ + amount]
      /\ contribution' = [contribution EXCEPT ![g][c] = @ + amount]
      /\ custody' = [custody EXCEPT ![v.asset] = @ + amount]
      /\ UNCHANGED <<now, refunded, returned, next_grant_id, grant, milestones, voted>>
  BY DEF Contribute, FitsUnderGoal, registry_vars
<1>2. amount \in Nat
  BY <1>1, GrantEscrowAssumption
<1>3. grant[g] # NoGrant
  BY <1>1 DEF GrantInv, GrantOK, Blank
<1>4. /\ GrantTypeOK /\ grant[g] \in Grant /\ v \in Vault
      /\ g < next_grant_id
      /\ given \in [Contributors -> Nat]
      /\ MoneyOK(v, given, returned[g], refunded[g])
      /\ PlanOK(grant[g], milestones[g], v)
      /\ VotesOK(grant[g], milestones[g], v.goal, given, voted[g])
  BY <1>3, OfOneGrant
<1>5. w = [v EXCEPT !.deposited = @ + amount] /\ more = [given EXCEPT ![c] = @ + amount]
  BY <1>1, <1>4 DEF GrantTypeOK
<1> HIDE DEF v, w, given, more
<1>6. /\ w \in Vault /\ w.goal = v.goal /\ w.asset = v.asset /\ w.released = v.released
      /\ w.refundable = v.refundable /\ w.deposited = v.deposited + amount
  BY <1>2, <1>4, <1>5 DEF Vault
<1>7. /\ more \in [Contributors -> Nat] /\ more[c] = given[c] + amount
      /\ \A x \in Contributors \ {c} : more[x] = given[x]
      /\ given[c] \in Nat
  BY <1>2, <1>4, <1>5
<1>8. SumFunctionOnSet(more, Contributors) = SumFunctionOnSet(given, Contributors) + amount
  <2>1. SumFunctionOnSet(more, Contributors)
          = SumFunctionOnSet(given, Contributors) + (more[c] - given[c])
    BY <1>4, <1>7, SumChange, GrantEscrowAssumption
  <2>2. SumFunctionOnSet(given, Contributors) \in Int
    BY <1>4, SumInt, GrantEscrowAssumption
  <2>3. QED
    BY <1>2, <1>7, <2>1, <2>2
\* The vault was not full, so the grant was not yet delivering.
<1>9. grant[g].status \notin {"Active", "Completed"}
  BY <1>1, <1>4 DEF PlanOK, v, Vault
<1>10. GrantTypeOK'
  <2>1. /\ vault' \in [Grants -> Vault \cup {NoVault}]
        /\ contribution' \in [Grants -> [Contributors -> Nat]]
    BY <1>1, <1>4, <1>6, <1>7 DEF GrantTypeOK, w, more
  <2>2. v.asset \in Assets
    BY <1>4 DEF Vault
  <2>3. custody' \in [Assets -> Int]
    BY <1>1, <1>2, <1>4, <2>2 DEF GrantTypeOK
  <2>4. QED
    BY <1>1, <1>4, <2>1, <2>3 DEF GrantTypeOK
<1>11. MoneyOK(w, more, returned[g], refunded[g])
  <2>1. returned[g] \in [Contributors -> Nat]
    BY <1>4 DEF GrantTypeOK
  <2>2. v.deposited \in Nat /\ v.released \in Nat /\ v.goal \in Nat
    BY <1>4 DEF Vault
  <2>3. \A x \in Contributors : given[x] <= more[x] /\ given[x] \in Nat /\ more[x] \in Nat
    BY <1>2, <1>4, <1>7
  <2>4. \A x \in Contributors : returned[g][x] <= more[x]
    BY <1>4, <2>1, <2>3 DEF MoneyOK
  <2>5. /\ w.deposited = SumFunctionOnSet(more, Contributors)
        /\ w.released <= w.deposited /\ w.deposited <= w.goal
        /\ w.refundable => w.released = 0
    BY <1>1, <1>2, <1>4, <1>6, <1>8, <2>2 DEF MoneyOK, v
  <2>6. QED
    BY <1>4, <1>6, <2>4, <2>5 DEF MoneyOK
<1>12. PlanOK(grant[g], milestones[g], w)
  BY <1>4, <1>6, <1>9 DEF PlanOK
<1>13. VotesOK(grant[g], milestones[g], w.goal, more, voted[g])
  <2>1. \A i \in 0..4 : voted[g][i] = {}
    BY <1>4, <1>9 DEF VotesOK
  <2>2. DOMAIN milestones[g] \subseteq 0..4
    BY <1>4 DEF PlanOK
  <2>3. \A i \in DOMAIN milestones[g] :
          SumFunctionOnSet(more, voted[g][i]) = SumFunctionOnSet(given, voted[g][i])
    BY <2>1, <2>2, SumEmpty
  <2>4. QED
    BY <1>4, <1>6, <2>3 DEF VotesOK
<1>14. GrantOK(g)'
  BY <1>1, <1>3, <1>4, <1>6, <1>11, <1>12, <1>13 DEF GrantOK, w, more
<1>15. Moves(g, amount)
  <2>1. /\ Owed(g) = v.deposited - v.released - SumFunctionOnSet(returned[g], Contributors)
        /\ SumFunctionOnSet(returned[g], Contributors) \in Nat
    BY <1>3, <1>4, OwedOK DEF GrantInv, v
  <2>2. DOMAIN returned[g] = Contributors
    BY <1>4 DEF GrantTypeOK
  <2>3. Owed(g)' = w.deposited - w.released - SumFunctionOnSet(returned[g], Contributors)
    BY <1>1, <2>2 DEF Owed, SumFunction, w
  <2>4. v.deposited \in Nat /\ v.released \in Nat
    BY <1>4 DEF Vault
  <2>5. Owed(g)' = Owed(g) + amount
    BY <1>2, <1>6, <2>1, <2>3, <2>4
  <2>6. QED
    BY <1>1, <2>5 DEF Moves, v
<1>16. \A h \in Grants \ {g} :
         /\ vault'[h] = vault[h] /\ contribution'[h] = contribution[h]
         /\ returned'[h] = returned[h] /\ refunded'[h] = refunded[h]
         /\ grant'[h] = grant[h] /\ milestones'[h] = milestones[h]
         /\ voted'[h] = voted[h]
  BY <1>1, <1>4 DEF GrantTypeOK
<1>17. /\ vault'[g].asset = vault[g].asset /\ grant'[g] # NoGrant
       /\ next_grant_id' = next_grant_id /\ amount \in Int
  BY <1>1, <1>2, <1>3, <1>6 DEF v, w
<1>18. QED
  BY <1>3, <1>10, <1>14, <1>15, <1>16, <1>17, OneGrantStep

\* A refund gives one contributor back everything they gave, once.
LEMMA ClaimRefundInv ==
  ASSUME GrantInv, NEW g \in Grants, NEW c \in Contributors,
         ClaimRefund(g, c), UNCHANGED registry_vars
  PROVE  GrantInv'
<1> DEFINE v      == vault[g]
           given  == contribution[g]
           amount == given[c]
           back   == returned[g]
           more   == returned'[g]
<1>1. /\ v # NoVault /\ v.refundable /\ c \notin refunded[g]
      /\ custody' = [custody EXCEPT ![v.asset] = @ - amount]
      /\ returned' = [returned EXCEPT ![g][c] = @ + amount]
      /\ refunded' = [refunded EXCEPT ![g] = @ \cup {c}]
      /\ UNCHANGED <<now, vault, contribution, next_grant_id, grant, milestones, voted>>
  BY DEF ClaimRefund, NotRefunded, registry_vars
<1>2. grant[g] # NoGrant
  BY <1>1 DEF GrantInv, GrantOK, Blank
<1>3. /\ GrantTypeOK /\ grant[g] \in Grant /\ v \in Vault
      /\ g < next_grant_id
      /\ given \in [Contributors -> Nat] /\ back \in [Contributors -> Nat]
      /\ MoneyOK(v, given, back, refunded[g])
      /\ PlanOK(grant[g], milestones[g], v)
      /\ VotesOK(grant[g], milestones[g], v.goal, given, voted[g])
  BY <1>2, OfOneGrant
<1>4. more = [back EXCEPT ![c] = @ + amount] /\ refunded'[g] = refunded[g] \cup {c}
  BY <1>1, <1>3 DEF GrantTypeOK
<1>5. amount \in Nat /\ back[c] = 0
  BY <1>1, <1>3 DEF MoneyOK
<1>6. amount = given[c]
  OBVIOUS
<1> HIDE DEF v, given, amount, back, more
<1>7. /\ more \in [Contributors -> Nat] /\ more[c] = amount
      /\ \A x \in Contributors \ {c} : more[x] = back[x]
  BY <1>3, <1>4, <1>5
<1>8. SumFunctionOnSet(more, Contributors) = SumFunctionOnSet(back, Contributors) + amount
  <2>1. SumFunctionOnSet(more, Contributors)
          = SumFunctionOnSet(back, Contributors) + (more[c] - back[c])
    BY <1>3, <1>7, SumChange, GrantEscrowAssumption
  <2>2. QED
    BY <1>5, <1>7, <2>1
<1>9. GrantTypeOK'
  <2>1. returned' \in [Grants -> [Contributors -> Nat]]
    BY <1>1, <1>3, <1>7 DEF GrantTypeOK, more
  <2>2. v.asset \in Assets
    BY <1>3 DEF Vault
  <2>3. custody' \in [Assets -> Int] /\ refunded' \in [Grants -> SUBSET Contributors]
    BY <1>1, <1>3, <1>5, <2>2 DEF GrantTypeOK
  <2>4. QED
    BY <1>1, <1>3, <2>1, <2>3 DEF GrantTypeOK
<1>10. MoneyOK(v, given, more, refunded'[g])
  <2>1. \A x \in Contributors : more[x] <= given[x] /\ (x \notin refunded'[g] => more[x] = 0)
    BY <1>3, <1>4, <1>5, <1>6, <1>7 DEF MoneyOK
  <2>2. QED
    BY <1>1, <1>3, <2>1 DEF MoneyOK, v
<1>11. GrantOK(g)'
  BY <1>1, <1>2, <1>3, <1>10 DEF GrantOK, v, given, more
<1> DEFINE d == 0 - amount
<1>12. Moves(g, d)
  <2>1. /\ Owed(g) = v.deposited - v.released - SumFunctionOnSet(back, Contributors)
        /\ SumFunctionOnSet(back, Contributors) \in Nat
    BY <1>2, <1>3, OwedOK DEF GrantInv, v, back
  <2>2. DOMAIN more = Contributors
    BY <1>7
  <2>3. Owed(g)' = v.deposited - v.released - SumFunctionOnSet(more, Contributors)
    BY <1>1, <2>2 DEF Owed, SumFunction, v, more
  <2>4. v.deposited \in Nat /\ v.released \in Nat /\ v.asset \in Assets
    BY <1>3 DEF Vault
  <2>5. Owed(g)' = Owed(g) + d
    BY <1>5, <1>8, <2>1, <2>3, <2>4
  <2>6. custody' = [custody EXCEPT ![v.asset] = @ + d]
    <3>1. custody[v.asset] - amount = custody[v.asset] + d
      BY <1>3, <1>5, <2>4 DEF GrantTypeOK
    <3>2. QED
      BY <1>1, <3>1
  <2>7. QED
    BY <2>5, <2>6 DEF Moves, v
<1>13. \A h \in Grants \ {g} :
         /\ vault'[h] = vault[h] /\ contribution'[h] = contribution[h]
         /\ returned'[h] = returned[h] /\ refunded'[h] = refunded[h]
         /\ grant'[h] = grant[h] /\ milestones'[h] = milestones[h]
         /\ voted'[h] = voted[h]
  BY <1>1, <1>3 DEF GrantTypeOK
<1>14. /\ vault'[g].asset = vault[g].asset /\ grant'[g] # NoGrant
       /\ next_grant_id' = next_grant_id /\ d \in Int
  BY <1>1, <1>2, <1>5
<1> HIDE DEF d
<1>15. QED
  BY <1>2, <1>9, <1>11, <1>12, <1>13, <1>14, OneGrantStep

-----------------------------------------------------------------------------
(* Every step keeps the invariant, and the invariant gives the properties.  *)

\* Nothing is there at the start, and the balances are empty.
LEMMA InitInv == RegistryInit => GrantInv
<1> SUFFICES ASSUME RegistryInit PROVE GrantInv
  OBVIOUS
<1>1. GrantTypeOK
  BY DEF RegistryInit, EscrowInit, GrantTypeOK
<1>2. \A g \in Grants : grant[g] = NoGrant /\ GrantOK(g)
  BY DEF RegistryInit, EscrowInit, GrantOK, Blank
<1>3. ASSUME NEW a \in Assets PROVE custody[a] = SumFunctionOnSet(Debts(a), Grants)
  <2> DEFINE debts == Debts(a)
  <2>1. \A g \in Grants : debts[g] = 0
    BY <1>2 DEF Debts
  <2> HIDE DEF debts
  <2>2. SumFunctionOnSet(debts, Grants) = 0
    BY <2>1, SumOfZeros, GrantEscrowAssumption
  <2>3. QED
    BY <2>2 DEF RegistryInit, EscrowInit, debts
<1>4. QED
  BY <1>1, <1>2, <1>3 DEF GrantInv, CustodyOK

\* No step of the registry, the escrow or the clock leaves the invariant.
LEMMA NextInv ==
  ASSUME GrantInv, [RegistryNext]_vars
  PROVE  GrantInv'
<1> USE DEF vars, escrow_vars, registry_vars
<1>0. now \in Nat
  BY DEF GrantInv, GrantTypeOK
<1>1. ASSUME NEW input \in GrantInputs, CreateGrant(input) PROVE GrantInv'
  <2>1. next_grant_id \in Grants
    BY <1>1 DEF CreateGrant
  <2>2. QED
    BY <1>1, <2>1, CreateGrantInv
<1>2. ASSUME NEW g \in Grants, FinalizeFunding(g) \/ CancelGrant(g) PROVE GrantInv'
  BY <1>2, FinalizeFundingInv
<1>3. ASSUME NEW g \in Grants, FinalizeMilestone(g) PROVE GrantInv'
  BY <1>3, FinalizeMilestoneInv
<1>4. ASSUME NEW g \in Grants, NEW c \in Contributors, NEW approve \in BOOLEAN,
             VoteMilestone(g, c, approve)
      PROVE  GrantInv'
  BY <1>4, VoteMilestoneInv
<1>5. ASSUME NEW paused \in BOOLEAN, SetRegistryPaused(paused) PROVE GrantInv'
  BY <1>0, <1>5, QuietStep DEF SetRegistryPaused
<1>6. ASSUME Tick, UNCHANGED registry_vars PROVE GrantInv'
  BY <1>0, <1>6, QuietStep DEF Tick
<1>7. ASSUME NEW g \in Grants, NEW c \in Contributors, NEW amount \in AmountInputs,
             Contribute(g, c, amount), UNCHANGED registry_vars
      PROVE  GrantInv'
  BY <1>7, ContributeInv
<1>8. ASSUME NEW g \in Grants, NEW c \in Contributors,
             ClaimRefund(g, c), UNCHANGED registry_vars
      PROVE  GrantInv'
  BY <1>8, ClaimRefundInv
<1>9. ASSUME NEW paused \in BOOLEAN, SetEscrowPaused(paused), UNCHANGED registry_vars
      PROVE  GrantInv'
  BY <1>0, <1>9, QuietStep DEF SetEscrowPaused
<1>10. CASE UNCHANGED vars
  BY <1>0, <1>10, QuietStep
<1>11. QED
  BY <1>1, <1>2, <1>3, <1>4, <1>5, <1>6, <1>7, <1>8, <1>9, <1>10 DEF RegistryNext

\* The invariant holds in every reachable state.
LEMMA GrantInvariant == GrantSpec => []GrantInv
<1>1. RegistryInit => GrantInv
  BY InitInv
<1>2. GrantInv /\ [RegistryNext]_vars => GrantInv'
  BY NextInv
<1>3. QED
  BY <1>1, <1>2, PTL DEF GrantSpec

\* The plan's part of the invariant is what the registry promises of the money.
LEMMA InvStatusMatchesMoney == GrantInv => StatusMatchesMoney
<1> SUFFICES ASSUME GrantInv, NEW g \in Created
             PROVE  LET v == vault[g]
                        released == {i \in DOMAIN milestones[g] :
                                       milestones[g][i].status = "Released"}
                    IN /\ v.refundable <=> grant[g].status \in {"Failed", "Cancelled"}
                       /\ grant[g].status \in {"Active", "Completed"} => v.deposited = v.goal
                       /\ grant[g].status = "Completed" => v.released = v.goal
                       /\ v.released = SumFunction([i \in released |-> milestones[g][i].amount])
  BY DEF StatusMatchesMoney
<1> DEFINE ms == milestones[g]
           v  == vault[g]
           amounts == Amounts(ms)
           released == Released(ms)
           paid == [i \in released |-> ms[i].amount]
<1>1. g \in Grants /\ PlanOK(grant[g], ms, v)
  BY OfOneGrant DEF Created
<1>2. PICK n \in 2..5 : DOMAIN ms = 0..(n - 1) /\ ms \in [0..(n - 1) -> Milestone]
  BY <1>1 DEF PlanOK
<1>3. released \in SUBSET (0..(n - 1)) /\ IsFiniteSet(0..(n - 1))
  <2>1. 0 \in Int /\ n - 1 \in Int
    OBVIOUS
  <2>2. IsFiniteSet(0..(n - 1))
    BY <2>1, FS_Interval
  <2>3. QED
    BY <1>2, <2>2 DEF Released
<1>4. \A i \in released : paid[i] = amounts[i] /\ amounts[i] \in Int
  BY <1>2, <1>3 DEF Amounts, Milestone
<1>5. SumFunction(paid) = SumFunctionOnSet(paid, released)
  BY DEF SumFunction
<1>6. /\ v.refundable <=> grant[g].status \in {"Failed", "Cancelled"}
      /\ grant[g].status \in {"Active", "Completed"} => v.deposited = v.goal
      /\ SumFunctionOnSet(amounts, DOMAIN ms) = v.goal
      /\ v.released = SumFunctionOnSet(amounts, released)
      /\ grant[g].status = "Completed" => released = DOMAIN ms
  BY <1>1 DEF PlanOK
<1>7. grant[g].status = "Completed" => v.released = v.goal
  BY <1>6
<1> HIDE DEF paid, amounts, released
<1>8. SumFunctionOnSet(paid, released) = SumFunctionOnSet(amounts, released)
  <2>1. IsFiniteSet(released)
    BY <1>3, FS_Subset
  <2>2. QED
    BY <1>4, <2>1, SumSame
<1>9. v.released = SumFunction(paid)
  BY <1>5, <1>6, <1>8
<1>10. QED
  BY <1>6, <1>7, <1>9 DEF paid, released, Released

\* The ballots' part of the invariant is what a release takes for granted.
LEMMA InvReleasedByVote == GrantInv => ReleasedByVote
<1> SUFFICES ASSUME GrantInv, NEW g \in Grants, grant[g] # NoGrant
             PROVE  \A i \in DOMAIN milestones[g] :
                      LET m     == milestones[g][i]
                          votes == m.yes_weight + m.no_weight
                      IN /\ votes = SumFunctionOnSet(contribution[g], voted[g][i])
                         /\ m.status = "Released" =>
                              /\ votes * BPS_DENOMINATOR >= vault[g].goal * grant[g].quorum_bps
                              /\ m.yes_weight * BPS_DENOMINATOR >= votes * grant[g].approval_bps
  BY DEF ReleasedByVote, Created
<1>1. VotesOK(grant[g], milestones[g], vault[g].goal, contribution[g], voted[g])
  BY OfOneGrant
<1>2. QED
  BY <1>1 DEF VotesOK

\* Custody counted over all grants is custody counted over those of the asset.
LEMMA InvGrantSolvency == GrantInv => GrantSolvency
<1> SUFFICES ASSUME GrantInv PROVE GrantSolvency
  OBVIOUS
<1>1. \A g \in Created : Owed(g) >= 0
  BY OwedOK DEF GrantInv, Created
<1>2. ASSUME NEW a \in Assets
      PROVE  custody[a] = SumFunction([g \in {h \in Created : vault[h].asset = a} |-> Owed(g)])
  <2> DEFINE D     == {h \in Created : vault[h].asset = a}
             owed  == [g \in D |-> Owed(g)]
             debts == Debts(a)
  <2>1. D \in SUBSET Grants /\ (\A g \in Grants : debts[g] \in Int)
    BY DebtsAreNumbers DEF GrantInv, Created
  <2>2. /\ \A g \in D : owed[g] = debts[g]
        /\ \A g \in Grants \ D : debts[g] = 0
    BY DEF Debts, Created
  <2>3. SumFunction(owed) = SumFunctionOnSet(owed, D)
    BY DEF SumFunction
  <2>4. custody[a] = SumFunctionOnSet(debts, Grants)
    BY DEF GrantInv, CustodyOK
  <2> HIDE DEF D, owed, debts
  <2>5. IsFiniteSet(D) /\ IsFiniteSet(Grants \ D)
    BY <2>1, FS_Subset, GrantEscrowAssumption
  <2>6. SumFunctionOnSet(debts, Grants)
          = SumFunctionOnSet(debts, D) + SumFunctionOnSet(debts, Grants \ D)
    BY <2>1, SumOfUnion, GrantEscrowAssumption
  <2>7. SumFunctionOnSet(debts, Grants \ D) = 0
    BY <2>2, <2>5, SumOfZeros
  <2>8. SumFunctionOnSet(owed, D) = SumFunctionOnSet(debts, D)
        /\ SumFunctionOnSet(debts, D) \in Int
    BY <2>1, <2>2, <2>5, SumSame, SumInt
  <2>9. custody[a] = SumFunction(owed)
    BY <2>3, <2>4, <2>6, <2>7, <2>8
  <2>10. QED
    BY <2>9 DEF D, owed
<1>3. QED
  BY <1>1, <1>2 DEF GrantSolvency

\* The registry's status of a grant and the money in its vault always agree
\* (registry lib.rs finalize_funding, finalize_milestone, cancel_grant), for
\* any number of grants, contributors and milestones.
THEOREM MoneyFollowsStatus == GrantSpec => []StatusMatchesMoney
BY GrantInvariant, InvStatusMatchesMoney, PTL

\* No milestone is ever paid without a vote that met quorum and approval, each
\* contributor counted once with the weight of their deposit (vote_milestone,
\* finalize_milestone).
THEOREM PaidByVote == GrantSpec => []ReleasedByVote
BY GrantInvariant, InvReleasedByVote, PTL

\* The escrow always holds exactly what its vaults owe, per asset, whatever
\* contributors, creators and administrators do (escrow lib.rs contribute,
\* release, claim_refund).
THEOREM GrantsSolvent == GrantSpec => []GrantSolvency
BY GrantInvariant, InvGrantSolvency, PTL
=============================================================================
