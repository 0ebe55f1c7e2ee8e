-------------------------- MODULE GrantViews_proofs --------------------------
(***************************************************************************)
(* The Grants page, proved for every history that the contracts can write, *)
(* any number of grants, milestones and ledgers, and whatever order its    *)
(* snapshots, pages, messages, discoveries and reads are answered in: it   *)
(* shows nothing that is not so, and ready means complete up to the cap    *)
(* on the ids that a discovery reads.                                      *)
(***************************************************************************)
EXTENDS GrantViews, FiniteSetTheorems, SequenceTheorems, TLAPS

-----------------------------------------------------------------------------
(* Counting up, and functions that are defined by it.                       *)

\* Numbers have a least one.
LEMMA LeastOf ==
  ASSUME NEW S \in SUBSET Nat, S # {}
  PROVE  \E n \in S : \A m \in S : n <= m
<1> DEFINE Less == {ss \in Nat \X Nat : ss[1] < ss[2]}
<1>1. IsWellFoundedOn(Less, Nat)
  BY NatLessThanWellFounded, Zenon DEF OpToRel
<1> HIDE DEF Less
<1>2. PICK n \in S : \A m \in S : <<m, n>> \notin Less
  BY <1>1, WFMin
<1>3. ASSUME NEW m \in S PROVE n <= m
  <2>1. m \in Nat /\ n \in Nat /\ ~(m < n)
    BY <1>2 DEF Less
  <2> QED
    BY <2>1
<1> QED
  BY <1>3

\* What holds of 0 and goes from each number to the next holds of all.
LEMMA CountingUp ==
  ASSUME NEW N \in Nat, NEW Good, 0 \in Good,
         \A k \in 1..N : k - 1 \in Good => k \in Good
  PROVE  \A k \in 0..N : k \in Good
<1> DEFINE Bad == {k \in 0..N : k \notin Good}
<1> SUFFICES ASSUME Bad # {} PROVE FALSE
  OBVIOUS
<1>1. PICK k \in Bad : \A m \in Bad : k <= m
  <2>1. Bad \in SUBSET Nat
    OBVIOUS
  <2> HIDE DEF Bad
  <2> QED
    BY <2>1, LeastOf
<1>2. k \in 1..N /\ k \notin Good
  BY <1>1
<1>3. k - 1 \notin Bad
  BY <1>1, <1>2
<1> QED
  BY <1>2, <1>3

\* r[0], ..., r[N] are in S, from base on, one step after the other.
Follows(r, N, S, base, step) ==
  r \in [0..N -> S] /\ r[0] = base /\ \A k \in 1..N : r[k] = step[k][r[k - 1]]

\* A recursion over 0..N whose steps stay in S has a solution there.
LEMMA Iterates ==
  ASSUME NEW N \in Nat, NEW S, NEW base \in S, NEW step \in [1..N -> [S -> S]]
  PROVE  \E r : Follows(r, N, S, base, step)
<1> DEFINE Solves(r, n) == Follows(r, n, S, base, step)
           Good == {n \in 0..N : \E r : Solves(r, n)}
<1>1. 0 \in Good
  <2>1. Solves([n \in 0..0 |-> base], 0)
    BY DEF Follows
  <2>2. 0 \in 0..N
    OBVIOUS
  <2> HIDE DEF Solves
  <2> QED
    BY <2>1, <2>2
<1>2. ASSUME NEW n \in 1..N, n - 1 \in Good PROVE n \in Good
  <2> PICK r : Solves(r, n - 1)
    BY <1>2
  <2>1. /\ r \in [0..(n - 1) -> S] /\ r[0] = base
        /\ \A k \in 1..(n - 1) : r[k] = step[k][r[k - 1]]
    BY DEF Follows
  <2> DEFINE q == [k \in 0..n |-> IF k < n THEN r[k] ELSE step[n][r[n - 1]]]
  <2>2. /\ n - 1 \in 0..(n - 1) /\ r[n - 1] \in S /\ step[n][r[n - 1]] \in S
        /\ 0 < n /\ 0 \in 0..(n - 1)
    BY <2>1
  <2>3. q \in [0..n -> S]
    <3>1. \A k \in 0..n : k < n => k \in 0..(n - 1)
      OBVIOUS
    <3> QED
      BY <2>1, <2>2, <3>1
  <2>4. q[0] = base
    BY <2>1, <2>2
  <2>5. ASSUME NEW k \in 1..n PROVE q[k] = step[k][q[k - 1]]
    <3>1. k - 1 \in 0..n /\ k - 1 < n /\ q[k - 1] = r[k - 1]
      OBVIOUS
    <3>2. CASE k = n
      BY <3>1, <3>2
    <3>3. CASE k # n
      <4>1. k \in 1..(n - 1) /\ k < n
        BY <3>3
      <4> QED
        BY <2>1, <3>1, <4>1
    <3> QED
      BY <3>2, <3>3
  <2> HIDE DEF q
  <2>6. Solves(q, n)
    BY <2>3, <2>4, <2>5 DEF Follows
  <2> HIDE DEF Solves
  <2> QED
    BY <2>6
<1> HIDE DEF Good
<1>3. \A n \in 0..N : n \in Good
  BY <1>1, <1>2, CountingUp
<1>4. N \in Good
  BY <1>3
<1> QED
  BY <1>4 DEF Good

-----------------------------------------------------------------------------
(* The chain.  What an event does to a grant, and what it says of it.       *)

Hist(n) == Scenarios[n].events

Ended == {"failed", "cancelled", "completed"}

ChainStates == {s \in GrantStates : s.current < Milestones}

\* A grant of the contracts only ever moves on.
Grows(s, t) ==
  s = None \/ /\ t \in ChainStates
              /\ s.raised <= t.raised
              /\ s.current <= t.current
              /\ s.status \in Ended => t.status = s.status

\* What an event says, and what stays true of a grant from then on.
Says(e, t) ==
  \/ e.kind = "VaultOpened"
  \/ /\ t \in ChainStates
     /\ e.kind = "ContributionMade" => e.total <= t.raised
     /\ e.kind = "FundingFinalized" /\ ~ e.funded => t.status = "failed"
     /\ e.kind = "GrantCancelled" => t.status = "cancelled"
     /\ e.kind = "MilestoneApproved" =>
          IF e.milestone + 1 >= Milestones THEN t.status = "completed"
                                           ELSE e.milestone + 1 <= t.current
     /\ e.kind = "MilestoneVoteCast" => e.milestone < Milestones

LEMMA NoneIsNoState == None \notin GrantStates /\ None \notin ChainStates /\ None \notin Views
BY MarkersAssumption DEF ChainStates

LEMMA MilestonesInNat == Milestones \in Nat \ {0}
BY GrantViewsAssumption

LEMMA HistoryType ==
  ASSUME NEW n \in DOMAIN Scenarios
  PROVE  /\ Hist(n) \in Seq(Event) /\ Len(Hist(n)) \in Nat
         /\ DOMAIN Hist(n) = 1..Len(Hist(n))
         /\ \A k \in 1..Len(Hist(n)) : Hist(n)[k] \in Event
         /\ \A i, j \in 1..Len(Hist(n)) : i < j => Hist(n)[i].ledger <= Hist(n)[j].ledger
<1> DEFINE h == Hist(n)
<1>1. h \in Seq(Event)
  <2> DEFINE R == [events : Seq(Event), failures : Nat, requests : Nat]
  <2>1. Scenarios \in Seq(R)
    BY GrantViewsAssumption
  <2> HIDE DEF R
  <2>2. Scenarios[n] \in R
    BY <2>1
  <2> USE DEF R
  <2> QED
    BY <2>2 DEF Hist
<1>2. \A i, j \in DOMAIN h : i < j => h[i].ledger <= h[j].ledger
  BY GrantViewsAssumption DEF Hist
<1> HIDE DEF h
<1>3. /\ h \in Seq(Event) /\ Len(h) \in Nat /\ DOMAIN h = 1..Len(h)
      /\ \A k \in 1..Len(h) : h[k] \in Event
      /\ \A i, j \in 1..Len(h) : i < j => h[i].ledger <= h[j].ledger
  BY <1>1, <1>2
<1> QED
  BY <1>3 DEF h

LEMMA ChainStateIs ==
  ASSUME NEW s \in ChainStates
  PROVE  s.raised \in Nat /\ s.current \in Nat /\ s.current < Milestones
<1>1. s \in [status : Statuses, raised : Nat, current : Nat,
             votes : [0..(Milestones - 1) -> Nat]] /\ s.current < Milestones
  BY DEF ChainStates, GrantStates
<1>2. s.raised \in Nat /\ s.current \in Nat
  BY ONLY <1>1
<1> QED
  BY <1>1, <1>2

LEMMA GrowsSame ==
  ASSUME NEW s, s = None \/ s \in ChainStates
  PROVE  Grows(s, s)
<1>1. s \in ChainStates => s.raised \in Nat /\ s.current \in Nat
  BY ChainStateIs
<1> QED
  BY <1>1 DEF Grows

LEMMA GrowsOn ==
  ASSUME NEW s, NEW t, NEW u, s = None \/ s \in ChainStates, t \in ChainStates,
         Grows(s, t), Grows(t, u)
  PROVE  Grows(s, u)
<1> SUFFICES ASSUME s # None PROVE Grows(s, u)
  BY DEF Grows
<1>1. t # None /\ s \in ChainStates
  BY NoneIsNoState
<1>2. /\ u \in ChainStates
      /\ s.raised <= t.raised /\ s.current <= t.current
      /\ t.raised <= u.raised /\ t.current <= u.current
      /\ s.status \in Ended => t.status = s.status
      /\ t.status \in Ended => u.status = t.status
  BY <1>1 DEF Grows
<1>3. /\ s.raised \in Nat /\ t.raised \in Nat /\ u.raised \in Nat
      /\ s.current \in Nat /\ t.current \in Nat /\ u.current \in Nat
  BY <1>1, <1>2, ChainStateIs
<1>4. s.raised <= u.raised /\ s.current <= u.current
  BY ONLY <1>2, <1>3
<1> QED
  BY <1>2, <1>4 DEF Grows

LEMMA SaidStays ==
  ASSUME NEW e \in Event, NEW t, NEW u, Says(e, t), Grows(t, u)
  PROVE  Says(e, u)
<1>0. SUFFICES ASSUME e.kind # "VaultOpened"
               PROVE  Says(e, u)
  BY DEF Says
<1>1. t # None /\ t \in ChainStates
  BY <1>0, NoneIsNoState DEF Says
<1>2. /\ u \in ChainStates /\ t.raised <= u.raised /\ t.current <= u.current
      /\ t.status \in Ended => u.status = t.status
      /\ t.raised \in Nat /\ u.raised \in Nat /\ t.current \in Nat /\ u.current \in Nat
      /\ e.total \in Nat /\ e.milestone \in Nat
  <2>1. /\ u \in ChainStates /\ t.raised <= u.raised /\ t.current <= u.current
        /\ t.status \in Ended => u.status = t.status
    BY <1>1 DEF Grows
  <2>2. e.total \in Nat /\ e.milestone \in Nat
    BY DEF Event
  <2>3. /\ t.raised \in Nat /\ u.raised \in Nat /\ t.current \in Nat /\ u.current \in Nat
    BY <1>1, <2>1, ChainStateIs
  <2> QED
    BY <2>1, <2>2, <2>3
<1>3. e.kind = "ContributionMade" => e.total <= u.raised
  BY <1>0, <1>2 DEF Says
<1>4. /\ e.kind = "FundingFinalized" /\ ~ e.funded => u.status = "failed"
      /\ e.kind = "GrantCancelled" => u.status = "cancelled"
  BY <1>0, <1>2 DEF Says, Ended
<1>5. e.kind = "MilestoneApproved" =>
        IF e.milestone + 1 >= Milestones THEN u.status = "completed"
                                         ELSE e.milestone + 1 <= u.current
  BY <1>0, <1>2, MilestonesInNat DEF Says, Ended
<1> QED
  BY <1>2, <1>3, <1>4, <1>5 DEF Says

LEMMA NewGrantOK == NewGrant \in ChainStates /\ NewGrant.raised = 0 /\ NewGrant.current = 0
                    /\ NewGrant.status = "funding"
BY MilestonesInNat DEF NewGrant, Unvoted, ChainStates, GrantStates, Statuses

\* An event that the contracts publish moves the grant on and says what is so.
LEMMA ChainStepOK ==
  ASSUME NEW s, s = None \/ s \in ChainStates, NEW e \in Event, Publishes(s, e)
  PROVE  Grows(s, ChainStep(s, e)) /\ Says(e, ChainStep(s, e))
<1> DEFINE t == ChainStep(s, e)
<1>0. /\ e.total \in Nat /\ e.milestone \in Nat /\ e.funded \in BOOLEAN
      /\ None \notin ChainStates /\ Milestones \in Nat \ {0}
  BY NoneIsNoState, MilestonesInNat DEF Event
<1>1. CASE s = None
  <2>1. CASE e.kind = "GrantCreated"
    <3>1. t = NewGrant
      BY <2>1 DEF ChainStep
    <3> QED
      BY <1>1, <2>1, <3>1, NewGrantOK DEF Grows, Says
  <2>2. CASE e.kind = "VaultOpened"
    BY <1>1, <2>2 DEF Grows, Says
  <2> QED
    BY <1>1, <2>1, <2>2 DEF Publishes
<1>2. CASE s # None
  <2> PICK r : r = t
    OBVIOUS
  <2>1. /\ s = [status |-> s.status, raised |-> s.raised, current |-> s.current,
                votes |-> s.votes]
        /\ s.status \in Statuses /\ s.raised \in Nat /\ s.current \in 0..(Milestones - 1)
        /\ s.votes \in [0..(Milestones - 1) -> Nat] /\ s \in ChainStates
    BY <1>0, <1>2 DEF ChainStates, GrantStates, Statuses
  <2>2. CASE e.kind = "ContributionMade"
    <3>1. r = [s EXCEPT !.raised = e.total] /\ e.total >= s.raised
      BY <1>2, <2>2 DEF ChainStep, Publishes
    <3>2. r = [status |-> s.status, raised |-> e.total, current |-> s.current,
               votes |-> s.votes]
      BY <2>1, <3>1
    <3>3. r \in ChainStates
      BY <1>0, <2>1, <3>2 DEF ChainStates, GrantStates, Statuses
    <3> QED
      BY <1>0, <2>1, <2>2, <3>1, <3>2, <3>3 DEF Grows, Says
  <2>3. CASE e.kind = "FundingFinalized"
    <3>1. r = [s EXCEPT !.status = IF e.funded THEN "active" ELSE "failed"]
          /\ s.status = "funding"
      BY <1>2, <2>3 DEF ChainStep, Publishes
    <3>2. r = [status |-> IF e.funded THEN "active" ELSE "failed", raised |-> s.raised,
               current |-> s.current, votes |-> s.votes]
      BY <2>1, <3>1
    <3>3. r \in ChainStates
      BY <1>0, <2>1, <3>2 DEF ChainStates, GrantStates, Statuses
    <3> QED
      BY <1>0, <2>1, <2>3, <3>1, <3>2, <3>3 DEF Grows, Says, Ended
  <2>4. CASE e.kind = "GrantCancelled"
    <3>1. r = [s EXCEPT !.status = "cancelled"] /\ s.status = "funding"
      BY <1>2, <2>4 DEF ChainStep, Publishes
    <3>2. r = [status |-> "cancelled", raised |-> s.raised,
               current |-> s.current, votes |-> s.votes]
      BY <2>1, <3>1
    <3>3. r \in ChainStates
      BY <1>0, <2>1, <3>2 DEF ChainStates, GrantStates, Statuses
    <3> QED
      BY <1>0, <2>1, <2>4, <3>1, <3>2, <3>3 DEF Grows, Says, Ended
  <2>5. CASE e.kind = "MilestoneVoteCast"
    <3>1. r = [s EXCEPT !.votes[s.current] = @ + 1] /\ e.milestone = s.current
      BY <1>2, <2>5 DEF ChainStep, Publishes
    <3> PICK v : v = [s.votes EXCEPT ![s.current] = s.votes[s.current] + 1]
      OBVIOUS
    <3>2. r = [status |-> s.status, raised |-> s.raised, current |-> s.current, votes |-> v]
      BY <2>1, <3>1
    <3>3. v \in [0..(Milestones - 1) -> Nat]
      BY <1>0, <2>1
    <3>4. r \in ChainStates
      BY <1>0, <2>1, <3>2, <3>3 DEF ChainStates, GrantStates, Statuses
    <3> QED
      BY <1>0, <2>1, <2>5, <3>1, <3>2, <3>4 DEF Grows, Says, Ended
  <2>6. CASE e.kind = "MilestoneApproved"
    <3>1. /\ r = IF s.current + 1 = Milestones THEN [s EXCEPT !.status = "completed"]
                                               ELSE [s EXCEPT !.current = @ + 1]
          /\ s.status = "active" /\ e.milestone = s.current
      BY <1>2, <2>6 DEF ChainStep, Publishes
    <3>2. CASE s.current + 1 = Milestones
      <4>1. r = [s EXCEPT !.status = "completed"]
        BY <3>1, <3>2
      <4>2. r = [status |-> "completed", raised |-> s.raised, current |-> s.current,
                 votes |-> s.votes]
        BY <2>1, <4>1
      <4>3. r \in ChainStates
        BY <1>0, <2>1, <4>2 DEF ChainStates, GrantStates, Statuses
      <4> QED
        BY <1>0, <2>1, <2>6, <3>1, <3>2, <4>2, <4>3 DEF Grows, Says, Ended
    <3>3. CASE s.current + 1 # Milestones
      <4>1. r = [s EXCEPT !.current = s.current + 1]
        BY <3>1, <3>3
      <4>2. r = [status |-> s.status, raised |-> s.raised, current |-> s.current + 1,
                 votes |-> s.votes]
        BY <2>1, <4>1
      <4>3. s.current + 1 < Milestones
        BY <1>0, <2>1, <3>3
      <4>4. r \in ChainStates
        BY <1>0, <2>1, <4>2, <4>3 DEF ChainStates, GrantStates, Statuses
      <4> QED
        BY <1>0, <2>1, <2>6, <3>1, <4>2, <4>3, <4>4 DEF Grows, Says, Ended
    <3> QED
      BY <3>2, <3>3
  <2>7. CASE e.kind \in {"VaultOpened", "FundsReleased", "RefundEnabled", "RefundClaimed"}
    <3>1. r = s
      BY <2>7 DEF ChainStep
    <3> QED
      BY <2>1, <2>7, <3>1 DEF Grows, Says
  <2>8. e.kind \in {"ContributionMade", "FundingFinalized", "GrantCancelled",
                    "MilestoneVoteCast", "MilestoneApproved", "VaultOpened",
                    "FundsReleased", "RefundEnabled", "RefundClaimed"}
    BY <1>2 DEF Publishes
  <2> QED
    BY <2>2, <2>3, <2>4, <2>5, <2>6, <2>7, <2>8
<1> QED
  BY <1>1, <1>2

\* r is a grant's storage after each of the first m events.
Stores(r, h, g, m) ==
  r = [k \in 0..m |->
         IF k = 0 THEN None
         ELSE IF h[k].grant = g THEN ChainStep(r[k - 1], h[k]) ELSE r[k - 1]]

LEMMA StoresExists ==
  ASSUME NEW N \in Nat, NEW h, NEW g
  PROVE  \E r : Stores(r, h, g, N)
<1> DEFINE Good == {m \in 0..N : \E r : Stores(r, h, g, m)}
<1>1. 0 \in Good
  <2>1. Stores([k \in 0..0 |-> None], h, g, 0)
    BY DEF Stores
  <2>2. 0 \in 0..N
    OBVIOUS
  <2> QED
    BY <2>1, <2>2
<1>2. ASSUME NEW m \in 1..N, m - 1 \in Good PROVE m \in Good
  <2>1. PICK r : Stores(r, h, g, m - 1)
    BY <1>2
  <2> DEFINE next == IF h[m].grant = g THEN ChainStep(r[m - 1], h[m]) ELSE r[m - 1]
             q == [k \in 0..m |-> IF k < m THEN r[k] ELSE next]
  <2>2. \A k \in 0..(m - 1) :
          r[k] = IF k = 0 THEN None
                 ELSE IF h[k].grant = g THEN ChainStep(r[k - 1], h[k]) ELSE r[k - 1]
    BY <2>1 DEF Stores
  <2>3. ASSUME NEW k \in 0..m
        PROVE  q[k] = IF k = 0 THEN None
                      ELSE IF h[k].grant = g THEN ChainStep(q[k - 1], h[k]) ELSE q[k - 1]
    <3> HIDE DEF next
    <3>1. CASE k = 0
      <4>1. 0 < m /\ k \in 0..(m - 1)
        BY <3>1
      <4> QED
        BY <2>2, <3>1, <4>1
    <3>2. CASE k # 0 /\ k < m
      <4>1. k \in 0..(m - 1) /\ k - 1 \in 0..m /\ k - 1 < m
        BY <3>2
      <4>2. q[k] = r[k] /\ q[k - 1] = r[k - 1]
        BY <3>2, <4>1
      <4> HIDE DEF q
      <4> QED
        BY <2>2, <3>2, <4>1, <4>2
    <3>3. CASE k # 0 /\ ~(k < m)
      <4>1. k = m /\ k - 1 \in 0..m /\ k - 1 < m
        BY <3>3
      <4>2. q[k] = next /\ q[k - 1] = r[m - 1]
        BY <4>1
      <4> HIDE DEF q
      <4> QED
        BY <3>3, <4>1, <4>2 DEF next
    <3> QED
      BY <3>1, <3>2, <3>3
  <2>4. Stores(q, h, g, m)
    <3>1. q = [k \in 0..m |-> q[k]]
      OBVIOUS
    <3> HIDE DEF q
    <3> QED
      BY <2>3, <3>1 DEF Stores
  <2> HIDE DEF q
  <2> QED
    BY <2>4
<1> HIDE DEF Good
<1>3. N \in Good
  BY <1>1, <1>2, CountingUp
<1> QED
  BY <1>3 DEF Good

LEMMA StoredUnfolds ==
  ASSUME NEW n \in DOMAIN Scenarios, NEW g \in Grants
  PROVE  /\ Stored[n][g][0] = None
         /\ \A k \in 1..Len(Hist(n)) :
              Stored[n][g][k] = IF Hist(n)[k].grant = g
                                THEN ChainStep(Stored[n][g][k - 1], Hist(n)[k])
                                ELSE Stored[n][g][k - 1]
<1> DEFINE h == Hist(n)
           r == Stored[n][g]
<1>1. r = CHOOSE f : Stores(f, h, g, Len(h))
  BY DEF Stored, Stores, Hist
<1>2. Len(h) \in Nat
  BY HistoryType
<1> HIDE DEF h, r
<1>3. Stores(r, h, g, Len(h))
  BY <1>1, <1>2, StoresExists
<1>4. /\ r[0] = None
      /\ \A k \in 1..Len(h) :
           r[k] = IF h[k].grant = g THEN ChainStep(r[k - 1], h[k]) ELSE r[k - 1]
  <2>1. \A k \in 0..Len(h) :
          r[k] = IF k = 0 THEN None
                 ELSE IF h[k].grant = g THEN ChainStep(r[k - 1], h[k]) ELSE r[k - 1]
    BY <1>3 DEF Stores
  <2>2. 0 \in 0..Len(h) /\ \A k \in 1..Len(h) : k \in 0..Len(h) /\ k # 0
    BY <1>2
  <2> QED
    BY <2>1, <2>2
<1> QED
  BY <1>4 DEF h, r

\* Along a history every grant moves on, and what was said stays true.
LEMMA HistoryStep ==
  ASSUME NEW n \in DOMAIN Scenarios, NEW g \in Grants, NEW k \in 1..Len(Hist(n)),
         Stored[n][g][k - 1] = None \/ Stored[n][g][k - 1] \in ChainStates
  PROVE  /\ Grows(Stored[n][g][k - 1], Stored[n][g][k])
         /\ Stored[n][g][k] = None \/ Stored[n][g][k] \in ChainStates
         /\ Hist(n)[k].grant = g => Says(Hist(n)[k], Stored[n][g][k])
<1> DEFINE s == Stored[n][g][k - 1]
           t == Stored[n][g][k]
           e == Hist(n)[k]
<1>1. e \in Event /\ k \in DOMAIN Hist(n)
  BY HistoryType
<1>2. t = IF e.grant = g THEN ChainStep(s, e) ELSE s
  BY StoredUnfolds
<1>3. e.grant = g => Publishes(s, e)
  BY <1>1, HistoryAssumption DEF Hist
<1> HIDE DEF s, t, e
<1>4. s = None \/ s \in ChainStates
  BY DEF s
<1>5. CASE e.grant = g
  <2>1. Grows(s, t) /\ Says(e, t)
    BY <1>1, <1>2, <1>3, <1>4, <1>5, ChainStepOK
  <2>2. t = None \/ t \in ChainStates
    <3>1. CASE e.kind = "VaultOpened"
      BY <1>2, <1>4, <1>5, <3>1 DEF ChainStep
    <3>2. CASE e.kind # "VaultOpened"
      BY <2>1, <3>2 DEF Says
    <3> QED
      BY <3>1, <3>2
  <2> QED
    BY <1>5, <2>1, <2>2 DEF s, t, e
<1>6. CASE e.grant # g
  <2>1. t = s
    BY <1>2, <1>6
  <2>2. Grows(s, t)
    BY <1>4, <2>1, GrowsSame
  <2> QED
    BY <1>4, <1>6, <2>1, <2>2 DEF s, t, e
<1> QED
  BY <1>5, <1>6

LEMMA StoredType ==
  ASSUME NEW n \in DOMAIN Scenarios, NEW g \in Grants
  PROVE  \A k \in 0..Len(Hist(n)) : Stored[n][g][k] = None \/ Stored[n][g][k] \in ChainStates
<1> DEFINE N == Len(Hist(n))
           Good == {k \in 0..N : Stored[n][g][k] = None \/ Stored[n][g][k] \in ChainStates}
<1>0. N \in Nat
  BY HistoryType
<1>1. 0 \in Good
  BY <1>0, StoredUnfolds
<1>2. ASSUME NEW k \in 1..N, k - 1 \in Good PROVE k \in Good
  <2>1. Stored[n][g][k - 1] = None \/ Stored[n][g][k - 1] \in ChainStates
    BY <1>2
  <2>2. Stored[n][g][k] = None \/ Stored[n][g][k] \in ChainStates
    BY <2>1, HistoryStep
  <2>3. k \in 0..N
    BY <1>0
  <2> QED
    BY <2>2, <2>3
<1> HIDE DEF N, Good
<1>3. \A k \in 0..N : k \in Good
  BY <1>0, <1>1, <1>2, CountingUp
<1> QED
  BY <1>3 DEF N, Good

LEMMA StoredGrows ==
  ASSUME NEW n \in DOMAIN Scenarios, NEW g \in Grants,
         NEW j \in 0..Len(Hist(n)), NEW k \in 0..Len(Hist(n)), j <= k
  PROVE  Grows(Stored[n][g][j], Stored[n][g][k])
<1> DEFINE N == Len(Hist(n))
           r == Stored[n][g]
           Good == {i \in 0..N : j <= i => Grows(r[j], r[i])}
<1>0. /\ N \in Nat /\ j \in 0..N /\ k \in 0..N
      /\ \A i \in 0..N : r[i] = None \/ r[i] \in ChainStates
  BY HistoryType, StoredType
<1>1. \A i \in 1..N : Grows(r[i - 1], r[i])
  <2>1. \A i \in 1..N : i - 1 \in 0..N
    BY <1>0
  <2> QED
    BY <1>0, <2>1, HistoryStep
<1> HIDE DEF N, r
<1>2. Grows(r[j], r[j])
  <2>1. r[j] = None \/ r[j] \in ChainStates
    BY <1>0
  <2> QED
    BY <2>1, GrowsSame
<1>3. 0 \in Good
  BY <1>0, <1>2
<1>4. ASSUME NEW i \in 1..N, i - 1 \in Good PROVE i \in Good
  <2>1. i \in 0..N /\ i - 1 \in 0..N
    BY <1>0
  <2>2. CASE j = i
    BY <1>2, <2>1, <2>2
  <2>3. CASE j < i
    <3>1. j <= i - 1
      BY <1>0, <2>1, <2>3
    <3>2. Grows(r[j], r[i - 1]) /\ Grows(r[i - 1], r[i])
      BY <1>1, <1>4, <3>1
    <3>3. Grows(r[j], r[i])
      <4>1. CASE r[i - 1] \in ChainStates
        <5>1. r[j] = None \/ r[j] \in ChainStates
          BY <1>0
        <5> QED
          BY <3>2, <4>1, <5>1, GrowsOn
      <4>2. CASE r[i - 1] = None
        BY <3>2, <4>2, NoneIsNoState DEF Grows
      <4> QED
        BY <1>0, <2>1, <4>1, <4>2
    <3> QED
      BY <2>1, <3>3
  <2>4. CASE j > i
    BY <1>0, <2>1, <2>4
  <2> QED
    BY <1>0, <2>1, <2>2, <2>3, <2>4
<1> HIDE DEF Good
<1>5. k \in Good
  BY <1>0, <1>3, <1>4, CountingUp
<1> QED
  BY <1>5 DEF Good, r

\* What the k-th event says is true from then on.
LEMMA SaidInHistory ==
  ASSUME NEW n \in DOMAIN Scenarios, NEW k \in 1..Len(Hist(n)), NEW l \in k..Len(Hist(n))
  PROVE  Says(Hist(n)[k], Stored[n][Hist(n)[k].grant][l])
<1> DEFINE e == Hist(n)[k]
           g == Hist(n)[k].grant
           N == Len(Hist(n))
<1>1. /\ e \in Event /\ g \in Grants /\ N \in Nat
  BY HistoryType DEF Event
<1>2. k \in 0..N /\ k - 1 \in 0..N /\ l \in 0..N /\ k <= l
  BY <1>1
<1>3. Stored[n][g][k - 1] = None \/ Stored[n][g][k - 1] \in ChainStates
  BY <1>1, <1>2, StoredType
<1>4. Says(e, Stored[n][g][k])
  BY <1>1, <1>3, HistoryStep
<1>5. Grows(Stored[n][g][k], Stored[n][g][l])
  BY <1>1, <1>2, StoredGrows
<1> QED
  BY <1>1, <1>4, <1>5, SaidStays

-----------------------------------------------------------------------------
(* The chain as of a ledger.                                                *)

LEMMA EventsByRange ==
  ASSUME NEW n \in DOMAIN Scenarios, NEW l, NEW m,
         \A x \in Nat : x <= l => x <= m
  PROVE  /\ EventsBy(Hist(n), l) \in 0..Len(Hist(n))
         /\ EventsBy(Hist(n), m) \in 0..Len(Hist(n))
         /\ EventsBy(Hist(n), l) <= EventsBy(Hist(n), m)
<1> DEFINE h == Hist(n)
           All == 1..Len(h)
           A == {i \in DOMAIN h : h[i].ledger <= l}
           B == {i \in DOMAIN h : h[i].ledger <= m}
<1>1. /\ Len(h) \in Nat /\ DOMAIN h = All
      /\ \A i \in All : h[i].ledger \in Nat
  <2>1. /\ Len(h) \in Nat /\ DOMAIN h = 1..Len(h)
        /\ \A i \in 1..Len(h) : h[i] \in Event
    BY HistoryType
  <2> HIDE DEF h
  <2> QED
    BY <2>1, GrantViewsAssumption DEF Event, Ledgers
<1>2. IsFiniteSet(All) /\ Cardinality(All) = Len(h)
  <2> PICK N : N = Len(h)
    OBVIOUS
  <2>1. N \in Nat /\ N \in Int /\ 1 \in Int
    BY <1>1
  <2>2. IsFiniteSet(1..N) /\ Cardinality(1..N) = IF 1 > N THEN 0 ELSE N - 1 + 1
    BY <2>1, FS_Interval, Zenon
  <2>3. IsFiniteSet(1..N) /\ Cardinality(1..N) = N
    BY <2>1, <2>2
  <2> QED
    BY <2>3
<1>3. A \in SUBSET All /\ B \in SUBSET All /\ A \in SUBSET B
  BY <1>1
<1>4. EventsBy(h, l) = Cardinality(A) /\ EventsBy(h, m) = Cardinality(B)
  BY DEF EventsBy
<1> HIDE DEF A, B, All, h
<1>5. /\ IsFiniteSet(A) /\ IsFiniteSet(B)
      /\ Cardinality(A) <= Cardinality(All) /\ Cardinality(B) <= Cardinality(All)
  BY <1>2, <1>3, FS_Subset
<1>6. Cardinality(A) <= Cardinality(B)
  BY <1>3, <1>5, FS_Subset
<1>7. Cardinality(A) \in Nat /\ Cardinality(B) \in Nat
  BY <1>5, FS_CardinalityType
<1> QED
  BY <1>1, <1>2, <1>4, <1>5, <1>6, <1>7 DEF h

LEMMA LedgersInNat == Ledgers \subseteq Nat /\ MaxLedger \in Nat /\ None \notin Nat
BY GrantViewsAssumption DEF Ledgers

\* How far a history has come by a ledger.
LEMMA TipType ==
  ASSUME NEW n \in DOMAIN Scenarios, NEW l \in Ledgers
  PROVE  EventsBy(Hist(n), l) \in 0..Len(Hist(n))
BY EventsByRange, Zenon

LEMMA TipGrows ==
  ASSUME NEW n \in DOMAIN Scenarios, NEW l \in Ledgers, NEW m \in Ledgers, l <= m
  PROVE  EventsBy(Hist(n), l) <= EventsBy(Hist(n), m)
<1>1. \A x \in Nat : x <= l => x <= m
  BY LedgersInNat
<1> QED
  BY <1>1, EventsByRange, Zenon

LEMMA StorageType ==
  ASSUME NEW n \in DOMAIN Scenarios, NEW g \in Grants, NEW l \in Ledgers
  PROVE  /\ Storage[n][g][l] = Stored[n][g][EventsBy(Hist(n), l)]
         /\ Storage[n][g][l] = None \/ Storage[n][g][l] \in ChainStates
<1>1. Storage[n][g][l] = Stored[n][g][EventsBy(Hist(n), l)]
  BY DEF Storage, Hist
<1> QED
  BY <1>1, TipType, StoredType

LEMMA StorageGrows ==
  ASSUME NEW n \in DOMAIN Scenarios, NEW g \in Grants,
         NEW l \in Ledgers, NEW m \in Ledgers, l <= m
  PROVE  Grows(Storage[n][g][l], Storage[n][g][m])
<1>1. /\ EventsBy(Hist(n), l) \in 0..Len(Hist(n))
      /\ EventsBy(Hist(n), m) \in 0..Len(Hist(n))
      /\ EventsBy(Hist(n), l) <= EventsBy(Hist(n), m)
  BY TipType, TipGrows
<1>2. Grows(Stored[n][g][EventsBy(Hist(n), l)], Stored[n][g][EventsBy(Hist(n), m)])
  BY <1>1, StoredGrows
<1> QED
  BY <1>2, StorageType

\* The first k events of a history.
Heard(n, k) == {Hist(n)[j] : j \in 1..k}

LEMMA HeardSays ==
  ASSUME NEW n \in DOMAIN Scenarios, NEW k \in 0..Len(Hist(n)), NEW e \in Heard(n, k)
  PROVE  e \in Event /\ e.grant \in Grants /\ Says(e, Stored[n][e.grant][k])
<1>1. PICK j \in 1..k : e = Hist(n)[j]
  BY DEF Heard
<1>2. Len(Hist(n)) \in Nat
  BY HistoryType
<1>3. j \in 1..Len(Hist(n)) /\ k \in j..Len(Hist(n))
  BY <1>2
<1>4. Says(Hist(n)[j], Stored[n][Hist(n)[j].grant][k])
  BY <1>3, SaidInHistory
<1>5. Hist(n)[j] \in Event
  BY <1>3, HistoryType
<1> QED
  BY <1>1, <1>4, <1>5 DEF Event

-----------------------------------------------------------------------------
(* Views that the chain bears out.                                          *)

\* What the page may show of a grant that the chain holds as t.
ViewOK(v, t) ==
  v = None \/ /\ v \in Views
              /\ t \in ChainStates
              /\ v.state.raised <= t.raised
              /\ v.scheduled => v.state.current <= t.current
              /\ v.state.status \in Ended => t.status = v.state.status

LEMMA ViewStays ==
  ASSUME NEW v, NEW t, NEW u, ViewOK(v, t), Grows(t, u)
  PROVE  ViewOK(v, u)
<1>1. CASE v = None
  BY <1>1 DEF ViewOK
<1>2. CASE v # None
  <2>1. /\ v \in Views /\ t \in ChainStates /\ t # None
        /\ v.state \in GrantStates
    BY <1>2, NoneIsNoState DEF ViewOK, Views
  <2>2. /\ u \in ChainStates /\ t.raised <= u.raised /\ t.current <= u.current
        /\ t.status \in Ended => u.status = t.status
    BY <2>1 DEF Grows
  <2>3. /\ v.state.raised \in Nat /\ v.state.current \in Nat
        /\ t.raised \in Nat /\ t.current \in Nat /\ u.raised \in Nat /\ u.current \in Nat
    BY <2>1, <2>2 DEF ChainStates, GrantStates
  <2>4. /\ v.state.raised <= t.raised
        /\ v.scheduled => v.state.current <= t.current
        /\ v.state.status \in Ended => t.status = v.state.status
    BY <1>2 DEF ViewOK
  <2> QED
    BY <2>1, <2>2, <2>3, <2>4 DEF ViewOK
<1> QED
  BY <1>1, <1>2

\* What an event makes of the view of its grant.
Taken(view, e) ==
  IF view = None THEN IF e.kind = "GrantCreated" THEN View(NewGrant, None, FALSE) ELSE None
  ELSE IF AlreadyMaterialized(view, e) THEN view ELSE Applied(view, e)

LEMMA ViewIs ==
  ASSUME NEW v \in Views
  PROVE  /\ v = [state |-> v.state, synced |-> v.synced, scheduled |-> v.scheduled]
         /\ v.state \in GrantStates
         /\ v.synced \in Ledgers \cup {None}
         /\ v.scheduled \in BOOLEAN
BY DEF Views

LEMMA StateIs ==
  ASSUME NEW s \in GrantStates
  PROVE  /\ s = [status |-> s.status, raised |-> s.raised, current |-> s.current,
                 votes |-> s.votes]
         /\ s.status \in Statuses /\ s.raised \in Nat /\ s.current \in Nat
         /\ s.votes \in [0..(Milestones - 1) -> Nat]
BY DEF GrantStates

\* A view whose state is replaced, when the chain bears the new one out.
LEMMA ViewWith ==
  ASSUME NEW v \in Views, NEW s \in GrantStates, NEW t \in ChainStates,
         s.raised <= t.raised, v.scheduled => s.current <= t.current,
         s.status \in Ended => t.status = s.status,
         NEW w, w = [state |-> s, synced |-> v.synced, scheduled |-> v.scheduled]
  PROVE  ViewOK(w, t) /\ w \in Views
<1>1. w \in Views
  BY ViewIs DEF Views
<1>2. w.state = s /\ w.scheduled = v.scheduled
  OBVIOUS
<1> QED
  BY <1>1, <1>2 DEF ViewOK

\* An event that the chain bears out does to a view what the chain bears out.
LEMMA AppliedOK ==
  ASSUME NEW v \in Views, NEW t \in ChainStates, NEW e \in Event, ViewOK(v, t), Says(e, t)
  PROVE  ViewOK(Applied(v, e), t) /\ Applied(v, e) \in Views
<1>0. /\ e.total \in Nat /\ e.milestone \in Nat /\ e.funded \in BOOLEAN
      /\ Milestones \in Nat \ {0} /\ v # None
      /\ t.raised \in Nat /\ t.current \in Nat
      /\ v.state.raised <= t.raised
      /\ v.scheduled => v.state.current <= t.current
      /\ v.state.status \in Ended => t.status = v.state.status
  BY NoneIsNoState, MilestonesInNat DEF Event, ViewOK, ChainStates, GrantStates
<1> PICK s : s = v.state
  OBVIOUS
<1>1. /\ v = [state |-> s, synced |-> v.synced, scheduled |-> v.scheduled]
      /\ s \in GrantStates /\ v.scheduled \in BOOLEAN
  BY ViewIs
<1>2. /\ s = [status |-> s.status, raised |-> s.raised, current |-> s.current,
              votes |-> s.votes]
      /\ s.status \in Statuses /\ s.raised \in Nat /\ s.current \in Nat
      /\ s.votes \in [0..(Milestones - 1) -> Nat]
  BY <1>1, StateIs
<1> PICK w : w = Applied(v, e)
  OBVIOUS
<1> SUFFICES ViewOK(w, t) /\ w \in Views
  OBVIOUS
<1>3. CASE e.kind = "ContributionMade"
  <2> PICK x : x = [status |-> s.status, raised |-> e.total, current |-> s.current,
                    votes |-> s.votes]
    OBVIOUS
  <2>1. w = [v EXCEPT !.state.raised = e.total]
    BY <1>3 DEF Applied, Raised
  <2>2. w = [state |-> x, synced |-> v.synced, scheduled |-> v.scheduled]
    BY <1>1, <1>2, <2>1
  <2>3. x \in GrantStates
    BY <1>0, <1>2 DEF GrantStates
  <2>4. /\ x.raised <= t.raised
        /\ v.scheduled => x.current <= t.current
        /\ x.status \in Ended => t.status = x.status
    BY <1>0, <1>3 DEF Says
  <2> QED
    BY <2>2, <2>3, <2>4, ViewWith, Zenon
<1>4. CASE e.kind = "FundingFinalized"
  <2> PICK x : x = [status |-> IF e.funded THEN "active" ELSE "failed", raised |-> s.raised,
                    current |-> s.current, votes |-> s.votes]
    OBVIOUS
  <2>1. w = [v EXCEPT !.state.status = IF e.funded THEN "active" ELSE "failed"]
    BY <1>4 DEF Applied
  <2>2. w = [state |-> x, synced |-> v.synced, scheduled |-> v.scheduled]
    BY <1>1, <1>2, <2>1
  <2>3. x \in GrantStates
    BY <1>0, <1>2 DEF GrantStates, Statuses
  <2>4. /\ x.raised <= t.raised
        /\ v.scheduled => x.current <= t.current
        /\ x.status \in Ended => t.status = x.status
    BY <1>0, <1>4 DEF Says, Ended
  <2> QED
    BY <2>2, <2>3, <2>4, ViewWith, Zenon
<1>5. CASE e.kind = "GrantCancelled"
  <2> PICK x : x = [status |-> "cancelled", raised |-> s.raised,
                    current |-> s.current, votes |-> s.votes]
    OBVIOUS
  <2>1. w = [v EXCEPT !.state.status = "cancelled"]
    BY <1>5 DEF Applied
  <2>2. w = [state |-> x, synced |-> v.synced, scheduled |-> v.scheduled]
    BY <1>1, <1>2, <2>1
  <2>3. x \in GrantStates
    BY <1>0, <1>2 DEF GrantStates, Statuses
  <2>4. /\ x.raised <= t.raised
        /\ v.scheduled => x.current <= t.current
        /\ x.status \in Ended => t.status = x.status
    BY <1>0, <1>5 DEF Says, Ended
  <2> QED
    BY <2>2, <2>3, <2>4, ViewWith, Zenon
<1>6. CASE e.kind = "MilestoneVoteCast" /\ v.scheduled
  <2> PICK y : y = [s.votes EXCEPT ![e.milestone] = s.votes[e.milestone] + 1]
    OBVIOUS
  <2> PICK x : x = [status |-> s.status, raised |-> s.raised,
                    current |-> s.current, votes |-> y]
    OBVIOUS
  <2>1. w = [v EXCEPT !.state.votes[e.milestone] = @ + 1]
    BY <1>6 DEF Applied
  <2>2. w = [state |-> x, synced |-> v.synced, scheduled |-> v.scheduled]
    BY <1>1, <1>2, <2>1
  <2>3. e.milestone \in 0..(Milestones - 1)
    BY <1>0, <1>6 DEF Says
  <2>4. y \in [0..(Milestones - 1) -> Nat]
    <3> DEFINE D == 0..(Milestones - 1)
    <3> PICK z : z = s.votes
      OBVIOUS
    <3>1. z \in [D -> Nat] /\ e.milestone \in D
      BY <1>2, <2>3
    <3>2. y = [z EXCEPT ![e.milestone] = z[e.milestone] + 1]
      OBVIOUS
    <3> HIDE DEF D
    <3>3. y \in [D -> Nat]
      BY ONLY <3>1, <3>2
    <3> QED
      BY <3>3 DEF D
  <2>5. x \in GrantStates
    BY <1>0, <1>2, <2>4 DEF GrantStates
  <2>6. /\ x.raised <= t.raised
        /\ v.scheduled => x.current <= t.current
        /\ x.status \in Ended => t.status = x.status
    BY <1>0
  <2> QED
    BY <2>2, <2>5, <2>6, ViewWith, Zenon
<1>7. CASE e.kind = "MilestoneApproved" /\ v.scheduled /\ e.milestone + 1 >= Milestones
  <2> PICK x : x = [status |-> "completed", raised |-> s.raised,
                    current |-> s.current, votes |-> s.votes]
    OBVIOUS
  <2>1. w = [v EXCEPT !.state.status = "completed"]
    BY <1>7 DEF Applied
  <2>2. w = [state |-> x, synced |-> v.synced, scheduled |-> v.scheduled]
    BY <1>1, <1>2, <2>1
  <2>3. x \in GrantStates
    BY <1>0, <1>2 DEF GrantStates, Statuses
  <2>4. /\ x.raised <= t.raised
        /\ v.scheduled => x.current <= t.current
        /\ x.status \in Ended => t.status = x.status
    BY <1>0, <1>7 DEF Says, Ended
  <2> QED
    BY <2>2, <2>3, <2>4, ViewWith, Zenon
<1>8. CASE e.kind = "MilestoneApproved" /\ ~(v.scheduled /\ e.milestone + 1 >= Milestones)
  <2> PICK x : x = [status |-> s.status, raised |-> s.raised,
                    current |-> e.milestone + 1, votes |-> s.votes]
    OBVIOUS
  <2>1. w = [v EXCEPT !.state.current = e.milestone + 1]
    BY <1>8 DEF Applied
  <2>2. w = [state |-> x, synced |-> v.synced, scheduled |-> v.scheduled]
    BY <1>1, <1>2, <2>1
  <2>3. x \in GrantStates
    BY <1>0, <1>2 DEF GrantStates
  <2>4. /\ x.raised <= t.raised
        /\ v.scheduled => x.current <= t.current
        /\ x.status \in Ended => t.status = x.status
    BY <1>0, <1>1, <1>8 DEF Says
  <2> QED
    BY <2>2, <2>3, <2>4, ViewWith, Zenon
<1>9. CASE w = v
  BY <1>9
<1>10. \/ w = v
       \/ e.kind \in {"ContributionMade", "FundingFinalized", "GrantCancelled",
                      "MilestoneApproved"}
       \/ e.kind = "MilestoneVoteCast" /\ v.scheduled
  BY DEF Applied
<1> QED
  BY <1>3, <1>4, <1>5, <1>6, <1>7, <1>8, <1>9, <1>10

LEMMA TakenOK ==
  ASSUME NEW v, NEW t, NEW e \in Event, ViewOK(v, t), Says(e, t)
  PROVE  ViewOK(Taken(v, e), t)
<1>2. CASE v = None /\ e.kind = "GrantCreated"
  <2>0. t \in ChainStates
    BY <1>2 DEF Says
  <2>1. View(NewGrant, None, FALSE) \in Views
    BY NewGrantOK DEF View, Views, ChainStates
  <2>2. /\ NewGrant.raised <= t.raised
        /\ ~ View(NewGrant, None, FALSE).scheduled
        /\ View(NewGrant, None, FALSE).state = NewGrant
        /\ NewGrant.status \notin Ended
    BY <2>0, NewGrantOK DEF View, ChainStates, GrantStates, Ended
  <2>3. Taken(v, e) = View(NewGrant, None, FALSE)
    BY <1>2 DEF Taken
  <2> QED
    BY <2>0, <2>1, <2>2, <2>3 DEF ViewOK
<1>3. CASE v = None /\ e.kind # "GrantCreated"
  BY <1>3 DEF Taken, ViewOK
<1>4. CASE v # None
  <2>1. v \in Views /\ t \in ChainStates
    BY <1>4 DEF ViewOK
  <2>2. Taken(v, e) = v \/ Taken(v, e) = Applied(v, e)
    BY <1>4 DEF Taken
  <2> QED
    BY <2>1, <2>2, AppliedOK
<1> QED
  BY <1>2, <1>3, <1>4

-----------------------------------------------------------------------------
(* Pages that the chain bears out.                                          *)

LEMMA PositionOK ==
  ASSUME NEW S, NEW s \in Seq(S), NEW I, I \subseteq DOMAIN s
  PROVE  1 + Cardinality(I) \in 1..(Len(s) + 1)
<1> PICK N : N = Len(s)
  OBVIOUS
<1>1. N \in Nat /\ N \in Int /\ 1 \in Int /\ I \in SUBSET (1..N)
  OBVIOUS
<1>2. IsFiniteSet(1..N) /\ Cardinality(1..N) = IF 1 > N THEN 0 ELSE N - 1 + 1
  BY <1>1, FS_Interval, Zenon
<1>3. IsFiniteSet(I) /\ Cardinality(I) <= Cardinality(1..N)
  BY <1>1, <1>2, FS_Subset, Zenon
<1>4. Cardinality(I) \in Nat
  BY <1>3, FS_CardinalityType, Zenon
<1> QED
  BY <1>1, <1>2, <1>3, <1>4

LEMMA InsertedOK ==
  ASSUME NEW S, NEW s \in Seq(S), NEW i \in 1..(Len(s) + 1), NEW e \in S
  PROVE  InsertAt(s, i, e) \in Seq(S)
<1>1. i \in Int /\ i - 1 \in Int /\ Len(s) \in Int /\ 1 \in Int
  OBVIOUS
<1>2. (\A j \in 1..(i - 1) : s[j] \in S) /\ \A j \in i..Len(s) : s[j] \in S
  OBVIOUS
<1>3. SubSeq(s, 1, i - 1) \in Seq(S)
  BY <1>1, <1>2, SubSeqProperties, Zenon
<1>4. SubSeq(s, i, Len(s)) \in Seq(S)
  BY <1>1, <1>2, SubSeqProperties, Zenon
<1>5. <<e>> \in Seq(S)
  OBVIOUS
<1>6. SubSeq(s, 1, i - 1) \o <<e>> \in Seq(S)
  BY <1>3, <1>5, ConcatProperties, Zenon
<1>7. SubSeq(s, 1, i - 1) \o <<e>> \o SubSeq(s, i, Len(s)) \in Seq(S)
  BY <1>4, <1>6, ConcatProperties, Zenon
<1> QED
  BY <1>7, Zenon DEF InsertAt

LEMMA SortedOK ==
  ASSUME NEW S, NEW feed \in Seq(S), NEW e \in S
  PROVE  Sorted(feed, e) \in Seq(S)
<1> DEFINE I == {i \in DOMAIN feed : feed[i].ledger > e.ledger}
<1>1. I \subseteq DOMAIN feed
  OBVIOUS
<1>2. Sorted(feed, e) = InsertAt(feed, 1 + Cardinality(I), e)
  BY DEF Sorted
<1> HIDE DEF I
<1>3. 1 + Cardinality(I) \in 1..(Len(feed) + 1)
  BY <1>1, PositionOK, Zenon
<1> QED
  BY <1>2, <1>3, InsertedOK, Zenon

\* The views of all grants, after k events; with the feed, a page.
ViewsOK(n, k) == {views \in [Grants -> Views \cup {None}] :
                    \A g \in Grants : ViewOK(views[g], Stored[n][g][k])}

Pages(n, k) == [grants : ViewsOK(n, k), events : Seq(Heard(n, k))]

LEMMA EmptyPageOK ==
  ASSUME NEW n, NEW k
  PROVE  EmptyPage.grants \in ViewsOK(n, k) /\ EmptyPage \in Pages(n, k)
BY DEF EmptyPage, ViewsOK, ViewOK, Pages

LEMMA HeardGrows ==
  ASSUME NEW n, NEW j \in Nat, NEW k \in Nat, j <= k
  PROVE  Heard(n, j) \subseteq Heard(n, k)
BY DEF Heard

LEMMA ViewsStay ==
  ASSUME NEW n \in DOMAIN Scenarios, NEW j \in 0..Len(Hist(n)), NEW k \in 0..Len(Hist(n)),
         j <= k
  PROVE  ViewsOK(n, j) \subseteq ViewsOK(n, k)
<1> SUFFICES ASSUME NEW views \in ViewsOK(n, j) PROVE views \in ViewsOK(n, k)
  OBVIOUS
<1>1. ASSUME NEW g \in Grants PROVE ViewOK(views[g], Stored[n][g][k])
  <2>1. ViewOK(views[g], Stored[n][g][j])
    BY DEF ViewsOK
  <2>2. Grows(Stored[n][g][j], Stored[n][g][k])
    BY StoredGrows
  <2> QED
    BY <2>1, <2>2, ViewStays
<1> QED
  BY <1>1 DEF ViewsOK

LEMMA PagesStay ==
  ASSUME NEW n \in DOMAIN Scenarios, NEW j \in 0..Len(Hist(n)), NEW k \in 0..Len(Hist(n)),
         j <= k
  PROVE  Pages(n, j) \subseteq Pages(n, k)
<1>1. j \in Nat /\ k \in Nat
  BY HistoryType
<1>2. Heard(n, j) \subseteq Heard(n, k)
  BY <1>1, HeardGrows
<1>3. Seq(Heard(n, j)) \subseteq Seq(Heard(n, k))
  BY <1>2
<1>4. ViewsOK(n, j) \subseteq ViewsOK(n, k)
  BY ViewsStay
<1> QED
  BY <1>3, <1>4 DEF Pages

LEMMA ReduceActivityOK ==
  ASSUME NEW n \in DOMAIN Scenarios, NEW k \in 0..Len(Hist(n)),
         NEW page \in Pages(n, k), NEW e \in Heard(n, k)
  PROVE  ReduceActivity(page, e) \in Pages(n, k)
<1> DEFINE g == e.grant
           next == Taken(page.grants[g], e)
<1>1. e \in Event /\ g \in Grants /\ Says(e, Stored[n][g][k])
  BY HeardSays
<1>2. page.grants \in ViewsOK(n, k) /\ page.events \in Seq(Heard(n, k))
  BY DEF Pages
<1>3. /\ page.grants \in [Grants -> Views \cup {None}]
      /\ \A x \in Grants : ViewOK(page.grants[x], Stored[n][x][k])
  BY <1>2 DEF ViewsOK
<1>4. ViewOK(next, Stored[n][g][k])
  BY <1>1, <1>3, TakenOK
<1>5. next \in Views \cup {None}
  BY <1>4 DEF ViewOK
<1> PICK w : w = [page.grants EXCEPT ![g] = next]
  OBVIOUS
<1>6. w \in [Grants -> Views \cup {None}]
  <2> HIDE DEF next
  <2> QED
    BY <1>1, <1>3, <1>5
<1>7. \A x \in Grants : w[x] = IF x = g THEN next ELSE page.grants[x]
  <2> HIDE DEF next
  <2> QED
    BY <1>1, <1>3
<1>8. w \in ViewsOK(n, k)
  <2> HIDE DEF next
  <2> QED
    BY <1>3, <1>4, <1>6, <1>7 DEF ViewsOK
<1>9. Sorted(page.events, e) \in Seq(Heard(n, k))
  BY <1>2, SortedOK
<1>10. ReduceActivity(page, e) = page
       \/ ReduceActivity(page, e) = [grants |-> w, events |-> Sorted(page.events, e)]
  BY DEF ReduceActivity, Taken
<1> QED
  BY <1>8, <1>9, <1>10 DEF Pages

\* r is a page after each event of a list.
Reduces(r, page, list) ==
  r = [k \in 0..Len(list) |->
         IF k = 0 THEN page ELSE ReduceActivity(r[k - 1], list[k])]

\* Any list of events that were heard keeps the page to what is so.
LEMMA ReducedUnfolds ==
  ASSUME NEW n \in DOMAIN Scenarios, NEW k \in 0..Len(Hist(n)),
         NEW page \in Pages(n, k), NEW list \in Seq(Heard(n, k))
  PROVE  /\ Reduced(page, list)[0] = page
         /\ \A i \in 1..Len(list) :
              Reduced(page, list)[i] = ReduceActivity(Reduced(page, list)[i - 1], list[i])
<1> DEFINE N == Len(list)
           S == Pages(n, k)
           step == [i \in 1..N |-> [p \in S |-> ReduceActivity(p, list[i])]]
<1>0. N \in Nat /\ \A i \in 1..N : list[i] \in Heard(n, k)
  OBVIOUS
<1>1. step \in [1..N -> [S -> S]]
  BY <1>0, ReduceActivityOK
<1>2. \A i \in 1..N : \A p \in S : step[i][p] = ReduceActivity(p, list[i])
  OBVIOUS
<1> HIDE DEF step, S, N
<1>3. PICK r : Follows(r, N, S, page, step)
  <2>1. page \in S
    BY DEF S
  <2> QED
    BY <1>0, <1>1, <2>1, Iterates, Zenon
<1>4. /\ r \in [0..N -> S] /\ r[0] = page
      /\ \A i \in 1..N : r[i] = step[i][r[i - 1]]
  BY <1>3 DEF Follows
<1>5. Reduces(r, page, list)
  <2>1. r = [i \in 0..N |-> r[i]]
    BY <1>4
  <2>2. ASSUME NEW i \in 0..N
        PROVE  r[i] = IF i = 0 THEN page ELSE ReduceActivity(r[i - 1], list[i])
    <3>1. CASE i = 0
      BY <1>4, <3>1
    <3>2. CASE i # 0
      <4>1. i \in 1..N /\ i - 1 \in 0..N
        BY <1>0, <3>2
      <4> QED
        BY <1>2, <1>4, <3>2, <4>1
    <3> QED
      BY <3>1, <3>2
  <2> QED
    BY <2>1, <2>2 DEF Reduces, N
<1>6. Reduces(Reduced(page, list), page, list)
  <2>1. Reduced(page, list) = CHOOSE f : Reduces(f, page, list)
    BY DEF Reduced, Reduces
  <2> QED
    BY <1>5, <2>1
<1> PICK q : q = Reduced(page, list)
  OBVIOUS
<1>7. \A i \in 0..N : q[i] = IF i = 0 THEN page ELSE ReduceActivity(q[i - 1], list[i])
  BY <1>6 DEF Reduces, N
<1>8. 0 \in 0..N /\ \A i \in 1..N : i \in 0..N /\ i # 0
  BY <1>0
<1>9. q[0] = page /\ \A i \in 1..N : q[i] = ReduceActivity(q[i - 1], list[i])
  BY <1>7, <1>8
<1> QED
  BY <1>9 DEF N

LEMMA ReduceAllOK ==
  ASSUME NEW n \in DOMAIN Scenarios, NEW k \in 0..Len(Hist(n)),
         NEW page \in Pages(n, k), NEW list \in Seq(Heard(n, k))
  PROVE  ReduceAll(page, list) \in Pages(n, k)
<1> PICK q : q = Reduced(page, list)
  OBVIOUS
<1> DEFINE N == Len(list)
           Good == {i \in 0..N : q[i] \in Pages(n, k)}
<1>0. /\ N \in Nat /\ N \in 0..N /\ \A i \in 1..N : list[i] \in Heard(n, k)
      /\ q[0] = page /\ \A i \in 1..N : q[i] = ReduceActivity(q[i - 1], list[i])
  BY ReducedUnfolds
<1>1. 0 \in Good
  BY <1>0
<1>2. ASSUME NEW i \in 1..N, i - 1 \in Good PROVE i \in Good
  <2>1. q[i - 1] \in Pages(n, k) /\ list[i] \in Heard(n, k) /\ i \in 0..N
    BY <1>0, <1>2
  <2>2. q[i] \in Pages(n, k)
    BY <1>0, <2>1, ReduceActivityOK
  <2> QED
    BY <2>1, <2>2
<1> HIDE DEF Good, N
<1>3. N \in Good
  BY <1>0, <1>1, <1>2, CountingUp
<1> QED
  BY <1>3 DEF Good, N, ReduceAll

\* The indexer's page after its first k events.
LEMMA IndexedOK ==
  ASSUME NEW n \in DOMAIN Scenarios, NEW k \in 0..Len(Hist(n))
  PROVE  Indexed[n][k] \in Pages(n, k)
<1> DEFINE N == Len(Hist(n))
           Good == {i \in 0..N : Indexed[n][i] \in Pages(n, i)}
<1>0. N \in Nat /\ N \in 0..N
  BY HistoryType
<1>1. Hist(n) \in Seq(Heard(n, N))
  <2>1. /\ Hist(n) = [i \in 1..N |-> Hist(n)[i]]
        /\ \A i \in 1..N : Hist(n)[i] \in Heard(n, N)
    BY HistoryType DEF Heard
  <2> QED
    BY <1>0, <2>1
<1>2. /\ Indexed[n][0] = EmptyPage
      /\ \A i \in 1..N : Indexed[n][i] = ReduceActivity(Indexed[n][i - 1], Hist(n)[i])
  <2>1. Indexed[n] = Reduced(EmptyPage, Hist(n))
    BY DEF Indexed, Hist
  <2>2. EmptyPage \in Pages(n, N)
    BY EmptyPageOK
  <2> HIDE DEF N
  <2>3. /\ Reduced(EmptyPage, Hist(n))[0] = EmptyPage
        /\ \A i \in 1..Len(Hist(n)) :
             Reduced(EmptyPage, Hist(n))[i]
               = ReduceActivity(Reduced(EmptyPage, Hist(n))[i - 1], Hist(n)[i])
    <3>1. N \in 0..Len(Hist(n))
      BY <1>0 DEF N
    <3> QED
      BY <1>1, <2>2, <3>1, ReducedUnfolds
  <2> QED
    BY <2>1, <2>3 DEF N
<1>3. 0 \in Good
  BY <1>0, <1>2, EmptyPageOK
<1>4. ASSUME NEW i \in 1..N, i - 1 \in Good PROVE i \in Good
  <2>1. /\ i \in 0..N /\ i - 1 \in 0..N /\ i - 1 <= i /\ Indexed[n][i - 1] \in Pages(n, i - 1)
    BY <1>0, <1>4
  <2>2. Indexed[n][i - 1] \in Pages(n, i)
    BY <2>1, PagesStay
  <2>3. Hist(n)[i] \in Heard(n, i)
    BY DEF Heard
  <2>4. Indexed[n][i] \in Pages(n, i)
    BY <1>2, <2>1, <2>2, <2>3, ReduceActivityOK
  <2> QED
    BY <2>1, <2>4
<1> HIDE DEF Good, N
<1>5. k \in 0..N
  BY DEF N
<1>6. k \in Good
  BY <1>0, <1>3, <1>4, <1>5, CountingUp
<1> QED
  BY <1>6 DEF Good

\* What is replayed after a snapshot are events that the page had.
LEMMA ReplayOK ==
  ASSUME NEW S, NEW feed \in Seq(S), NEW other
  PROVE  OldestLedgerFirst(feed, other) \in Seq(S)
<1> DEFINE N == Len(feed)
           Put(s, e) == InsertAt(s, 1 + Cardinality({i \in DOMAIN s : s[i].ledger <= e.ledger}), e)
           Next(s, e) == IF Contains(other, e) THEN s ELSE Put(s, e)
           step == [k \in 1..N |-> [s \in Seq(S) |-> Next(s, feed[k])]]
           Sorts(r) == r = [k \in 0..N |-> IF k = 0 THEN <<>> ELSE Next(r[k - 1], feed[k])]
<1>0. N \in Nat /\ N \in 0..N /\ \A i \in 1..N : feed[i] \in S
  OBVIOUS
<1>1. ASSUME NEW s \in Seq(S), NEW e \in S PROVE Next(s, e) \in Seq(S)
  <2> DEFINE I == {i \in DOMAIN s : s[i].ledger <= e.ledger}
  <2>1. I \subseteq DOMAIN s
    OBVIOUS
  <2> HIDE DEF I
  <2>2. 1 + Cardinality(I) \in 1..(Len(s) + 1)
    BY <2>1, PositionOK, Zenon
  <2>3. InsertAt(s, 1 + Cardinality(I), e) \in Seq(S)
    BY <2>2, InsertedOK, Zenon
  <2> QED
    BY <2>3 DEF I
<1> HIDE DEF Next
<1>2. step \in [1..N -> [Seq(S) -> Seq(S)]]
  BY <1>0, <1>1
<1>3. \A i \in 1..N : \A s \in Seq(S) : step[i][s] = Next(s, feed[i])
  OBVIOUS
<1> HIDE DEF step, N
<1>4. PICK r : Follows(r, N, Seq(S), <<>>, step)
  <2>1. <<>> \in Seq(S)
    OBVIOUS
  <2> QED
    BY <1>0, <1>2, <2>1, Iterates, Zenon
<1>5. /\ r \in [0..N -> Seq(S)] /\ r[0] = <<>>
      /\ \A i \in 1..N : r[i] = step[i][r[i - 1]]
  BY <1>4 DEF Follows
<1>6. Sorts(r)
  <2>1. r = [i \in 0..N |-> r[i]]
    BY <1>5
  <2>2. ASSUME NEW i \in 0..N
        PROVE  r[i] = IF i = 0 THEN <<>> ELSE Next(r[i - 1], feed[i])
    <3>1. CASE i = 0
      BY <1>5, <3>1
    <3>2. CASE i # 0
      <4>1. i \in 1..N /\ i - 1 \in 0..N
        BY <1>0, <3>2
      <4> QED
        BY <1>3, <1>5, <3>2, <4>1
    <3> QED
      BY <3>1, <3>2
  <2> QED
    BY <2>1, <2>2
<1>7. PICK q : Sorts(q) /\ OldestLedgerFirst(feed, other) = q[N]
  <2>1. OldestLedgerFirst(feed, other) = (CHOOSE f : Sorts(f))[N]
    BY DEF OldestLedgerFirst, Next, N
  <2> HIDE DEF Sorts
  <2>2. Sorts(CHOOSE f : Sorts(f))
    BY <1>6
  <2> QED
    BY <2>1, <2>2
<1>8. q[0] = <<>> /\ \A i \in 1..N : q[i] = Next(q[i - 1], feed[i])
  <2>1. \A i \in 0..N : q[i] = IF i = 0 THEN <<>> ELSE Next(q[i - 1], feed[i])
    BY <1>7
  <2>2. 0 \in 0..N /\ \A i \in 1..N : i \in 0..N /\ i # 0
    BY <1>0
  <2> QED
    BY <2>1, <2>2
<1> DEFINE Good == {i \in 0..N : q[i] \in Seq(S)}
<1>9. 0 \in Good
  <2>1. 0 \in 0..N /\ <<>> \in Seq(S)
    BY <1>0
  <2>2. q[0] \in Seq(S)
    BY <1>8, <2>1
  <2> QED
    BY <2>1, <2>2
<1>10. ASSUME NEW i \in 1..N, i - 1 \in Good PROVE i \in Good
  <2>1. q[i - 1] \in Seq(S) /\ feed[i] \in S /\ i \in 0..N
    BY <1>0, <1>10
  <2>2. q[i] \in Seq(S)
    BY <1>1, <1>8, <2>1
  <2> QED
    BY <2>1, <2>2
<1> HIDE DEF Good
<1>11. N \in Good
  BY <1>0, <1>9, <1>10, CountingUp
<1> QED
  BY <1>7, <1>11 DEF Good

LEMMA MergeOK ==
  ASSUME NEW n, NEW k, NEW derived \in ViewsOK(n, k), NEW read \in ViewsOK(n, k)
  PROVE  MergeAuthoritativeGrants(derived, read) \in ViewsOK(n, k)
BY DEF MergeAuthoritativeGrants, ViewsOK

\* A grant that was read from the chain is not lost by a merge.
LEMMA MergeKeeps ==
  ASSUME NEW derived, NEW read, NEW g \in Grants, read[g] # None
  PROVE  MergeAuthoritativeGrants(derived, read)[g] # None
BY DEF MergeAuthoritativeGrants, Newer

-----------------------------------------------------------------------------
(* Contract reads.                                                          *)

LEMMA ReadGrantViewOK ==
  ASSUME NEW n \in DOMAIN Scenarios, NEW g \in Grants, NEW now \in Ledgers,
         NEW a \in 0..now, NEW b \in 0..now, NEW c \in 0..now,
         NEW v, v = ReadGrantView(Storage[n][g][a], Storage[n][g][b], Storage[n][g][c]),
         Loaded(v)
  PROVE  v \in Views /\ ViewOK(v, Storage[n][g][now])
<1> DEFINE x == Storage[n][g][a]
           y == Storage[n][g][b]
           z == Storage[n][g][c]
           t == Storage[n][g][now]
<1>1. /\ a \in Ledgers /\ b \in Ledgers /\ c \in Ledgers
      /\ a <= now /\ b <= now /\ c <= now
  BY LedgersInNat DEF Ledgers
<1>2. Grows(x, t) /\ Grows(y, t) /\ Grows(z, t)
  BY <1>1, StorageGrows
<1>3. (x = None \/ x \in ChainStates) /\ (y = None \/ y \in ChainStates)
      /\ (z = None \/ z \in ChainStates)
  BY <1>1, StorageType
<1> HIDE DEF x, y, z, t
<1>4. /\ x # None /\ y # None /\ z # None
      /\ v = View([x EXCEPT !.votes = y.votes, !.raised = z.raised], None, TRUE)
  BY DEF ReadGrantView, Loaded, x, y, z
<1>5. /\ x \in ChainStates /\ y \in ChainStates /\ z \in ChainStates /\ t \in ChainStates
      /\ x.current <= t.current
      /\ x.status \in Ended => t.status = x.status
      /\ z.raised <= t.raised
  BY <1>2, <1>3, <1>4 DEF Grows
<1>6. /\ x = [status |-> x.status, raised |-> x.raised, current |-> x.current,
              votes |-> x.votes]
      /\ x.status \in Statuses /\ x.current \in Nat
      /\ y.votes \in [0..(Milestones - 1) -> Nat] /\ z.raised \in Nat
  BY <1>5, StateIs DEF ChainStates
<1> PICK w : w = [x EXCEPT !.votes = y.votes, !.raised = z.raised]
  OBVIOUS
<1>7. w = [status |-> x.status, raised |-> z.raised, current |-> x.current,
           votes |-> y.votes]
  BY <1>6
<1>8. w \in GrantStates
  BY <1>6, <1>7 DEF GrantStates
<1>9. v = [state |-> w, synced |-> None, scheduled |-> TRUE]
  BY <1>4 DEF View
<1>10. v \in Views
  BY <1>8, <1>9 DEF Views
<1>11. ViewOK(v, t)
  BY <1>5, <1>7, <1>9, <1>10 DEF ViewOK
<1> QED
  BY <1>10, <1>11 DEF t

-----------------------------------------------------------------------------
(* The inductive invariant.                                                 *)

By(n, l) == EventsBy(Hist(n), l)

Found(n, g, l) == Storage[n][g][l] # None

\* A scan under way.  What there was up to the cap when its discovery began is
\* still to be tried, has failed, or has been found.
Scans == [at : {"probe", "read"}, began : Ledgers, from : Ledgers,
          known : SUBSET Grants, synced : Ledgers \cup {None}, todo : SUBSET Grants,
          failed : SUBSET Grants, misses : Nat, loaded : [Grants -> Views \cup {None}]]

ScanOK(d, n, k) ==
  /\ d.began <= d.from
  /\ d.loaded \in ViewsOK(n, k)
  /\ \A g \in Discoverable : Found(n, g, d.began) =>
       \/ g \in d.todo
       \/ g \in d.failed
       \/ d.at = "probe" /\ g \in d.known
       \/ d.at = "read" /\ d.loaded[g] # None

Waits == {d \in [at : {"ids"}, began : Ledgers, from : Ledgers, known : SUBSET Grants,
                 synced : {None}] : d.began <= d.from}

Discoveries(n, l) == {NoDiscovery} \cup {d \in Waits : d.from <= l}
                     \cup {d \in Scans : d.from <= l /\ ScanOK(d, n, By(n, l))}

Fetches == {NoFetch} \cup [at : {"snapshot"}, from : Nat]
             \cup [at : {"page"}, from : Ledgers, cursor : Nat \cup {None}]

Hydrations == [targets : SUBSET Grants, from : Ledgers]

ChainInv == /\ scenario \in DOMAIN Scenarios
            /\ ledger \in Ledgers
            /\ indexed \in 0..By(scenario, ledger)

PageInv == /\ grants \in ViewsOK(scenario, By(scenario, ledger))
           /\ events \in Seq(Heard(scenario, By(scenario, ledger)))

FeedInv == /\ streamed \in Nat
           /\ cursor \in Nat \cup {None}
           /\ fetch \in [Readers -> Fetches]

ReadsInv == /\ discovery \in [Readers -> Discoveries(scenario, ledger)]
            /\ hydrations \subseteq Hydrations

Results(n, k) == [began : Ledgers \cup {None}, grants : ViewsOK(n, k)]

\* What the last discovery found is on the page, and if nothing failed it was all
\* there was up to the cap.
ResultInv ==
  /\ authoritative \in Results(scenario, By(scenario, ledger))
  /\ \A g \in Grants : authoritative.grants[g] # None => grants[g] # None
  /\ grantsStatus = "ready" =>
       /\ authoritative.began \in Ledgers
       /\ \A g \in Discoverable :
            Found(scenario, g, authoritative.began) => authoritative.grants[g] # None

ViewsInv == ChainInv /\ PageInv /\ FeedInv /\ ReadsInv /\ ResultInv

LEMMA ByType ==
  ASSUME ChainInv
  PROVE  /\ By(scenario, ledger) \in 0..Len(Hist(scenario))
         /\ By(scenario, ledger) \in Nat /\ Len(Hist(scenario)) \in Nat
         /\ Tip(ledger) = By(scenario, ledger)
         /\ History = Hist(scenario)
<1>1. By(scenario, ledger) \in 0..Len(Hist(scenario)) /\ Len(Hist(scenario)) \in Nat
  BY TipType, HistoryType DEF ChainInv, By
<1>2. Tip(ledger) = By(scenario, ledger) /\ History = Hist(scenario)
  BY DEF Tip, By, History, Hist
<1> QED
  BY <1>1, <1>2

LEMMA OnChainIs ==
  ASSUME ChainInv, NEW g \in Grants, NEW l \in Ledgers
  PROVE  /\ OnChain(g, l) = Storage[scenario][g][l]
         /\ Exists(g, l) <=> Found(scenario, g, l)
         /\ OnChain(g, ledger) = Stored[scenario][g][By(scenario, ledger)]
<1>1. Storage[scenario][g][ledger] = Stored[scenario][g][By(scenario, ledger)]
  BY StorageType DEF ChainInv, By
<1> QED
  BY <1>1 DEF OnChain, Exists, Found

\* A grant that was there still is.
LEMMA FoundStays ==
  ASSUME NEW n \in DOMAIN Scenarios, NEW g \in Grants, NEW l \in Ledgers, NEW m \in Ledgers,
         l <= m, Found(n, g, l)
  PROVE  Found(n, g, m)
<1>1. Grows(Storage[n][g][l], Storage[n][g][m])
  BY StorageGrows
<1> QED
  BY <1>1, NoneIsNoState DEF Found, Grows

LEMMA DiscoverableAreGrants == Discoverable \subseteq Grants
BY DEF Discoverable

LEMMA BegunOK ==
  ASSUME ledger \in Ledgers
  PROVE  Begun \in Waits /\ Begun.from <= ledger
<1>1. ledger <= ledger
  BY LedgersInNat
<1>2. {g \in Discoverable : grants[g] # None} \in SUBSET Grants
  BY DiscoverableAreGrants
<1> QED
  BY <1>1, <1>2 DEF Begun, Waits

LEMMA ViewsInitOK ==
  ASSUME ViewsInit
  PROVE  ViewsInv
<1>1. ledger \in Ledgers /\ ledger = 0
  BY LedgersInNat DEF ViewsInit, Ledgers
<1>2. ChainInv
  <2>1. scenario \in DOMAIN Scenarios /\ indexed = 0
    BY DEF ViewsInit
  <2>2. By(scenario, ledger) \in 0..Len(Hist(scenario)) /\ Len(Hist(scenario)) \in Nat
    BY <1>1, <2>1, TipType, HistoryType DEF By
  <2> QED
    BY <1>1, <2>1, <2>2 DEF ChainInv
<1> PICK k : k = By(scenario, ledger)
  OBVIOUS
<1>3. PageInv
  BY EmptyPageOK DEF ViewsInit, PageInv, EmptyPage, Pages
<1>4. FeedInv
  <2>1. Snapshot \in Fetches
    BY DEF ViewsInit, Snapshot, Fetches
  <2>2. fetch \in [Readers -> Fetches]
    BY <2>1 DEF ViewsInit, Fetches
  <2> QED
    BY <2>2 DEF ViewsInit, FeedInv
<1>5. ReadsInv
  <2>1. Begun \in Discoveries(scenario, ledger) /\ NoDiscovery \in Discoveries(scenario, ledger)
    BY <1>1, BegunOK DEF Discoveries
  <2>2. discovery \in [Readers -> Discoveries(scenario, ledger)]
    BY <2>1 DEF ViewsInit
  <2> QED
    BY <2>2 DEF ViewsInit, ReadsInv
<1>6. ResultInv
  <2>1. EmptyPage.grants \in ViewsOK(scenario, k)
    BY EmptyPageOK
  <2>2. authoritative \in Results(scenario, k)
    BY <2>1 DEF ViewsInit, Results
  <2>3. \A g \in Grants : authoritative.grants[g] = None
    BY DEF ViewsInit, EmptyPage
  <2>4. grantsStatus # "ready"
    BY DEF ViewsInit
  <2> QED
    BY <2>2, <2>3, <2>4 DEF ResultInv
<1> QED
  BY <1>2, <1>3, <1>4, <1>5, <1>6 DEF ViewsInv

LEMMA InvariantSays ==
  ASSUME ViewsInv
  PROVE  NothingInvented /\ ReadyMeansComplete
<1> PICK n : n = scenario
  OBVIOUS
<1> PICK k : k = By(scenario, ledger)
  OBVIOUS
<1>1. ChainInv /\ PageInv /\ ResultInv
  BY DEF ViewsInv
<1>2. ASSUME NEW g \in Grants, grants[g] # None
      PROVE  /\ Exists(g, ledger)
             /\ grants[g].state.raised <= OnChain(g, ledger).raised
             /\ grants[g].scheduled => grants[g].state.current <= OnChain(g, ledger).current
             /\ grants[g].state.status \in Ended =>
                  grants[g].state.status = OnChain(g, ledger).status
  <2> PICK t : t = Stored[n][g][k]
    OBVIOUS
  <2>1. ViewOK(grants[g], t)
    BY <1>1 DEF PageInv, ViewsOK
  <2>2. OnChain(g, ledger) = t /\ (Exists(g, ledger) <=> t # None)
    BY <1>1, OnChainIs DEF ChainInv, Exists
  <2> QED
    BY <1>2, <2>1, <2>2, NoneIsNoState DEF ViewOK
<1>3. NothingInvented
  BY <1>2 DEF NothingInvented, Ended
<1>4. ReadyMeansComplete
  <2> SUFFICES ASSUME grantsStatus = "ready", NEW g \in Discoverable, Exists(g, authoritative.began)
               PROVE  grants[g] # None
    BY DEF ReadyMeansComplete
  <2>1. authoritative.began \in Ledgers
    BY <1>1 DEF ResultInv
  <2>2. Found(scenario, g, authoritative.began)
    BY <1>1, <2>1, DiscoverableAreGrants, OnChainIs
  <2>3. authoritative.grants[g] # None
    BY <1>1, <2>2 DEF ResultInv
  <2> QED
    BY <1>1, <2>3, DiscoverableAreGrants DEF ResultInv
<1> QED
  BY <1>3, <1>4

-----------------------------------------------------------------------------
(* The steps.                                                               *)

\* A read that began at ledger l: of what there was, it can only fail.
LEMMA ReadsOK ==
  ASSUME ChainInv, NEW g \in Grants, NEW l \in Ledgers, NEW v \in Reads(g, l)
  PROVE  /\ Loaded(v) => /\ v \in Views /\ v # None
                         /\ ViewOK(v, Stored[scenario][g][By(scenario, ledger)])
         /\ ~ Loaded(v) /\ Found(scenario, g, l) => v = Failed
<1> PICK n : n = scenario
  OBVIOUS
<1> PICK now : now = ledger
  OBVIOUS
<1>1. n \in DOMAIN Scenarios /\ now \in Ledgers
  BY DEF ChainInv
<1>2. GrantReads[n][g][l][now]
        = {ReadGrantView(Storage[n][g][a], Storage[n][g][b], Storage[n][g][c]) :
             a, b, c \in l..now}
  BY <1>1 DEF GrantReads
<1>3. PICK a \in l..now, b \in l..now, c \in l..now :
        v = ReadGrantView(Storage[n][g][a], Storage[n][g][b], Storage[n][g][c])
  BY <1>2 DEF Reads
<1>4. /\ a \in 0..now /\ b \in 0..now /\ c \in 0..now
      /\ a \in Ledgers /\ b \in Ledgers /\ l <= a /\ l <= b
  BY <1>1, LedgersInNat DEF Ledgers
<1>5. ASSUME Loaded(v)
      PROVE  /\ v \in Views /\ v # None
             /\ ViewOK(v, Stored[scenario][g][By(scenario, ledger)])
  <2>1. v \in Views /\ ViewOK(v, Storage[n][g][now])
    BY <1>1, <1>3, <1>4, <1>5, ReadGrantViewOK
  <2>2. Storage[n][g][now] = Stored[n][g][By(n, now)]
    BY <1>1, StorageType DEF By
  <2> QED
    BY <2>1, <2>2, NoneIsNoState
<1>6. ASSUME ~ Loaded(v), Found(scenario, g, l) PROVE v = Failed
  <2> SUFFICES ASSUME v # Failed PROVE FALSE
    OBVIOUS
  <2>1. v = Missing
    BY <1>6 DEF Loaded
  <2>2. Storage[n][g][a] # None /\ Storage[n][g][b] # None
    BY <1>1, <1>4, <1>6, FoundStays DEF Found
  <2> PICK x : x = Storage[n][g][a]
    OBVIOUS
  <2> PICK y : y = Storage[n][g][b]
    OBVIOUS
  <2> PICK z : z = Storage[n][g][c]
    OBVIOUS
  <2>3. c \in Ledgers
    BY <1>1, LedgersInNat DEF Ledgers
  <2>4. /\ x \in ChainStates /\ y \in ChainStates /\ (z = None \/ z \in ChainStates)
        /\ x # None /\ y # None
    BY <1>1, <1>4, <2>2, <2>3, StorageType
  <2>5. /\ z # None
        /\ v = View([x EXCEPT !.votes = y.votes, !.raised = z.raised], None, TRUE)
    BY <1>3, <2>2 DEF ReadGrantView
  <2>6. /\ x = [status |-> x.status, raised |-> x.raised, current |-> x.current,
                votes |-> x.votes]
        /\ x.status \in Statuses /\ x.current \in Nat
        /\ y.votes \in [0..(Milestones - 1) -> Nat] /\ z.raised \in Nat
    BY <2>4, <2>5, StateIs DEF ChainStates
  <2> PICK w : w = [x EXCEPT !.votes = y.votes, !.raised = z.raised]
    OBVIOUS
  <2>7. w = [status |-> x.status, raised |-> z.raised, current |-> x.current,
             votes |-> y.votes]
    BY <2>6
  <2>8. w \in GrantStates
    BY <2>6, <2>7 DEF GrantStates
  <2>9. v = [state |-> w, synced |-> None, scheduled |-> TRUE]
    BY <2>5 DEF View
  <2>10. v \in Views
    BY <2>8, <2>9 DEF Views
  <2> QED
    BY <2>1, <2>10, MarkersAssumption
<1> QED
  BY <1>5, <1>6

\* What is read of a batch.
LEMMA OutcomesOK ==
  ASSUME ChainInv, NEW batch, batch \subseteq Grants, NEW failing, NEW l \in Ledgers,
         NEW o \in Outcomes(batch, failing, l), NEW g \in batch
  PROVE  /\ Loaded(o[g]) => /\ o[g] \in Views /\ o[g] # None
                            /\ ViewOK(o[g], Stored[scenario][g][By(scenario, ledger)])
         /\ ~ Loaded(o[g]) /\ Found(scenario, g, l) => o[g] = Failed
<1>1. IF g \in failing THEN o[g] = Failed ELSE o[g] \in Reads(g, l)
  BY DEF Outcomes
<1>2. g \in Grants
  OBVIOUS
<1>3. CASE o[g] = Failed
  BY <1>3 DEF Loaded
<1>4. CASE o[g] \in Reads(g, l)
  BY <1>2, <1>4, ReadsOK
<1> QED
  BY <1>1, <1>3, <1>4

\* Steps that leave the chain alone.
LEMMA ChainUntouched ==
  ASSUME ChainInv, UNCHANGED chain_vars
  PROVE  /\ ChainInv' /\ scenario' = scenario /\ ledger' = ledger
         /\ By(scenario', ledger') = By(scenario, ledger)
BY DEF ChainInv, chain_vars

LEMMA ReadsUntouched ==
  ASSUME ViewsInv, UNCHANGED <<chain_vars, discovery, hydrations>>
  PROVE  ReadsInv'
<1>1. ReadsInv /\ ChainInv
  BY DEF ViewsInv
<1>2. scenario' = scenario /\ ledger' = ledger
  BY <1>1, ChainUntouched
<1> QED
  BY <1>1, <1>2 DEF ReadsInv

\* Steps that show another page, where no grant that was discovered is missing.
LEMMA ShowOK ==
  ASSUME ViewsInv, UNCHANGED <<chain_vars, authoritative, grantsStatus>>,
         NEW page \in Pages(scenario, By(scenario, ledger)), Show(page),
         \A g \in Grants : authoritative.grants[g] # None => page.grants[g] # None
  PROVE  ChainInv' /\ PageInv' /\ ResultInv'
<1>1. ChainInv /\ ResultInv
  BY DEF ViewsInv
<1>2. ChainInv' /\ scenario' = scenario /\ By(scenario', ledger') = By(scenario, ledger)
  BY <1>1, ChainUntouched
<1>3. grants' = page.grants /\ events' = page.events
  BY DEF Show
<1>4. PageInv'
  BY <1>2, <1>3 DEF PageInv, Pages
<1>5. ResultInv'
  BY <1>1, <1>2, <1>3 DEF ResultInv
<1> QED
  BY <1>2, <1>4, <1>5

LEMMA PageUntouched ==
  ASSUME ViewsInv, UNCHANGED <<chain_vars, page_vars, authoritative>>,
         grantsStatus' = grantsStatus \/ grantsStatus' = "loading"
  PROVE  ChainInv' /\ PageInv' /\ ResultInv'
<1>1. ChainInv /\ ResultInv /\ PageInv
  BY DEF ViewsInv
<1>2. ChainInv' /\ scenario' = scenario /\ By(scenario', ledger') = By(scenario, ledger)
  BY <1>1, ChainUntouched
<1>3. grants' = grants /\ events' = events /\ authoritative' = authoritative
  BY DEF page_vars
<1>4. PageInv'
  BY <1>1, <1>2, <1>3 DEF PageInv
<1>5. ResultInv'
  BY <1>1, <1>2, <1>3 DEF ResultInv
<1> QED
  BY <1>2, <1>4, <1>5

\* Merged with what the last discovery found, a page misses none of it.
LEMMA MergedOK ==
  ASSUME ViewsInv, UNCHANGED <<chain_vars, authoritative, grantsStatus>>,
         NEW page \in Pages(scenario, By(scenario, ledger)),
         Show([page EXCEPT !.grants = MergeAuthoritativeGrants(@, authoritative.grants)])
  PROVE  ChainInv' /\ PageInv' /\ ResultInv'
<1> PICK n : n = scenario
  OBVIOUS
<1> PICK k : k = By(scenario, ledger)
  OBVIOUS
<1> PICK merged : merged = MergeAuthoritativeGrants(page.grants, authoritative.grants)
  OBVIOUS
<1> PICK shown : shown = [page EXCEPT !.grants =
                            MergeAuthoritativeGrants(@, authoritative.grants)]
  OBVIOUS
<1>1. page.grants \in ViewsOK(n, k) /\ page.events \in Seq(Heard(n, k))
      /\ page = [grants |-> page.grants, events |-> page.events]
  BY DEF Pages
<1>2. authoritative.grants \in ViewsOK(n, k)
  BY DEF ViewsInv, ResultInv, Results
<1>3. merged \in ViewsOK(n, k)
  BY <1>1, <1>2, MergeOK
<1>4. shown = [grants |-> merged, events |-> page.events]
  BY <1>1
<1>5. shown \in Pages(n, k)
  BY <1>1, <1>3, <1>4 DEF Pages
<1>6. \A g \in Grants : authoritative.grants[g] # None => shown.grants[g] # None
  BY <1>4, MergeKeeps
<1>7. Show(shown)
  OBVIOUS
<1> QED
  BY <1>5, <1>6, <1>7, ShowOK

LEMMA TakeSnapshotOK ==
  ASSUME ViewsInv, NEW r \in Readers, TakeSnapshot(r)
  PROVE  ViewsInv'
<1> PICK n : n = scenario
  OBVIOUS
<1> PICK k : k = By(scenario, ledger)
  OBVIOUS
<1>1. ChainInv /\ PageInv /\ FeedInv
  BY DEF ViewsInv
<1>2. n \in DOMAIN Scenarios /\ k \in 0..Len(Hist(n)) /\ indexed \in 0..k
      /\ k \in Nat /\ Len(Hist(n)) \in Nat
  BY <1>1, ByType DEF ChainInv
<1>3. fetch[r] \in [at : {"snapshot"}, from : Nat] /\ fetch[r].from \in Nat
  BY <1>1 DEF FeedInv, Fetches, NoFetch, TakeSnapshot
<1>4. PICK i \in fetch[r].from..indexed, m \in fetch[r].from..indexed :
        LET snapshot == [grants |-> Indexed[scenario][i].grants,
                         events |-> Indexed[scenario][m].events]
            received == OldestLedgerFirst(events, snapshot.events)
            reduced  == ReduceAll(snapshot, received)
        IN /\ Show([reduced EXCEPT !.grants =
                      MergeAuthoritativeGrants(@, authoritative.grants)])
           /\ cursor' = m
           /\ streamed' = m
  BY DEF TakeSnapshot
<1>5. /\ i \in 0..Len(Hist(n)) /\ m \in 0..Len(Hist(n)) /\ i <= k /\ m <= k /\ m \in Nat
  BY <1>2, <1>3
<1>6. Indexed[n][i] \in Pages(n, k) /\ Indexed[n][m] \in Pages(n, k)
  BY <1>2, <1>5, IndexedOK, PagesStay
<1> PICK snapshot : snapshot = [grants |-> Indexed[n][i].grants,
                                events |-> Indexed[n][m].events]
  OBVIOUS
<1>7. snapshot \in Pages(n, k)
  BY <1>6 DEF Pages
<1> PICK received : received = OldestLedgerFirst(events, snapshot.events)
  OBVIOUS
<1>8. received \in Seq(Heard(n, k))
  BY <1>1, ReplayOK DEF PageInv
<1> PICK reduced : reduced = ReduceAll(snapshot, received)
  OBVIOUS
<1>9. reduced \in Pages(n, k)
  BY <1>2, <1>7, <1>8, ReduceAllOK
<1>10. Show([reduced EXCEPT !.grants = MergeAuthoritativeGrants(@, authoritative.grants)])
       /\ cursor' = m /\ streamed' = m
  BY <1>4
<1>11. UNCHANGED <<chain_vars, authoritative, grantsStatus, discovery, hydrations>>
       /\ fetch' = [fetch EXCEPT ![r] = NoFetch]
  BY DEF TakeSnapshot
<1>12. ChainInv' /\ PageInv' /\ ResultInv'
  BY <1>9, <1>10, <1>11, MergedOK
<1>13. FeedInv'
  <2>1. NoFetch \in Fetches
    BY DEF Fetches
  <2> QED
    BY <1>1, <1>5, <1>10, <1>11, <2>1 DEF FeedInv
<1>14. ReadsInv'
  BY <1>11, ReadsUntouched
<1> QED
  BY <1>12, <1>13, <1>14 DEF ViewsInv

LEMMA PageHere ==
  ASSUME ViewsInv
  PROVE  Page \in Pages(scenario, By(scenario, ledger))
BY DEF ViewsInv, PageInv, Page, Pages

LEMMA TakePageOK ==
  ASSUME ViewsInv, NEW r \in Readers, TakePage(r)
  PROVE  ViewsInv'
<1> PICK n : n = scenario
  OBVIOUS
<1> PICK k : k = By(scenario, ledger)
  OBVIOUS
<1>1. ChainInv /\ PageInv /\ FeedInv
  BY DEF ViewsInv
<1>2. /\ n \in DOMAIN Scenarios /\ k \in 0..Len(Hist(n)) /\ ledger \in Ledgers
      /\ k \in Nat /\ Len(Hist(n)) \in Nat /\ History = Hist(n)
  BY <1>1, ByType DEF ChainInv
<1> PICK asked : asked = fetch[r].cursor
  OBVIOUS
<1>3. fetch[r].from \in Ledgers /\ asked \in Nat \cup {None}
  BY <1>1 DEF FeedInv, Fetches, NoFetch, TakePage
<1>4. PICK l \in fetch[r].from..ledger :
        LET first == PageStart(asked, l)
            last  == Least(first + PageLimit, Tip(l))
            page  == SubSeq(History, first + 1, last)
            reduced == ReduceAll(Page, page)
        IN /\ Show([reduced EXCEPT !.grants =
                      MergeAuthoritativeGrants(@, authoritative.grants)])
           /\ cursor' = IF last > first THEN last ELSE first
  BY DEF TakePage
<1>5. l \in Ledgers /\ l <= ledger
  BY <1>2, <1>3, LedgersInNat DEF Ledgers
<1>6. Tip(l) \in 0..k
  <2>1. Tip(l) = EventsBy(Hist(n), l)
    BY <1>2 DEF Tip
  <2>2. /\ EventsBy(Hist(n), l) \in 0..Len(Hist(n))
        /\ EventsBy(Hist(n), l) <= EventsBy(Hist(n), ledger)
    BY <1>2, <1>5, TipType, TipGrows
  <2> QED
    BY <1>2, <2>1, <2>2 DEF By
<1> PICK first : first = PageStart(asked, l)
  OBVIOUS
<1>7. first \in Nat
  <2>1. CASE asked # None
    BY <1>3, <2>1 DEF PageStart
  <2>2. CASE asked = None
    <3> DEFINE I == {i \in DOMAIN History : History[i].ledger < l - Window}
    <3>1. Hist(n) \in Seq(Event) /\ I \subseteq DOMAIN Hist(n)
      BY <1>2, HistoryType
    <3>2. first = Cardinality(I)
      BY <2>2 DEF PageStart
    <3> HIDE DEF I
    <3>3. 1 + Cardinality(I) \in 1..(Len(Hist(n)) + 1)
      BY <3>1, PositionOK, Zenon
    <3>4. IsFiniteSet(I)
      <4> PICK N : N = Len(Hist(n))
        OBVIOUS
      <4>1. I \in SUBSET (1..N) /\ N \in Int /\ 1 \in Int
        BY <1>2, <3>1, HistoryType
      <4>2. IsFiniteSet(1..N)
        BY <4>1, FS_Interval, Zenon
      <4> QED
        BY <4>1, <4>2, FS_Subset, Zenon
    <3> QED
      BY <3>2, <3>4, FS_CardinalityType, Zenon
  <2> QED
    BY <2>1, <2>2
<1> PICK last : last = Least(first + PageLimit, Tip(l))
  OBVIOUS
<1>8. last \in Nat /\ last <= k
  <2>1. PageLimit \in Nat
    BY GrantViewsAssumption
  <2> PICK tip : tip = Tip(l)
    OBVIOUS
  <2>2. (last = first + PageLimit /\ last <= tip) \/ last = tip
    BY DEF Least
  <2> QED
    BY <1>2, <1>6, <1>7, <2>1, <2>2
<1> PICK page : page = SubSeq(History, first + 1, last)
  OBVIOUS
<1>9. page \in Seq(Heard(n, k))
  <2>1. first + 1 \in Int /\ last \in Int
    BY <1>7, <1>8
  <2>2. \A i \in (first + 1)..last : Hist(n)[i] \in Heard(n, k)
    <3>1. \A i \in (first + 1)..last : i \in 1..k
      BY <1>2, <1>7, <1>8
    <3> QED
      BY <3>1 DEF Heard
  <2>3. page = SubSeq(Hist(n), first + 1, last)
    BY <1>2
  <2>4. SubSeq(Hist(n), first + 1, last) \in Seq(Heard(n, k))
    BY <2>1, <2>2, SubSeqProperties, Zenon
  <2> QED
    BY <2>3, <2>4
<1> PICK reduced : reduced = ReduceAll(Page, page)
  OBVIOUS
<1>10. reduced \in Pages(n, k)
  BY <1>2, <1>9, PageHere, ReduceAllOK
<1>11. Show([reduced EXCEPT !.grants = MergeAuthoritativeGrants(@, authoritative.grants)])
       /\ cursor' = IF last > first THEN last ELSE first
  BY <1>4
<1>12. UNCHANGED <<chain_vars, authoritative, grantsStatus, streamed, discovery, hydrations>>
       /\ fetch' = [fetch EXCEPT ![r] = NoFetch]
  BY DEF TakePage
<1>13. ChainInv' /\ PageInv' /\ ResultInv'
  BY <1>10, <1>11, <1>12, MergedOK
<1>14. FeedInv'
  <2>1. NoFetch \in Fetches
    BY DEF Fetches
  <2> QED
    BY <1>1, <1>7, <1>8, <1>11, <1>12, <2>1 DEF FeedInv
<1>15. ReadsInv'
  BY <1>12, ReadsUntouched
<1> QED
  BY <1>13, <1>14, <1>15 DEF ViewsInv

\* An event never takes a grant off the page.
LEMMA ReduceKeeps ==
  ASSUME NEW n, NEW k, NEW page \in Pages(n, k), NEW e \in Event, NEW g \in Grants,
         page.grants[g] # None, Says(e, Stored[n][e.grant][k])
  PROVE  ReduceActivity(page, e).grants[g] # None
<1>1. /\ page.grants \in [Grants -> Views \cup {None}] /\ e.grant \in Grants
      /\ \A x \in Grants : ViewOK(page.grants[x], Stored[n][x][k])
  BY DEF Pages, ViewsOK, Event
<1>2. CASE e.grant # g
  BY <1>1, <1>2 DEF ReduceActivity
<1>3. CASE e.grant = g
  <2> PICK v : v = page.grants[g]
    OBVIOUS
  <2> PICK t : t = Stored[n][g][k]
    OBVIOUS
  <2>1. v \in Views /\ v # None /\ ViewOK(v, t) /\ Says(e, t) /\ t \in ChainStates
    BY <1>1, <1>3 DEF ViewOK
  <2>2. Applied(v, e) # None
    BY <2>1, AppliedOK, NoneIsNoState
  <2>3. ReduceActivity(page, e) = page
        \/ ReduceActivity(page, e).grants
             = [page.grants EXCEPT ![g] = IF AlreadyMaterialized(v, e) THEN v ELSE Applied(v, e)]
    BY <1>3, <2>1 DEF ReduceActivity
  <2> QED
    BY <1>1, <2>1, <2>2, <2>3
<1> QED
  BY <1>2, <1>3

LEMMA OnMessageOK ==
  ASSUME ViewsInv, OnMessage
  PROVE  ViewsInv'
<1> PICK n : n = scenario
  OBVIOUS
<1> PICK k : k = By(scenario, ledger)
  OBVIOUS
<1>1. ChainInv /\ FeedInv /\ ResultInv
  BY DEF ViewsInv
<1>2. /\ n \in DOMAIN Scenarios /\ k \in 0..Len(Hist(n)) /\ k \in Nat
      /\ indexed \in 0..k /\ History = Hist(n)
  BY <1>1, ByType DEF ChainInv
<1>3. /\ streamed < indexed /\ streamed' = streamed + 1 /\ streamed \in Nat
      /\ Show(ReduceActivity(Page, History[streamed + 1]))
      /\ UNCHANGED <<chain_vars, authoritative, grantsStatus, cursor, fetch, discovery,
                     hydrations>>
  BY <1>1 DEF OnMessage, FeedInv
<1> PICK e : e = History[streamed + 1]
  OBVIOUS
<1>4. e \in Heard(n, k)
  <2>1. streamed + 1 \in 1..k
    BY <1>2, <1>3
  <2> QED
    BY <1>2, <2>1 DEF Heard
<1>5. e \in Event /\ Says(e, Stored[n][e.grant][k])
  BY <1>2, <1>4, HeardSays
<1>6. Page \in Pages(n, k)
  BY PageHere
<1> PICK page : page = ReduceActivity(Page, e)
  OBVIOUS
<1>7. page \in Pages(n, k)
  BY <1>2, <1>4, <1>6, ReduceActivityOK
<1>8. \A g \in Grants : grants[g] # None => page.grants[g] # None
  <2>1. Page.grants = grants
    BY DEF Page
  <2> QED
    BY <1>5, <1>6, <2>1, ReduceKeeps
<1>9. \A g \in Grants : authoritative.grants[g] # None => page.grants[g] # None
  BY <1>1, <1>8 DEF ResultInv
<1>10. ChainInv' /\ PageInv' /\ ResultInv'
  BY <1>3, <1>7, <1>9, ShowOK
<1>11. FeedInv'
  BY <1>1, <1>3 DEF FeedInv
<1>12. ReadsInv'
  BY <1>3, ReadsUntouched
<1> QED
  BY <1>10, <1>11, <1>12 DEF ViewsInv

\* The steps of the feed that do not touch the page.
LEMMA FeedStepsOK ==
  ASSUME ViewsInv,
         \/ OpenStream
         \/ OnError
         \/ \E r \in Readers : SnapshotUnavailable(r) \/ PageUnavailable(r)
  PROVE  ViewsInv'
<1>1. FeedInv /\ ChainInv
  BY DEF ViewsInv
<1>2. UNCHANGED <<chain_vars, page_vars, authoritative, grantsStatus, discovery, hydrations>>
  BY DEF OpenStream, OnError, SnapshotUnavailable, PageUnavailable
<1>3. ChainInv' /\ PageInv' /\ ResultInv'
  BY <1>2, PageUntouched
<1>4. ReadsInv'
  BY <1>2, ReadsUntouched
<1>5. indexed \in Nat /\ ledger \in Ledgers
  BY <1>1, ByType DEF ChainInv
<1>6. NoFetch \in Fetches /\ RpcPage \in Fetches
  BY <1>1, <1>5 DEF FeedInv, Fetches, RpcPage
<1>7. FeedInv'
  <2>1. CASE OpenStream
    BY <1>1, <1>5, <2>1 DEF FeedInv, OpenStream
  <2>2. CASE OnError
    BY <1>1, <2>2 DEF FeedInv, OnError
  <2>3. ASSUME NEW r \in Readers, SnapshotUnavailable(r) PROVE FeedInv'
    BY <1>1, <1>6, <2>3 DEF FeedInv, SnapshotUnavailable, feed_vars
  <2>4. ASSUME NEW r \in Readers, PageUnavailable(r) PROVE FeedInv'
    BY <1>1, <1>6, <2>4 DEF FeedInv, PageUnavailable
  <2> QED
    BY <2>1, <2>2, <2>3, <2>4
<1> QED
  BY <1>3, <1>4, <1>7 DEF ViewsInv

LEMMA HydrateOK ==
  ASSUME ViewsInv, Hydrate
  PROVE  ViewsInv'
<1>1. FeedInv /\ ChainInv /\ ReadsInv
  BY DEF ViewsInv
<1>2. /\ UNCHANGED <<chain_vars, page_vars, authoritative, grantsStatus, feed_vars, discovery,
                     fetch>>
      /\ hydrations' = hydrations \cup {[targets |-> Targets, from |-> ledger]}
  BY DEF Hydrate
<1>3. ChainInv' /\ PageInv' /\ ResultInv'
  BY <1>2, PageUntouched
<1>4. FeedInv'
  BY <1>1, <1>2 DEF FeedInv, feed_vars
<1>5. [targets |-> Targets, from |-> ledger] \in Hydrations
  BY <1>1 DEF ChainInv, Hydrations, Targets
<1>6. scenario' = scenario /\ ledger' = ledger
  BY <1>1, <1>2, ChainUntouched
<1>7. ReadsInv'
  BY <1>1, <1>2, <1>5, <1>6 DEF ReadsInv
<1> QED
  BY <1>3, <1>4, <1>7 DEF ViewsInv

LEMMA FinishHydrationOK ==
  ASSUME ViewsInv, FinishHydration
  PROVE  ViewsInv'
<1> PICK n : n = scenario
  OBVIOUS
<1> PICK k : k = By(scenario, ledger)
  OBVIOUS
<1>1. FeedInv /\ ChainInv /\ ReadsInv /\ PageInv /\ ResultInv
  BY DEF ViewsInv
<1>2. UNCHANGED <<chain_vars, events, authoritative, grantsStatus, feed_vars, discovery, fetch>>
  BY DEF FinishHydration
<1>3. PICK h, failing, o :
        /\ h \in hydrations
        /\ o \in Outcomes(h.targets, failing, h.from)
        /\ grants' = [g \in Grants |->
             IF g \in h.targets /\ grants[g] # None /\ Loaded(o[g]) THEN o[g] ELSE grants[g]]
        /\ hydrations' = hydrations \ {h}
  BY DEF FinishHydration
<1>4. h.targets \subseteq Grants /\ h.from \in Ledgers
  BY <1>1, <1>3 DEF ReadsInv, Hydrations
<1> PICK page : page = [grants |-> grants', events |-> events]
  OBVIOUS
<1>5. \A g \in Grants : ViewOK(grants[g], Stored[n][g][k]) /\ grants[g] \in Views \cup {None}
  BY <1>1 DEF PageInv, ViewsOK
<1>6. ASSUME NEW g \in Grants
      PROVE  /\ ViewOK(grants'[g], Stored[n][g][k])
             /\ grants'[g] \in Views \cup {None}
             /\ grants[g] # None => grants'[g] # None
  <2>1. grants'[g] = IF g \in h.targets /\ grants[g] # None /\ Loaded(o[g]) THEN o[g]
                     ELSE grants[g]
    BY <1>3
  <2>2. CASE g \in h.targets /\ Loaded(o[g])
    <3>1. o[g] \in Views /\ o[g] # None /\ ViewOK(o[g], Stored[n][g][k])
      <4>1. o \in Outcomes(h.targets, failing, h.from)
        BY <1>3
      <4> QED
        BY <1>1, <1>4, <2>2, <4>1, OutcomesOK
    <3> QED
      BY <1>5, <2>1, <3>1
  <2>3. CASE ~(g \in h.targets /\ Loaded(o[g]))
    BY <1>5, <2>1, <2>3
  <2> QED
    BY <2>2, <2>3
<1> PICK shown : shown = grants'
  OBVIOUS
<1>7. shown = [g \in Grants |-> shown[g]]
  BY <1>3
<1>8. shown \in ViewsOK(n, k)
  BY <1>6, <1>7 DEF ViewsOK
<1>9. page \in Pages(n, k)
  BY <1>1, <1>8 DEF Pages, PageInv
<1>10. Show(page)
  BY <1>2 DEF Show
<1>11. \A g \in Grants : authoritative.grants[g] # None => page.grants[g] # None
  BY <1>1, <1>6 DEF ResultInv
<1>12. ChainInv' /\ PageInv' /\ ResultInv'
  BY <1>2, <1>9, <1>10, <1>11, ShowOK
<1>13. FeedInv'
  BY <1>1, <1>2 DEF FeedInv, feed_vars
<1>14. ReadsInv'
  <2>1. scenario' = scenario /\ ledger' = ledger
    BY <1>1, <1>2, ChainUntouched
  <2> QED
    BY <1>1, <1>2, <1>3, <2>1 DEF ReadsInv
<1> QED
  BY <1>12, <1>13, <1>14 DEF ViewsInv

LEMMA StartsOK ==
  ASSUME ViewsInv, NEW r \in Readers, Reconcile(r) \/ Retry(r)
  PROVE  ViewsInv'
<1>1. FeedInv /\ ChainInv /\ ReadsInv
  BY DEF ViewsInv
<1>2. /\ UNCHANGED <<chain_vars, page_vars, authoritative, feed_vars, hydrations>>
      /\ discovery' = [discovery EXCEPT ![r] = Begun]
      /\ fetch' = fetch \/ fetch' = [fetch EXCEPT ![r] = Snapshot]
      /\ grantsStatus' = grantsStatus \/ grantsStatus' = "loading"
  BY DEF Reconcile, Retry
<1>3. ChainInv' /\ PageInv' /\ ResultInv'
  BY <1>2, PageUntouched
<1>4. Snapshot \in Fetches
  BY <1>1, ByType DEF ChainInv, Fetches, Snapshot
<1>5. FeedInv'
  BY <1>1, <1>2, <1>4 DEF FeedInv, feed_vars
<1>6. scenario' = scenario /\ ledger' = ledger
  BY <1>1, <1>2, ChainUntouched
<1>7. Begun \in Discoveries(scenario, ledger)
  BY <1>1, BegunOK DEF ChainInv, Discoveries
<1>8. ReadsInv'
  <2> PICK D : D = Discoveries(scenario, ledger)
    OBVIOUS
  <2>1. discovery \in [Readers -> D] /\ Begun \in D
    BY <1>1, <1>7 DEF ReadsInv
  <2>2. discovery' \in [Readers -> D]
    BY <1>2, <2>1
  <2> QED
    BY <1>1, <1>2, <1>6, <2>2 DEF ReadsInv
<1> QED
  BY <1>3, <1>5, <1>8 DEF ViewsInv

\* What the chain bore out it still does when it is longer.
LEMMA DiscoveriesStay ==
  ASSUME NEW n \in DOMAIN Scenarios, NEW l \in Ledgers, NEW m \in Ledgers, l <= m
  PROVE  Discoveries(n, l) \subseteq Discoveries(n, m)
<1>1. /\ By(n, l) \in 0..Len(Hist(n)) /\ By(n, m) \in 0..Len(Hist(n))
      /\ By(n, l) <= By(n, m)
  BY TipType, TipGrows DEF By
<1>2. ViewsOK(n, By(n, l)) \subseteq ViewsOK(n, By(n, m))
  BY <1>1, ViewsStay
<1>3. \A d : ScanOK(d, n, By(n, l)) => ScanOK(d, n, By(n, m))
  BY <1>2 DEF ScanOK
<1>4. \A x \in Ledgers : x <= l => x <= m
  BY LedgersInNat
<1>5. \A d : d \in Waits \/ d \in Scans => d.from \in Ledgers
  BY DEF Waits, Scans
<1> QED
  BY <1>3, <1>4, <1>5 DEF Discoveries

LEMMA CloseLedgerOK ==
  ASSUME ViewsInv, CloseLedger
  PROVE  ViewsInv'
<1> PICK n : n = scenario
  OBVIOUS
<1> PICK j : j = By(scenario, ledger)
  OBVIOUS
<1> PICK m : m = ledger + 1
  OBVIOUS
<1> PICK k : k = By(scenario, m)
  OBVIOUS
<1>1. ChainInv /\ PageInv /\ FeedInv /\ ReadsInv /\ ResultInv
  BY DEF ViewsInv
<1>2. /\ UNCHANGED <<scenario, indexed, page_vars, authoritative, grantsStatus, feed_vars,
                     discovery, fetch, hydrations>>
      /\ ledger' = m /\ ledger < MaxLedger
  BY DEF CloseLedger
<1>3. m \in Ledgers /\ ledger \in Ledgers /\ ledger <= m
  BY <1>1, <1>2, LedgersInNat DEF ChainInv, Ledgers
<1>4. /\ n \in DOMAIN Scenarios /\ j \in 0..Len(Hist(n)) /\ k \in 0..Len(Hist(n)) /\ j <= k
      /\ Len(Hist(n)) \in Nat
  BY <1>1, <1>3, TipType, TipGrows, HistoryType DEF ChainInv, By
<1>5. scenario' = n /\ By(scenario', ledger') = k
  BY <1>2
<1>6. /\ ViewsOK(n, j) \subseteq ViewsOK(n, k)
      /\ Seq(Heard(n, j)) \subseteq Seq(Heard(n, k))
      /\ Discoveries(n, ledger) \subseteq Discoveries(n, m)
  <2>1. j \in Nat /\ k \in Nat
    BY <1>4
  <2>2. Heard(n, j) \subseteq Heard(n, k)
    BY <1>4, <2>1, HeardGrows
  <2> QED
    BY <1>3, <1>4, <2>2, ViewsStay, DiscoveriesStay
<1>7. ChainInv'
  <2>1. indexed \in 0..j
    BY <1>1 DEF ChainInv
  <2>2. indexed \in 0..k
    BY <1>4, <2>1
  <2> QED
    BY <1>2, <1>3, <1>4, <1>5, <2>2 DEF ChainInv
<1>8. PageInv'
  BY <1>1, <1>2, <1>5, <1>6 DEF PageInv, page_vars
<1>9. FeedInv'
  BY <1>1, <1>2 DEF FeedInv, feed_vars
<1>10. ReadsInv'
  <2>1. discovery \in [Readers -> Discoveries(n, m)]
    <3> PICK A : A = Discoveries(n, ledger)
      OBVIOUS
    <3> PICK B : B = Discoveries(n, m)
      OBVIOUS
    <3>1. discovery \in [Readers -> A] /\ A \subseteq B
      BY <1>1, <1>6 DEF ReadsInv
    <3>2. discovery \in [Readers -> B]
      BY <3>1
    <3> QED
      BY <3>2
  <2> QED
    BY <1>1, <1>2, <1>5, <2>1 DEF ReadsInv
<1>11. ResultInv'
  <2>1. authoritative \in Results(n, k)
    BY <1>1, <1>6 DEF ResultInv, Results
  <2>2. grants' = grants
    BY <1>2 DEF page_vars
  <2> QED
    BY <1>1, <1>2, <1>5, <2>1, <2>2 DEF ResultInv
<1> QED
  BY <1>7, <1>8, <1>9, <1>10, <1>11 DEF ViewsInv

LEMMA IndexOK ==
  ASSUME ViewsInv, Index
  PROVE  ViewsInv'
<1> PICK k : k = By(scenario, ledger)
  OBVIOUS
<1>1. ChainInv /\ PageInv /\ FeedInv /\ ReadsInv /\ ResultInv
  BY DEF ViewsInv
<1>2. /\ UNCHANGED <<scenario, ledger, page_vars, authoritative, grantsStatus, feed_vars,
                     discovery, fetch, hydrations>>
      /\ indexed' = k
  BY <1>1, ByType DEF Index
<1>3. scenario' = scenario /\ ledger' = ledger /\ By(scenario', ledger') = k
  BY <1>2
<1>4. k \in 0..k
  BY <1>1, ByType
<1>5. ChainInv'
  BY <1>1, <1>2, <1>3, <1>4 DEF ChainInv
<1>6. PageInv'
  BY <1>1, <1>2, <1>3 DEF PageInv, page_vars
<1>7. FeedInv'
  BY <1>1, <1>2 DEF FeedInv, feed_vars
<1>8. ReadsInv'
  BY <1>1, <1>2, <1>3 DEF ReadsInv
<1>9. ResultInv'
  BY <1>1, <1>2, <1>3 DEF ResultInv, page_vars
<1> QED
  BY <1>5, <1>6, <1>7, <1>8, <1>9 DEF ViewsInv

\* Views of a discovery, dated.
LEMMA DatedOK ==
  ASSUME NEW n, NEW k, NEW d \in Scans, d.loaded \in ViewsOK(n, k)
  PROVE  /\ Result(d) \in ViewsOK(n, k)
         /\ \A g \in Grants : d.loaded[g] # None => Result(d)[g] # None
<1>1. d.synced \in Ledgers \cup {None}
  BY DEF Scans
<1>2. ASSUME NEW g \in Grants
      PROVE  /\ Result(d)[g] \in Views \cup {None}
             /\ ViewOK(Result(d)[g], Stored[n][g][k])
             /\ d.loaded[g] # None => Result(d)[g] # None
  <2> PICK v : v = d.loaded[g]
    OBVIOUS
  <2> PICK t : t = Stored[n][g][k]
    OBVIOUS
  <2> PICK w : w = Result(d)[g]
    OBVIOUS
  <2>1. ViewOK(v, t)
    BY DEF ViewsOK
  <2>2. CASE v = None
    BY <2>2 DEF Result, ViewOK
  <2>3. CASE v # None
    <3>1. v \in Views
      BY <2>1, <2>3 DEF ViewOK
    <3>2. v = [state |-> v.state, synced |-> v.synced, scheduled |-> v.scheduled]
          /\ v.state \in GrantStates /\ v.scheduled \in BOOLEAN
      BY <3>1, ViewIs
    <3>3. w = [v EXCEPT !.synced = d.synced]
      BY <2>3 DEF Result
    <3>4. w = [state |-> v.state, synced |-> d.synced, scheduled |-> v.scheduled]
      BY <3>2, <3>3
    <3>5. w \in Views
      BY <1>1, <3>2, <3>4 DEF Views
    <3>6. ViewOK(w, t)
      BY <2>1, <2>3, <3>4, <3>5 DEF ViewOK
    <3> QED
      BY <3>5, <3>6, NoneIsNoState
  <2> QED
    BY <2>2, <2>3
<1>3. Result(d) = [g \in Grants |-> Result(d)[g]]
  BY DEF Result
<1> PICK R : R = Result(d)
  OBVIOUS
<1>4. R \in ViewsOK(n, k)
  BY <1>2, <1>3 DEF ViewsOK
<1> QED
  BY <1>2, <1>4

\* A discovery goes on, or its result is shown: complete, if it is ready.
LEMMA ContinueOK ==
  ASSUME ViewsInv, NEW r \in Readers, NEW d \in Scans,
         ScanOK(d, scenario, By(scenario, ledger)), d.from <= ledger,
         d.todo # {} \/ d.at = "read",
         Continue(r, d), UNCHANGED <<chain_vars, events, feed_vars, fetch, hydrations>>
  PROVE  ViewsInv'
<1> PICK n : n = scenario
  OBVIOUS
<1> PICK k : k = By(scenario, ledger)
  OBVIOUS
<1>1. ChainInv /\ PageInv /\ FeedInv /\ ReadsInv /\ ResultInv
  BY DEF ViewsInv
<1>2. ChainInv' /\ scenario' = n /\ ledger' = ledger /\ By(scenario', ledger') = k
  BY <1>1, ChainUntouched
<1>3. FeedInv'
  BY <1>1 DEF FeedInv, feed_vars
<1>4. ASSUME NEW x \in Discoveries(n, ledger), discovery' = [discovery EXCEPT ![r] = x]
      PROVE  ReadsInv'
  <2> PICK D : D = Discoveries(n, ledger)
    OBVIOUS
  <2>1. discovery \in [Readers -> D] /\ x \in D
    BY <1>1 DEF ReadsInv
  <2>2. discovery' \in [Readers -> D]
    BY <1>4, <2>1
  <2> QED
    BY <1>1, <1>2, <2>2 DEF ReadsInv
<1>5. CASE d.todo # {}
  <2>1. /\ discovery' = [discovery EXCEPT ![r] = d]
        /\ UNCHANGED <<authoritative, grants, grantsStatus>>
    BY <1>5 DEF Continue
  <2>2. d \in Discoveries(n, ledger)
    BY DEF Discoveries
  <2>3. PageInv' /\ ResultInv'
    BY <2>1, PageUntouched DEF page_vars
  <2> QED
    BY <1>2, <1>3, <1>4, <2>1, <2>2, <2>3 DEF ViewsInv
<1>6. CASE d.todo = {}
  <2>1. /\ discovery' = [discovery EXCEPT ![r] = NoDiscovery]
        /\ authoritative' = [began |-> d.began, grants |-> Result(d)]
        /\ grants' = MergeAuthoritativeGrants(grants, Result(d))
        /\ grantsStatus' = IF d.failed # {} THEN "error" ELSE "ready"
    BY <1>6 DEF Continue
  <2>2. NoDiscovery \in Discoveries(n, ledger)
    BY DEF Discoveries
  <2>3. d.loaded \in ViewsOK(n, k) /\ d.began \in Ledgers
    BY DEF ScanOK, Scans
  <2>4. /\ Result(d) \in ViewsOK(n, k)
        /\ \A g \in Grants : d.loaded[g] # None => Result(d)[g] # None
    BY <2>3, DatedOK
  <2> PICK R : R = Result(d)
    OBVIOUS
  <2>5. MergeAuthoritativeGrants(grants, R) \in ViewsOK(n, k)
    BY <1>1, <2>4, MergeOK DEF PageInv
  <2>6. PageInv'
    BY <1>1, <1>2, <2>1, <2>5 DEF PageInv
  <2>7. /\ authoritative'.began = d.began /\ authoritative'.grants = R
        /\ authoritative' \in Results(n, k)
    BY <2>1, <2>3, <2>4 DEF Results
  <2>8. \A g \in Grants : R[g] # None => grants'[g] # None
    BY <2>1, MergeKeeps
  <2>9. grantsStatus' = "ready" =>
          \A g \in Discoverable : Found(n, g, d.began) => R[g] # None
    <3> SUFFICES ASSUME grantsStatus' = "ready", NEW g \in Discoverable, Found(n, g, d.began)
                 PROVE  R[g] # None
      OBVIOUS
    <3>1. d.failed = {}
      BY <2>1
    <3>2. d.at = "read" /\ d.loaded[g] # None
      BY <1>6, <3>1 DEF ScanOK
    <3> QED
      BY <2>4, <3>2, DiscoverableAreGrants
  <2>10. ResultInv'
    BY <1>2, <2>3, <2>7, <2>8, <2>9 DEF ResultInv
  <2> QED
    BY <1>2, <1>3, <1>4, <2>1, <2>2, <2>6, <2>10 DEF ViewsInv
<1> QED
  BY <1>5, <1>6

\* A scan that starts: what there was is among its ids or has failed.
LEMMA ScanStarts ==
  ASSUME ChainInv, NEW began \in Ledgers, began <= ledger, NEW known \in SUBSET Grants,
         NEW synced \in Ledgers \cup {None}, NEW at \in {"probe", "read"},
         NEW ids \in SUBSET Grants, NEW failed \in SUBSET Grants,
         \A g \in Discoverable : Found(scenario, g, began) => g \in ids \/ g \in failed,
         NEW x, x = [at |-> at, began |-> began, from |-> ledger, known |-> known,
                     synced |-> synced, todo |-> ids, failed |-> failed, misses |-> 0,
                     loaded |-> [g \in Grants |-> None]]
  PROVE  /\ x \in Scans /\ x.from <= ledger
         /\ ScanOK(x, scenario, By(scenario, ledger))
<1>1. ledger \in Ledgers /\ ledger <= ledger
  BY LedgersInNat DEF ChainInv
<1> PICK none : none = [g \in Grants |-> None]
  OBVIOUS
<1>2. none \in [Grants -> Views \cup {None}]
  OBVIOUS
<1>3. none \in ViewsOK(scenario, By(scenario, ledger))
  BY DEF ViewsOK, ViewOK
<1>4. x = [at |-> at, began |-> began, from |-> ledger, known |-> known,
           synced |-> synced, todo |-> ids, failed |-> failed, misses |-> 0,
           loaded |-> none]
  OBVIOUS
<1>5. x \in Scans
  BY <1>1, <1>2, <1>4 DEF Scans
<1>6. ScanOK(x, scenario, By(scenario, ledger))
  BY <1>3, <1>4 DEF ScanOK
<1> QED
  BY <1>1, <1>4, <1>5, <1>6

\* A scan that moves on: nothing is forgotten.
LEMMA ScanMoves ==
  ASSUME ChainInv, NEW d \in Scans, NEW failing \in SUBSET Grants,
         NEW x, x = Scanned(d, failing)
  PROVE  /\ x \in Scans
         /\ x = [at |-> d.at, began |-> d.began, from |-> ledger, known |-> d.known,
                 synced |-> d.synced, todo |-> x.todo, failed |-> x.failed,
                 misses |-> x.misses, loaded |-> d.loaded]
         /\ d.failed \subseteq x.failed /\ failing \subseteq x.failed
         /\ \A g \in d.todo : g \in Batch(d) \/ g \in x.todo \/ g \in x.failed
<1>1. /\ d = [at |-> d.at, began |-> d.began, from |-> d.from, known |-> d.known,
              synced |-> d.synced, todo |-> d.todo, failed |-> d.failed,
              misses |-> d.misses, loaded |-> d.loaded]
      /\ d.at \in {"probe", "read"} /\ d.began \in Ledgers /\ d.known \subseteq Grants
      /\ d.synced \in Ledgers \cup {None} /\ d.todo \subseteq Grants
      /\ d.failed \subseteq Grants /\ d.misses \in Nat
      /\ d.loaded \in [Grants -> Views \cup {None}]
  BY DEF Scans
<1> PICK misses : misses = IF failing = Batch(d) THEN d.misses + 1 ELSE 0
  OBVIOUS
<1> PICK rest : rest = Rest(d)
  OBVIOUS
<1> PICK failed : failed = FailedIds(d, failing) \cup
                             (IF misses >= FailedBatchAbort THEN rest ELSE {})
  OBVIOUS
<1> PICK todo : todo = IF misses >= FailedBatchAbort THEN {} ELSE rest
  OBVIOUS
<1>2. x = [d EXCEPT !.misses = misses, !.from = ledger, !.failed = failed, !.todo = todo]
  BY DEF Scanned
<1>3. x = [at |-> d.at, began |-> d.began, from |-> ledger, known |-> d.known,
           synced |-> d.synced, todo |-> todo, failed |-> failed, misses |-> misses,
           loaded |-> d.loaded]
  BY <1>1, <1>2
<1>4. rest \subseteq d.todo /\ \A g \in d.todo : g \in Batch(d) \/ g \in rest
  BY DEF Rest
<1>5. todo \subseteq Grants /\ failed \subseteq Grants /\ misses \in Nat
  BY <1>1, <1>4 DEF FailedIds
<1>6. ledger \in Ledgers
  BY DEF ChainInv
<1>7. x \in Scans
  BY <1>1, <1>3, <1>5, <1>6 DEF Scans
<1>8. d.failed \subseteq failed /\ failing \subseteq failed
      /\ \A g \in rest : g \in todo \/ g \in failed
  BY DEF FailedIds
<1> QED
  BY <1>3, <1>4, <1>7, <1>8

LEMMA ReadIdsOK ==
  ASSUME ViewsInv, NEW r \in Readers, ReadIds(r)
  PROVE  ViewsInv'
<1> PICK n : n = scenario
  OBVIOUS
<1> PICK d : d = discovery[r]
  OBVIOUS
<1>1. ChainInv /\ ReadsInv /\ ledger \in Ledgers /\ n \in DOMAIN Scenarios
  BY DEF ViewsInv, ChainInv
<1>2. /\ d \in Waits /\ d.from <= ledger
  BY <1>1 DEF ReadsInv, Discoveries, NoDiscovery, Scans, ReadIds
<1>3. /\ d.began \in Ledgers /\ d.from \in Ledgers /\ d.began <= d.from
      /\ d.known \in SUBSET Grants
      /\ d = [at |-> "ids", began |-> d.began, from |-> d.from, known |-> d.known,
              synced |-> d.synced]
  BY <1>2 DEF Waits
<1>4. d.began <= ledger
  <2>1. d.began \in Nat /\ d.from \in Nat /\ ledger \in Nat
    BY <1>1, <1>3, LedgersInNat
  <2> QED
    BY <1>2, <1>3, <2>1
<1>5. PICK l \in (d.from..ledger) \cup {None}, a \in (d.from..ledger) \cup {None} :
        LET timed == [d EXCEPT !.synced = l] IN
          Continue(r, IF a = None THEN Scan(timed, "probe", Discoverable)
                      ELSE Scan(timed, "read", Allocated(a) \cup d.known))
  BY DEF ReadIds
<1> PICK timed : timed = [d EXCEPT !.synced = l]
  OBVIOUS
<1>6. timed = [at |-> "ids", began |-> d.began, from |-> d.from, known |-> d.known,
               synced |-> l]
  BY <1>3
<1>7. \A x \in d.from..ledger : x \in Ledgers /\ d.began <= x
  BY <1>1, <1>2, <1>3, LedgersInNat DEF Ledgers
<1>8. l \in Ledgers \cup {None}
  BY <1>7
<1>9. UNCHANGED <<chain_vars, events, feed_vars, fetch, hydrations>>
  BY DEF ReadIds
<1>10. CASE a = None
  <2> PICK x : x = Scan(timed, "probe", Discoverable)
    OBVIOUS
  <2>1. x = [at |-> "probe", began |-> d.began, from |-> ledger, known |-> d.known,
             synced |-> l, todo |-> Discoverable, failed |-> {}, misses |-> 0,
             loaded |-> [g \in Grants |-> None]]
    BY <1>6 DEF Scan
  <2>2. x \in Scans /\ x.from <= ledger /\ ScanOK(x, scenario, By(scenario, ledger))
    <3> PICK k : k = d.known
      OBVIOUS
    <3> PICK b : b = d.began
      OBVIOUS
    <3>1. /\ b \in Ledgers /\ b <= ledger /\ k \in SUBSET Grants
          /\ \A g \in Discoverable : Found(scenario, g, b) => g \in Discoverable \/ g \in {}
          /\ Discoverable \in SUBSET Grants /\ {} \in SUBSET Grants
          /\ "probe" \in {"probe", "read"}
          /\ x = [at |-> "probe", began |-> b, from |-> ledger, known |-> k,
                  synced |-> l, todo |-> Discoverable, failed |-> {}, misses |-> 0,
                  loaded |-> [g \in Grants |-> None]]
      BY <1>3, <1>4, <2>1, DiscoverableAreGrants
    <3> QED
      BY ONLY <1>1, <1>8, <3>1, ScanStarts, Zenon
  <2>3. x.todo # {}
    <3>1. 1 \in Discoverable
      BY GrantViewsAssumption DEF Discoverable, Grants
    <3> QED
      BY <2>1, <3>1
  <2>4. Continue(r, x)
    BY <1>5, <1>10
  <2> QED
    BY <1>9, <2>2, <2>3, <2>4, ContinueOK
<1>11. CASE a # None
  <2> PICK ids : ids = Allocated(a) \cup d.known
    OBVIOUS
  <2> PICK x : x = Scan(timed, "read", ids)
    OBVIOUS
  <2>1. x = [at |-> "read", began |-> d.began, from |-> ledger, known |-> d.known,
             synced |-> l, todo |-> ids, failed |-> {}, misses |-> 0,
             loaded |-> [g \in Grants |-> None]]
    BY <1>6 DEF Scan
  <2>2. a \in Ledgers /\ d.began <= a
    BY <1>7, <1>11
  <2>3. ids \in SUBSET Grants
    BY <1>3, DiscoverableAreGrants DEF Allocated
  <2>4. /\ \A g \in Discoverable : Found(scenario, g, d.began) => g \in ids \/ g \in {}
        /\ {} \in SUBSET Grants /\ "read" \in {"probe", "read"}
    <3> SUFFICES ASSUME NEW g \in Discoverable, Found(scenario, g, d.began) PROVE g \in ids
      OBVIOUS
    <3>1. Found(scenario, g, a)
      BY <1>1, <1>3, <2>2, DiscoverableAreGrants, FoundStays
    <3>2. Exists(g, a)
      BY <1>1, <2>2, <3>1, DiscoverableAreGrants, OnChainIs
    <3>3. g <= g /\ g \in Grants
      BY DiscoverableAreGrants DEF Grants
    <3> QED
      BY <3>2, <3>3 DEF Allocated
  <2>5. x \in Scans /\ x.from <= ledger /\ ScanOK(x, scenario, By(scenario, ledger))
    <3> PICK k : k = d.known
      OBVIOUS
    <3> PICK b : b = d.began
      OBVIOUS
    <3>1. /\ b \in Ledgers /\ b <= ledger /\ k \in SUBSET Grants
          /\ \A g \in Discoverable : Found(scenario, g, b) => g \in ids \/ g \in {}
          /\ x = [at |-> "read", began |-> b, from |-> ledger, known |-> k,
                  synced |-> l, todo |-> ids, failed |-> {}, misses |-> 0,
                  loaded |-> [g \in Grants |-> None]]
      BY <1>3, <1>4, <2>1, <2>4
    <3> QED
      BY ONLY <1>1, <1>8, <2>3, <2>4, <3>1, ScanStarts, Zenon
  <2>6. x.at = "read"
    BY <2>1
  <2>7. Continue(r, x)
    BY <1>5, <1>11
  <2> QED
    BY <1>9, <2>5, <2>6, <2>7, ContinueOK
<1> QED
  BY <1>10, <1>11

LEMMA ScanIs ==
  ASSUME NEW d \in Scans
  PROVE  /\ d = [at |-> d.at, began |-> d.began, from |-> d.from, known |-> d.known,
                 synced |-> d.synced, todo |-> d.todo, failed |-> d.failed,
                 misses |-> d.misses, loaded |-> d.loaded]
         /\ d.at \in {"probe", "read"} /\ d.began \in Ledgers /\ d.from \in Ledgers
         /\ d.known \in SUBSET Grants /\ d.synced \in Ledgers \cup {None}
         /\ d.todo \in SUBSET Grants /\ d.failed \in SUBSET Grants /\ d.misses \in Nat
         /\ d.loaded \in [Grants -> Views \cup {None}]
BY DEF Scans

LEMMA BatchIsPart ==
  ASSUME NEW d
  PROVE  Batch(d) \subseteq d.todo
BY DEF Batch

\* A scan that is under way, in a state of the invariant.
LEMMA ScanHere ==
  ASSUME ViewsInv, NEW r \in Readers, discovery[r].at \in {"probe", "read"}
  PROVE  /\ discovery[r] \in Scans /\ discovery[r].from <= ledger
         /\ ScanOK(discovery[r], scenario, By(scenario, ledger))
         /\ discovery[r].began <= ledger /\ ledger <= ledger
<1> PICK d : d = discovery[r]
  OBVIOUS
<1>1. d \in Discoveries(scenario, ledger) /\ ledger \in Ledgers
  BY DEF ViewsInv, ReadsInv, ChainInv
<1>2. d \in Scans /\ d.from <= ledger /\ ScanOK(d, scenario, By(scenario, ledger))
  BY <1>1 DEF Discoveries, NoDiscovery, Waits
<1>3. d.began \in Nat /\ d.from \in Nat /\ ledger \in Nat
  BY <1>1, <1>2, ScanIs, LedgersInNat
<1>4. d.began <= d.from
  BY <1>2 DEF ScanOK
<1>5. d.began <= ledger /\ ledger <= ledger
  BY <1>2, <1>3, <1>4
<1> QED
  BY <1>2, <1>5

LEMMA ProbeBatchOK ==
  ASSUME ViewsInv, NEW r \in Readers, ProbeBatch(r)
  PROVE  ViewsInv'
<1> PICK n : n = scenario
  OBVIOUS
<1> PICK k : k = By(scenario, ledger)
  OBVIOUS
<1> PICK d : d = discovery[r]
  OBVIOUS
<1>1. ChainInv /\ ledger \in Ledgers /\ n \in DOMAIN Scenarios
  BY DEF ViewsInv, ChainInv
<1>2. d.at = "probe" /\ UNCHANGED <<chain_vars, events, feed_vars, fetch, hydrations>>
  BY DEF ProbeBatch
<1>3. /\ d \in Scans /\ d.from <= ledger /\ ScanOK(d, n, k)
      /\ d.began <= ledger /\ ledger <= ledger
  BY <1>2, ScanHere
<1>4. PICK failing \in SUBSET Batch(d), found \in SUBSET Batch(d) :
        LET next == Scanned([d EXCEPT !.known = @ \cup found], failing)
        IN /\ \A g \in Batch(d) \ failing : Exists(g, d.from) => g \in found
           /\ Continue(r, IF next.todo # {} THEN next
                          ELSE [Scan(next, "read", next.known) EXCEPT !.failed = next.failed])
  BY DEF ProbeBatch
<1> PICK known : known = d.known \cup found
  OBVIOUS
<1> PICK d2 : d2 = [d EXCEPT !.known = @ \cup found]
  OBVIOUS
<1>5. d2 = [at |-> d.at, began |-> d.began, from |-> d.from, known |-> known,
            synced |-> d.synced, todo |-> d.todo, failed |-> d.failed,
            misses |-> d.misses, loaded |-> d.loaded]
  <2>1. d = [at |-> d.at, began |-> d.began, from |-> d.from, known |-> d.known,
             synced |-> d.synced, todo |-> d.todo, failed |-> d.failed,
             misses |-> d.misses, loaded |-> d.loaded]
    BY <1>3, ScanIs
  <2>2. d2 = [d EXCEPT !.known = known]
    OBVIOUS
  <2> QED
    BY ONLY <2>1, <2>2
<1>6. Batch(d) \subseteq d.todo /\ d.todo \subseteq Grants
  BY <1>3, BatchIsPart, ScanIs
<1>7. known \in SUBSET Grants /\ failing \in SUBSET Grants
  BY <1>3, <1>6, ScanIs
<1>8. d2 \in Scans
  BY <1>3, <1>5, <1>7, ScanIs DEF Scans
<1>9. Batch(d2) = Batch(d)
  BY <1>5 DEF Batch
<1> PICK x : x = Scanned(d2, failing)
  OBVIOUS
<1>10. /\ x \in Scans
       /\ x = [at |-> d2.at, began |-> d2.began, from |-> ledger, known |-> d2.known,
               synced |-> d2.synced, todo |-> x.todo, failed |-> x.failed,
               misses |-> x.misses, loaded |-> d2.loaded]
       /\ d2.failed \subseteq x.failed /\ failing \subseteq x.failed
       /\ \A g \in d2.todo : g \in Batch(d2) \/ g \in x.todo \/ g \in x.failed
  BY <1>1, <1>7, <1>8, ScanMoves
<1>11. /\ x.at = "probe" /\ x.began = d.began /\ x.from = ledger /\ x.known = known
       /\ x.synced = d.synced /\ x.loaded = d.loaded
  BY ONLY <1>2, <1>5, <1>10
<1>12. ASSUME NEW g \in Discoverable, Found(n, g, d.began)
       PROVE  g \in x.todo \/ g \in x.failed \/ g \in known
  <2>1. g \in d.todo \/ g \in d.failed \/ g \in d.known
    BY <1>2, <1>3, <1>12 DEF ScanOK
  <2>2. CASE g \in Batch(d) /\ g \notin failing
    <3>1. d.began \in Ledgers /\ d.from \in Ledgers /\ d.began <= d.from
      BY <1>3, ScanIs DEF ScanOK
    <3>2. Found(n, g, d.from)
      BY <1>1, <1>12, <3>1, DiscoverableAreGrants, FoundStays
    <3>3. Exists(g, d.from)
      BY <1>1, <3>1, <3>2, DiscoverableAreGrants, OnChainIs
    <3>4. g \in found
      BY <1>4, <2>2, <3>3
    <3> QED
      BY <3>4
  <2>3. CASE g \in d.todo /\ (g \in Batch(d) => g \in failing)
    <3>1. g \in d2.todo
      BY <1>5, <2>3
    <3> QED
      BY <1>9, <1>10, <2>3, <3>1
  <2>4. CASE g \in d.failed
    BY <1>5, <1>10, <2>4
  <2> QED
    BY <2>1, <2>2, <2>3, <2>4, <1>6
<1>13. CASE x.todo # {}
  <2>1. x.from <= ledger
    BY <1>3, <1>11
  <2>2. ScanOK(x, n, k)
    BY <1>3, <1>11, <1>12 DEF ScanOK
  <2>3. Continue(r, x)
    BY <1>4, <1>13
  <2> QED
    BY <1>2, <1>10, <1>13, <2>1, <2>2, <2>3, ContinueOK
<1>14. CASE x.todo = {}
  <2> PICK y : y = [Scan(x, "read", x.known) EXCEPT !.failed = x.failed]
    OBVIOUS
  <2> PICK failed : failed = x.failed
    OBVIOUS
  <2> PICK synced : synced = x.synced
    OBVIOUS
  <2> PICK began : began = x.began
    OBVIOUS
  <2> PICK z : z = Scan(x, "read", x.known)
    OBVIOUS
  <2>1. z = [at |-> "read", began |-> began, from |-> ledger, known |-> known,
             synced |-> synced, todo |-> known, failed |-> {}, misses |-> 0,
             loaded |-> [g \in Grants |-> None]]
    BY <1>11 DEF Scan
  <2>2. y = [at |-> "read", began |-> began, from |-> ledger, known |-> known,
             synced |-> synced, todo |-> known, failed |-> failed, misses |-> 0,
             loaded |-> [g \in Grants |-> None]]
    <3> PICK none : none = [g \in Grants |-> None]
      OBVIOUS
    <3>1. z = [at |-> "read", began |-> began, from |-> ledger, known |-> known,
               synced |-> synced, todo |-> known, failed |-> {}, misses |-> 0,
               loaded |-> none]
      BY <2>1
    <3>2. y = [z EXCEPT !.failed = failed]
      OBVIOUS
    <3>3. y = [at |-> "read", began |-> began, from |-> ledger, known |-> known,
               synced |-> synced, todo |-> known, failed |-> failed, misses |-> 0,
               loaded |-> none]
      BY ONLY <3>1, <3>2
    <3> QED
      BY <3>3
  <2>3. /\ began \in Ledgers /\ began <= ledger /\ synced \in Ledgers \cup {None}
        /\ failed \in SUBSET Grants
    BY <1>3, <1>10, <1>11, ScanIs
  <2>4. \A g \in Discoverable : Found(scenario, g, began) => g \in known \/ g \in failed
    BY <1>11, <1>12, <1>14
  <2>5. "read" \in {"probe", "read"}
    OBVIOUS
  <2>6. y \in Scans /\ y.from <= ledger /\ ScanOK(y, scenario, By(scenario, ledger))
    BY ONLY <1>1, <1>7, <2>2, <2>3, <2>4, <2>5, ScanStarts, Zenon
  <2>7. y.at = "read"
    BY ONLY <2>2
  <2>8. Continue(r, y)
    BY <1>4, <1>14
  <2> QED
    BY <1>2, <2>6, <2>7, <2>8, ContinueOK
<1> QED
  BY <1>13, <1>14

LEMMA ReadBatchOK ==
  ASSUME ViewsInv, NEW r \in Readers, ReadBatch(r)
  PROVE  ViewsInv'
<1> PICK n : n = scenario
  OBVIOUS
<1> PICK k : k = By(scenario, ledger)
  OBVIOUS
<1> PICK d : d = discovery[r]
  OBVIOUS
<1>1. ChainInv /\ ledger \in Ledgers /\ n \in DOMAIN Scenarios
  BY DEF ViewsInv, ChainInv
<1>2. d.at = "read" /\ UNCHANGED <<chain_vars, events, feed_vars, fetch, hydrations>>
  BY DEF ReadBatch
<1>3. /\ d \in Scans /\ d.from <= ledger /\ ScanOK(d, n, k)
      /\ d.began <= ledger /\ ledger <= ledger
  BY <1>2, ScanHere
<1>4. PICK failing, o :
        /\ o \in Outcomes(Batch(d), failing, d.from)
        /\ Continue(r, BatchRead(d, o))
  BY DEF ReadBatch
<1> PICK lost : lost = {g \in Batch(d) : o[g] = Failed}
  OBVIOUS
<1>5. Batch(d) \subseteq d.todo /\ d.todo \subseteq Grants
  BY <1>3, BatchIsPart, ScanIs
<1>6. lost \in SUBSET Grants
  BY <1>5
<1> PICK x : x = Scanned(d, lost)
  OBVIOUS
<1>7. /\ x \in Scans
      /\ x = [at |-> d.at, began |-> d.began, from |-> ledger, known |-> d.known,
              synced |-> d.synced, todo |-> x.todo, failed |-> x.failed,
              misses |-> x.misses, loaded |-> d.loaded]
      /\ d.failed \subseteq x.failed /\ lost \subseteq x.failed
      /\ \A g \in d.todo : g \in Batch(d) \/ g \in x.todo \/ g \in x.failed
  <2>1. x = Scanned(d, lost)
    OBVIOUS
  <2> QED
    BY ONLY <1>1, <1>3, <1>6, <2>1, ScanMoves, Zenon
<1> PICK loaded : loaded = [g \in Grants |-> IF g \in Batch(d) /\ Loaded(o[g]) THEN o[g]
                                             ELSE d.loaded[g]]
  OBVIOUS
<1> PICK y : y = BatchRead(d, o)
  OBVIOUS
<1>8. x.loaded = d.loaded
  BY <1>7
<1>9. y = [x EXCEPT !.loaded = loaded]
  BY <1>8 DEF BatchRead
<1>10. y = [at |-> d.at, began |-> d.began, from |-> ledger, known |-> d.known,
            synced |-> d.synced, todo |-> x.todo, failed |-> x.failed,
            misses |-> x.misses, loaded |-> loaded]
  BY ONLY <1>7, <1>9
<1>11. d.from \in Ledgers /\ d.began \in Ledgers /\ d.began <= d.from
  BY <1>3, ScanIs DEF ScanOK
<1>12. ASSUME NEW g \in Grants
       PROVE  /\ loaded[g] \in Views \cup {None}
              /\ ViewOK(loaded[g], Stored[n][g][k])
              /\ d.loaded[g] # None => loaded[g] # None
              /\ g \in Batch(d) /\ Loaded(o[g]) => loaded[g] # None
  <2>1. /\ d.loaded[g] \in Views \cup {None} /\ ViewOK(d.loaded[g], Stored[n][g][k])
    BY <1>3 DEF ScanOK, ViewsOK
  <2>2. CASE g \in Batch(d) /\ Loaded(o[g])
    <3>1. Batch(d) \subseteq Grants /\ o \in Outcomes(Batch(d), failing, d.from)
      BY <1>4, <1>5
    <3>2. o[g] \in Views /\ o[g] # None /\ ViewOK(o[g], Stored[n][g][k])
      BY <1>1, <1>11, <2>2, <3>1, OutcomesOK
    <3> QED
      BY <2>2, <3>2
  <2>3. CASE ~(g \in Batch(d) /\ Loaded(o[g]))
    BY <2>1, <2>3
  <2> QED
    BY <2>2, <2>3
<1>13. loaded \in ViewsOK(n, k) /\ loaded \in [Grants -> Views \cup {None}]
  <2>1. loaded = [g \in Grants |-> loaded[g]]
    OBVIOUS
  <2> QED
    BY ONLY <1>12, <2>1 DEF ViewsOK
<1>14. y \in Scans
  <2>1. /\ x.todo \in SUBSET Grants /\ x.failed \in SUBSET Grants /\ x.misses \in Nat
        /\ d.at \in {"probe", "read"} /\ d.began \in Ledgers
        /\ d.known \in SUBSET Grants /\ d.synced \in Ledgers \cup {None}
    BY <1>3, <1>7, ScanIs
  <2> QED
    BY ONLY <1>1, <1>10, <1>13, <2>1 DEF Scans
<1>15. ASSUME NEW g \in Discoverable, Found(n, g, d.began)
       PROVE  g \in x.todo \/ g \in x.failed \/ loaded[g] # None
  <2>1. g \in d.todo \/ g \in d.failed \/ d.loaded[g] # None
    BY <1>2, <1>3, <1>15 DEF ScanOK
  <2>2. CASE g \in Batch(d) /\ ~ Loaded(o[g])
    <3>1. Batch(d) \subseteq Grants /\ o \in Outcomes(Batch(d), failing, d.from)
      BY <1>4, <1>5
    <3>2. Found(n, g, d.from)
      BY <1>1, <1>11, <1>15, DiscoverableAreGrants, FoundStays
    <3>3. o[g] = Failed
      BY <1>1, <1>11, <2>2, <3>1, <3>2, OutcomesOK
    <3> QED
      BY <1>7, <2>2, <3>3
  <2>3. CASE g \in Batch(d) /\ Loaded(o[g])
    BY <1>12, <2>3, DiscoverableAreGrants
  <2>4. CASE g \in d.todo /\ g \notin Batch(d)
    BY <1>7, <2>4
  <2>5. CASE g \in d.failed \/ d.loaded[g] # None
    BY <1>7, <1>12, <2>5, DiscoverableAreGrants
  <2> QED
    BY <2>1, <2>2, <2>3, <2>4, <2>5
<1>16. /\ y.at = "read" /\ y.began = d.began /\ y.from = ledger /\ y.todo = x.todo
       /\ y.failed = x.failed /\ y.loaded = loaded
  BY <1>2, <1>10
<1>17. y.from <= ledger
  BY <1>3, <1>16
<1>18. ScanOK(y, n, k)
  BY <1>3, <1>13, <1>15, <1>16 DEF ScanOK
<1>19. Continue(r, y)
  BY <1>4
<1> QED
  BY <1>2, <1>14, <1>16, <1>17, <1>18, <1>19, ContinueOK

LEMMA ViewsNextOK ==
  ASSUME ViewsInv, [ViewsNext]_views_vars
  PROVE  ViewsInv'
<1>1. CASE CloseLedger
  BY <1>1, CloseLedgerOK
<1>2. CASE Index
  BY <1>2, IndexOK
<1>3. ASSUME NEW r \in Readers, Discover(r) \/ Fetch(r) \/ Reconcile(r) \/ Retry(r)
      PROVE  ViewsInv'
  <2>1. CASE Discover(r)
    BY <2>1, ReadIdsOK, ProbeBatchOK, ReadBatchOK DEF Discover
  <2>2. CASE Fetch(r)
    BY <2>2, TakeSnapshotOK, TakePageOK, FeedStepsOK DEF Fetch
  <2>3. CASE Reconcile(r) \/ Retry(r)
    BY <2>3, StartsOK
  <2> QED
    BY <1>3, <2>1, <2>2, <2>3
<1>4. CASE OpenStream \/ OnError
  BY <1>4, FeedStepsOK
<1>5. CASE OnMessage
  BY <1>5, OnMessageOK
<1>6. CASE Hydrate
  BY <1>6, HydrateOK
<1>7. CASE FinishHydration
  BY <1>7, FinishHydrationOK
<1>8. CASE UNCHANGED views_vars
  <2>1. UNCHANGED <<chain_vars, page_vars, authoritative, grantsStatus, feed_vars, discovery,
                    fetch, hydrations>>
    BY <1>8 DEF views_vars
  <2>2. ChainInv' /\ PageInv' /\ ResultInv'
    BY <2>1, PageUntouched
  <2>3. ReadsInv'
    BY <2>1, ReadsUntouched
  <2>4. FeedInv'
    BY <2>1 DEF ViewsInv, FeedInv, feed_vars
  <2> QED
    BY <2>2, <2>3, <2>4 DEF ViewsInv
<1> QED
  BY <1>1, <1>2, <1>3, <1>4, <1>5, <1>6, <1>7, <1>8 DEF ViewsNext

\* Every reachable state is one of the invariant.
THEOREM ViewsInvariant == ViewsSpec => []ViewsInv
<1>1. ViewsInit => ViewsInv
  BY ViewsInitOK
<1>2. ViewsInv /\ [ViewsNext]_views_vars => ViewsInv'
  BY ViewsNextOK
<1> QED
  BY <1>1, <1>2, PTL DEF ViewsSpec

\* However late, repeated or out of order events and reads arrive, and whatever
\* a snapshot, a discovery or a hydration overwrites, the page (reduceActivity,
\* mergeAuthoritativeGrants) shows no grant the Registry does not hold, never more
\* money or a later milestone than there is, and no end that has not come.
THEOREM PageInventsNothing == ViewsSpec => []NothingInvented
<1>1. ViewsInv => NothingInvented
  BY InvariantSays
<1> QED
  BY <1>1, ViewsInvariant, PTL

\* discoverRegistryGrants says "ready" only over all grants up to its cap
\* (MAX_DISCOVERABLE_GRANT_ID) that there were when it began, however many the
\* Registry holds beyond it, by whichever scan and after whatever failed batches, and nothing that is
\* merged, replayed or hydrated since takes one off the page.
THEOREM ReadyIsComplete == ViewsSpec => []ReadyMeansComplete
<1>1. ViewsInv => ReadyMeansComplete
  BY InvariantSays
<1> QED
  BY <1>1, ViewsInvariant, PTL

=============================================================================
