----------------------------- MODULE GrantEscrow -----------------------------
(***************************************************************************)
(* The Level 3 escrow: one vault per grant, open to contributions until    *)
(* the goal or the deadline, released or refunded on the registry's word.  *)
(***************************************************************************)
EXTENDS Integers, Sequences, FiniteSets, Functions

CONSTANTS
  Grants,         \* grant identifiers
  Contributors,
  Assets,         \* Stellar asset contracts
  AmountInputs,   \* amounts a contributor may send
  MaxTime,        \* bound: the last ledger timestamp explored
  NoVault         \* an absent Vault entry

Vault == [asset : Assets, goal : Nat \ {0}, deadline : Int,
          deposited : Nat, released : Nat, refundable : BOOLEAN]

ASSUME GrantEscrowAssumption ==
  /\ IsFiniteSet(Grants) /\ IsFiniteSet(Contributors)
  /\ AmountInputs \subseteq Int
  /\ MaxTime \in Nat
  /\ NoVault \notin Vault

VARIABLES
  now,            \* the ledger timestamp
  escrow_paused,
  vault,
  contribution,   \* Contribution(grant, contributor), 0 when absent
  refunded,       \* Refunded(grant, contributor)
  custody,        \* external: the escrow's balance of each asset
  returned        \* external: what a contributor got back for a grant

escrow_vars == <<now, escrow_paused, vault, contribution, refunded, custody, returned>>

EscrowInit ==
  /\ now = 0
  /\ escrow_paused = FALSE
  /\ vault = [g \in Grants |-> NoVault]
  /\ contribution = [g \in Grants |-> [c \in Contributors |-> 0]]
  /\ refunded = [g \in Grants |-> {}]
  /\ custody = [a \in Assets |-> 0]
  /\ returned = [g \in Grants |-> [c \in Contributors |-> 0]]

Tick ==
  /\ now < MaxTime
  /\ now' = now + 1
  /\ UNCHANGED <<escrow_paused, vault, contribution, refunded, custody, returned>>

OpenGrant(g, asset, goal, deadline) ==
  /\ ~escrow_paused
  /\ goal > 0
  /\ deadline > now
  /\ vault[g] = NoVault
  /\ vault' = [vault EXCEPT ![g] =
       [asset |-> asset, goal |-> goal, deadline |-> deadline,
        deposited |-> 0, released |-> 0, refundable |-> FALSE]]
  /\ UNCHANGED <<now, escrow_paused, contribution, refunded, custody, returned>>

FitsUnderGoal(v, amount) == v.deposited < v.goal /\ v.deposited + amount <= v.goal

\* contribute asks neither whether the vault is refundable nor the registry.
Contribute(g, c, amount) ==
  LET v == vault[g] IN
  /\ ~escrow_paused
  /\ amount > 0
  /\ v # NoVault
  /\ now < v.deadline
  /\ FitsUnderGoal(v, amount)
  /\ vault' = [vault EXCEPT ![g].deposited = @ + amount]
  /\ contribution' = [contribution EXCEPT ![g][c] = @ + amount]
  /\ custody' = [custody EXCEPT ![v.asset] = @ + amount]
  /\ UNCHANGED <<now, escrow_paused, refunded, returned>>

Release(g, amount) ==
  LET v == vault[g] IN
  /\ ~escrow_paused
  /\ amount > 0
  /\ v # NoVault
  /\ ~v.refundable
  /\ v.released + amount <= v.deposited
  /\ custody' = [custody EXCEPT ![v.asset] = @ - amount]
  /\ vault' = [vault EXCEPT ![g].released = @ + amount]
  /\ UNCHANGED <<now, escrow_paused, contribution, refunded, returned>>

SetRefundable(g) ==
  /\ vault[g] # NoVault
  /\ vault[g].released = 0
  /\ vault' = [vault EXCEPT ![g].refundable = TRUE]
  /\ UNCHANGED <<now, escrow_paused, contribution, refunded, custody, returned>>

StillContributor(g, c) == contribution[g][c] > 0

NotRefunded(g, c) == c \notin refunded[g]

ClaimRefund(g, c) ==
  LET v      == vault[g]
      amount == contribution[g][c]
  IN
  /\ ~escrow_paused
  /\ v # NoVault
  /\ v.refundable
  /\ NotRefunded(g, c)
  /\ amount > 0
  /\ custody' = [custody EXCEPT ![v.asset] = @ - amount]
  /\ returned' = [returned EXCEPT ![g][c] = @ + amount]
  /\ refunded' = [refunded EXCEPT ![g] = @ \cup {c}]
  /\ UNCHANGED <<now, escrow_paused, vault, contribution>>

SetEscrowPaused(paused) ==
  /\ escrow_paused' = paused
  /\ UNCHANGED <<now, vault, contribution, refunded, custody, returned>>
=============================================================================
