------------------------------- MODULE Ledger -------------------------------
(***************************************************************************)
(* The network as a browser meets it: transactions with the sequence       *)
(* number of their account, the pool they wait in, and the two contracts   *)
(* they call.  The poll is the module Signals.  Of the registry there is   *)
(* one active milestone; what it may become is the module ImpactRegistryV1.*)
(*                                                                         *)
(* A transaction is known by the action of the page that built it, and     *)
(* that is its hash.                                                       *)
(***************************************************************************)
EXTENDS Signals

CONSTANTS
  Accounts,       \* accounts of the user's wallet
  Creator,        \* the account that created the project
  Mutations,      \* actions started in the browser, in their order
  MaxAttempts,    \* evidence attempts of a milestone
  Null            \* JavaScript's null

ASSUME LedgerAssumption ==
  /\ Accounts \subseteq Voters /\ Creator \in Accounts
  /\ Mutations \subseteq Nat
  /\ MaxAttempts \in Nat \ {0}
  /\ Null \notin Mutations \cup Accounts

VARIABLES
  sequence,   \* sequence[a]: the sequence number account a has used last
  signed,     \* signed[m]: the transaction the wallet signed for m, or Null
  mempool,    \* transactions waiting
  landed,     \* landed[m]: "NOT_FOUND", "SUCCESS" or "FAILED"
  project     \* the current milestone: attempt, status, evidence

ledger_vars == <<signals_vars, sequence, signed, mempool, landed, project>>

LedgerInit ==
  /\ SignalsInit
  /\ sequence = [a \in Accounts |-> 0]
  /\ signed = [m \in Mutations |-> Null]
  /\ mempool = {}
  /\ landed = [m \in Mutations |-> "NOT_FOUND"]
  /\ project = [attempt |-> 1, status |-> "pending",
                evidence |-> [n \in 1..MaxAttempts |-> Null]]

-----------------------------------------------------------------------------

\* What a simulation of the call would answer now.
Accepts(call, a) ==
  \/ /\ call.label = "Cast signal"
     /\ options # NoPoll /\ call.option \in Options
     /\ receipt[a] = NoVote
  \/ /\ call.label = "Anchor evidence hash"
     /\ project.status = "pending"
     /\ a = Creator
     /\ call.attempt = project.attempt
  \/ /\ call.label = "Open evidence review"
     /\ project.status = "evidence_submitted"

Execute(call, a) ==
  \/ /\ call.label = "Cast signal"
     /\ Vote(a, call.option)
     /\ UNCHANGED project
  \/ /\ call.label = "Anchor evidence hash"
     /\ project' = [project EXCEPT !.status = "evidence_submitted",
                                   !.evidence[project.attempt] = call.evidence]
     /\ UNCHANGED signals_vars
  \/ /\ call.label = "Open evidence review"
     /\ project' = [project EXCEPT !.status = "under_review"]
     /\ UNCHANGED signals_vars

InTurn(m) == signed[m].sequence = sequence[signed[m].source] + 1

\* A ledger closes with the transaction in it.  It uses up its sequence number
\* also when the call fails: it is refused by now, or needs more resources than
\* its simulation found.
Land(m) ==
  LET tx == signed[m] IN
  /\ m \in mempool /\ InTurn(m)
  /\ sequence' = [sequence EXCEPT ![tx.source] = @ + 1]
  /\ mempool' = mempool \ {m}
  /\ \/ /\ Accepts(tx.call, tx.source)
        /\ Execute(tx.call, tx.source)
        /\ landed' = [landed EXCEPT ![m] = "SUCCESS"]
     \/ /\ landed' = [landed EXCEPT ![m] = "FAILED"]
        /\ UNCHANGED <<signals_vars, project>>
  /\ UNCHANGED signed

\* Ninety seconds are over, or the sequence number has been used.
Forget(m) ==
  /\ m \in mempool
  /\ mempool' = mempool \ {m}
  /\ UNCHANGED <<signals_vars, sequence, signed, landed, project>>

-----------------------------------------------------------------------------

OpenPoll(n) ==
  /\ Initialize(n)
  /\ UNCHANGED <<sequence, signed, mempool, landed, project>>

\* A vote sent from another device, possibly for an account of this wallet.
VoteElsewhere(v, option) ==
  /\ Vote(v, option)
  /\ sequence' = [a \in Accounts |-> IF a = v THEN sequence[a] + 1 ELSE sequence[a]]
  /\ UNCHANGED <<signed, mempool, landed, project>>

\* Anyone may open the review, from anywhere.
ReviewElsewhere ==
  /\ project.status = "evidence_submitted"
  /\ project' = [project EXCEPT !.status = "under_review"]
  /\ UNCHANGED <<signals_vars, sequence, signed, mempool, landed>>

\* The reviewers reject, and the creator starts the rework.
Rework ==
  /\ project.status = "under_review"
  /\ project.attempt < MaxAttempts
  /\ project' = [project EXCEPT !.status = "pending", !.attempt = @ + 1]
  /\ UNCHANGED <<signals_vars, sequence, signed, mempool, landed>>
=============================================================================
