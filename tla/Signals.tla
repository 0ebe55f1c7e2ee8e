------------------------------- MODULE Signals -------------------------------
(***************************************************************************)
(* The permanent Signals poll: one vote per wallet, for one of two to four *)
(* options.  Its options are the categories both registries accept.        *)
(***************************************************************************)
EXTENDS Integers, FiniteSets

CONSTANTS
  Voters,
  OptionInputs,   \* numbers of options an administrator may ask for
  MaxU32,         \* the largest u32
  NoPoll,         \* the poll before initialize
  NoVote          \* an absent Voter entry

ASSUME SignalsAssumption ==
  /\ IsFiniteSet(Voters)
  /\ OptionInputs \subseteq Nat
  /\ MaxU32 \in Nat \ {0}
  /\ NoPoll \notin Nat
  /\ NoVote \notin Nat

VARIABLES
  options,   \* the number of options
  counts,    \* votes counted, per option
  total,     \* votes counted
  receipt    \* the option of every voter

signals_vars == <<options, counts, total, receipt>>

Options == 0..(options - 1)

SignalsInit ==
  /\ options = NoPoll
  /\ counts = <<>>
  /\ total = 0
  /\ receipt = [v \in Voters |-> NoVote]

Initialize(n) ==
  /\ options = NoPoll
  /\ n \in 2..4
  /\ options' = n
  /\ counts' = [o \in 0..(n - 1) |-> 0]
  /\ UNCHANGED <<total, receipt>>

WrappingAdd(n) == (n + 1) % (MaxU32 + 1)

\* u32::saturating_add(1)
SaturatingAdd(n) == IF n < MaxU32 THEN n + 1 ELSE MaxU32

Vote(v, option) ==
  /\ options # NoPoll
  /\ option \in Options
  /\ receipt[v] = NoVote
  /\ counts' = [counts EXCEPT ![option] = SaturatingAdd(@)]
  /\ total' = SaturatingAdd(total)
  /\ receipt' = [receipt EXCEPT ![v] = option]
  /\ UNCHANGED options

SignalsNext ==
  \/ \E n \in OptionInputs : Initialize(n)
  \/ \E v \in Voters, option \in 0..4 : Vote(v, option)

SignalsSpec == SignalsInit /\ [][SignalsNext]_signals_vars

-----------------------------------------------------------------------------

Saturated(n) == IF n <= MaxU32 THEN n ELSE MaxU32

VotersFor(option) == {v \in Voters : receipt[v] = option}

(***************************************************************************)
(* What get_results shows is what the receipts add up to: every count, and *)
(* the total, is the number of distinct wallets behind it, short only of   *)
(* what a u32 can hold.                                                    *)
(***************************************************************************)
TallyMatchesReceipts ==
  options # NoPoll =>
    /\ DOMAIN counts = Options
    /\ \A option \in Options :
         counts[option] = Saturated(Cardinality(VotersFor(option)))
    /\ total = Saturated(Cardinality({v \in Voters : receipt[v] # NoVote}))
=============================================================================
