----------------------------- MODULE PauseClock -----------------------------
(***************************************************************************)
(* The emergency pause and the effective clock it controls.                *)
(*                                                                         *)
(* Both V1 contracts keep the same three fields in their configuration     *)
(* (pause_mode, total_paused_seconds, pause_started_at) and the same code  *)
(* over them.  A clock here is the record of those three fields; the       *)
(* ledger timestamp t is an argument, as it is in the contracts.  Every    *)
(* deadline of the protocol is compared with Effective(clock, t).          *)
(***************************************************************************)
EXTENDS Integers

CONSTANT None   \* the Option::None of pause_started_at

ASSUME NoneAssumption == None \notin Int

PauseModes == {"Running", "PauseNewActivity", "PauseRiskyMutations"}

PauseRank(mode) ==
  CASE mode = "Running"             -> 0
    [] mode = "PauseNewActivity"    -> 1
    [] mode = "PauseRiskyMutations" -> 2

Clock == [pause_mode           : PauseModes,
          total_paused_seconds : Nat,
          pause_started_at     : Nat \cup {None}]

RunningClock == [pause_mode           |-> "Running",
                 total_paused_seconds |-> 0,
                 pause_started_at     |-> None]

AcceptsNewActivity(clock)    == clock.pause_mode = "Running"
AcceptsRiskyMutations(clock) == clock.pause_mode # "PauseRiskyMutations"

\* The seconds excluded from the effective clock at ledger time t: closed
\* pauses, and the one that is open.
Paused(clock, t) ==
  clock.total_paused_seconds
    + IF clock.pause_started_at = None THEN 0 ELSE t - clock.pause_started_at

Effective(clock, t) == t - Paused(clock, t)

SetModeRestarting(clock, mode, t) ==
  [pause_mode |-> mode,
   total_paused_seconds |->
     IF clock.pause_mode # "Running" /\ mode = "Running"
     THEN clock.total_paused_seconds + (t - clock.pause_started_at)
     ELSE clock.total_paused_seconds,
   pause_started_at |-> IF mode = "Running" THEN None ELSE t]

(***************************************************************************)
(* The clock after set_pause_mode(mode) at ledger time t: leaving Running  *)
(* opens a pause, returning to Running closes it, and moving between the   *)
(* two paused modes leaves the open pause alone.                           *)
(***************************************************************************)
SetMode(clock, mode, t) ==
  [pause_mode |-> mode,
   total_paused_seconds |->
     IF clock.pause_mode # "Running" /\ mode = "Running"
     THEN clock.total_paused_seconds + (t - clock.pause_started_at)
     ELSE clock.total_paused_seconds,
   pause_started_at |->
     IF clock.pause_mode = "Running" /\ mode # "Running" THEN t
     ELSE IF clock.pause_mode # "Running" /\ mode = "Running" THEN None
     ELSE clock.pause_started_at]

\* The governor may choose any mode; the guardian may only keep or raise it.
MaySetMode(actor, governor, guardian, clock, mode) ==
  \/ actor = governor
  \/ actor = guardian /\ PauseRank(mode) >= PauseRank(clock.pause_mode)

(***************************************************************************)
(* What set_pause_mode keeps true of a clock at ledger time t: a pause is  *)
(* open exactly in the paused modes, it began no later than now, and the   *)
(* closed pauses ended before it began.                                    *)
(***************************************************************************)
ClockOK(clock, t) ==
  /\ clock \in Clock
  /\ (clock.pause_started_at = None) <=> (clock.pause_mode = "Running")
  /\ clock.total_paused_seconds <= t
  /\ clock.pause_mode # "Running" =>
       /\ clock.pause_started_at <= t
       /\ clock.total_paused_seconds <= clock.pause_started_at
=============================================================================
