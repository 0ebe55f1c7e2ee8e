------------------------------ MODULE MCClient ------------------------------
(***************************************************************************)
(* Small instances of Client for TLC: four sessions of a tab, each with    *)
(* the actions, uploads and disturbances that its question needs.          *)
(***************************************************************************)
EXTENDS Client

Session(v, m, u, d) ==
  [view |-> v, mutations |-> m, uploads |-> u,
   disturbances |-> d]

MCSessions ==
  {Session("signals", 2, 0, 2),   \* two votes, with disturbances
   Session("start", 1, 0, 2),     \* a journey to its proof
   Session("proof", 1, 2, 1),     \* overlapping uploads, one anchored
   Session("proof", 2, 1, 1)}     \* evidence anchored, reviewed, reworked

\* The PUT of anchored evidence comes again and the service crashes.
MCEvidence == {Session("proof", 1, 1, 2)}
=============================================================================
