------------------------------ MODULE MCIndexer ------------------------------
(***************************************************************************)
(* Small instances of Indexer for TLC.                                     *)
(***************************************************************************)
EXTENDS Indexer

\* A page of two events ends in the middle of the first ledger.
MCLedger == <<1, 1, 1, 2>>
=============================================================================
