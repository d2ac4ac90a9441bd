-------------------------- MODULE MCSimulateStats --------------------------
(***************************************************************************)
(* Small instances of SimulateStats for TLC.                               *)
(***************************************************************************)
EXTENDS SimulateStats, TLC

CONSTANTS a, b
=============================================================================
