---------------------------- MODULE MCOrchestrator ---------------------------
(* Small instances of Orchestrator for TLC.                                  *)
EXTENDS Orchestrator, TLC

\* Slots and orders are interchangeable: sound for the safety runs.
Symmetry == Permutations(Slot) \cup Permutations(Order)
=============================================================================
