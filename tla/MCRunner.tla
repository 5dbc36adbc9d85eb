------------------------------ MODULE MCRunner ------------------------------
(* Values for model checking Runner with TLC. *)
EXTENDS Runner, TLC

(* Run ids, reports and server instances are interchangeable (safety runs only). *)
Symmetry == Permutations(Runs) \cup Permutations(Reports) \cup Permutations(Servers)
=============================================================================
