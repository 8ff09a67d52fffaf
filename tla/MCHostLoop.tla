----------------------------- MODULE MCHostLoop -----------------------------
(* HostLoop for TLC: workers and jobs are interchangeable. *)
EXTENDS HostLoop, TLC

Symmetry == Permutations(Workers) \cup Permutations(Jobs)
=============================================================================
