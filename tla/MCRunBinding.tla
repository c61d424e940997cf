---------------------------- MODULE MCRunBinding ----------------------------
(* RunBinding for TLC: processes and bindings are interchangeable. *)
EXTENDS RunBinding, TLC

Symmetry == Permutations(Procs) \cup Permutations(Bindings)
=============================================================================
