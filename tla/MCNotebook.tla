----------------------------- MODULE MCNotebook -----------------------------
(* Notebook for TLC: server processes are interchangeable. *)
EXTENDS Notebook, TLC

ProcSymmetry == Permutations(Procs)
=============================================================================
