---------------------------- MODULE MCHpcSubmit -----------------------------
(* HpcSubmit for TLC: server processes are interchangeable. *)
EXTENDS HpcSubmit, TLC

ProcSymmetry == Permutations(Procs)
=============================================================================
