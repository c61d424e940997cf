--------------------------- MODULE MCRecordStore ----------------------------
(* RecordStore for TLC: server processes are interchangeable. *)
EXTENDS RecordStore, TLC

ProcSymmetry == Permutations(Procs)

\* Faults come in any combination, but a write that is cut short is the first
\* fault, and the one that cuts it the last: most properties promise nothing
\* after it.
TornAlone ==
    /\ torn' > torn => crashes + errors + rebuildErrors = 0
    /\ torn' > 0 => crashes' + errors' <= 1 /\ rebuildErrors' = 0
=============================================================================
