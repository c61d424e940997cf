---------------------------- MODULE MCStateFiles ----------------------------
(* StateFiles for TLC: the contents of the legacy projects it starts from. *)
EXTENDS StateFiles, TLC

CONSTANTS s1, s2, a1, c1, c2

MCStages == {s1, s2}
MCArtifacts == {a1}
MCCheckpoints == {c1, c2}

Nothing == [x \in {} |-> 0]

Left(status, recoverable, workflow, time) ==
    [status |-> status, workflow |-> workflow, stage |-> s1, time |-> time,
     recoverable |-> recoverable]

Saved(status, whole) == [status |-> status, whole |-> whole]

\* Artifacts, with the lineage nodes they have.
Idle == [artifacts |-> Nothing, nodes |-> Nothing]
Worked == [artifacts |-> a1 :> [stage |-> s1, workflow |-> "unset", path |-> "case", time |-> 3],
           nodes |-> a1 :> [workflow |-> "unset", stage |-> s2, path |-> "case"]]

\* Two checkpoints of one stage: the second is a success of which no file is left;
\* a failure after a success that somebody has called partial in the file; one
\* that waits for its job, and one of another workflow.
Lost == [registry |-> c1 :> Left("completed", "unset", "this", 1) @@ c2 :> Left("success", "yes", "this", 2),
         snapshots |-> c1 :> Saved("unset", TRUE)]
Called == [registry |-> c1 :> Left("success", "unset", "this", 1) @@ c2 :> Left("failure", "unset", "this", 2),
           snapshots |-> c1 :> Saved("partial", TRUE) @@ c2 :> Saved("failure", TRUE)]
Submitted == [registry |-> c1 :> Left("submit_ready", "unset", "this", 1) @@ c2 :> Left("success", "unset", "other", 2),
            snapshots |-> c1 :> Saved("submit_ready", FALSE) @@ c2 :> Saved("success", TRUE)]

Started == [status |-> "initialized", stage |-> s2, updated |-> 0]

Project(work, past) ==
    [rest |-> [root |-> "live", project |-> "this", updated |-> 0,
               artifacts |-> work.artifacts, nodes |-> work.nodes,
               registry |-> past.registry, snapshots |-> past.snapshots],
     stages |-> IF work = Idle THEN s1 :> NewStage ELSE Nothing,
     workflow |-> Started, summary |-> Started]

MCLegacy ==
    {Project(Worked, Lost), Project(Idle, Called), Project(Idle, Submitted)}

ProcSymmetry == Permutations(Procs)
=============================================================================
