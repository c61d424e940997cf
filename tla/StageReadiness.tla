--------------------------- MODULE StageReadiness ---------------------------
(***************************************************************************)
(* What SimFlow answers about the evidence of a project without changing   *)
(* it: which evidence a stage lacks, what blocks the stage, what the user  *)
(* is told to do next, the risks of the project status, and the evidence   *)
(* graph.                                                                  *)
(*                                                                         *)
(* An artifact is its place in the records; its parents are places, or     *)
(* Unregistered, an id that no record has.                                 *)
(***************************************************************************)
EXTENDS Naturals, FiniteSets, Sequences, SequencesExt

CONSTANT Contract  \* the evidence each stage requires whatever happens

Computation == "computation"
Analysis == "analysis_visualization"
Unregistered == 0

\* A stage is never one of the first three or the last of the canonical
\* sequence here.
Stages == {Computation, Analysis}

\* The stages of a workflow that is entered at a stage: those from there on.
Suffix(entry) == CASE entry = Analysis -> {Analysis} [] entry = "writing" -> {} [] OTHER -> Stages

Own(stage, arts) == {i \in DOMAIN arts : arts[i].stage = stage}

\* A job record counts for the evidence of a job that was submitted.
EvidenceKeys(art) ==
    {art.key} \cup IF art.key = "job_record" THEN {"job_record_if_submitted"} ELSE {}

RealSubmit(arts, ids) ==
    \E i \in ids : arts[i].real \/ "job_record_if_submitted" \in EvidenceKeys(arts[i])

Required(stage, arts) ==
    Contract[stage] \cup
        IF stage = Computation /\ RealSubmit(arts, Own(stage, arts))
        THEN {"job_record_if_submitted"} ELSE {}

Recorded(stage, arts) == UNION {EvidenceKeys(arts[i]) : i \in Own(stage, arts)}
MissingEvidence(stage, arts) == Required(stage, arts) \ Recorded(stage, arts)
MissingPaths(ids, arts, present) == {i \in ids : arts[i].file \notin present}

Links(arts) == UNION {{<<i, p>> : p \in arts[i].parents} : i \in DOMAIN arts}
MissingParents(arts) == {l \in Links(arts) : l[2] \notin DOMAIN arts}

\* Mutant: a link is the stage's when its parent is.
ParentOfStage(stage, arts) ==
    {l \in MissingParents(arts) : l[2] \in Own(stage, arts)}

MissingLineage(stage, arts) == {l \in MissingParents(arts) : l[1] \in Own(stage, arts)}

\* The latest decision counts when it approves; otherwise any earlier one
\* that approves does.
Approved(decisions) ==
    \/ decisions # <<>> /\ Last(decisions) = "approved"
    \/ "approved" \in Range(decisions)

Unapproved(stage, arts, decisions) ==
    stage = Computation /\ RealSubmit(arts, Own(stage, arts)) /\ ~Approved(decisions)

Blockers(stage, arts, present, decisions) ==
    {b \in {"missing_artifact_paths", "missing_lineage_parents", "missing_hpc_submit_approval"} :
        \/ b = "missing_artifact_paths" /\ MissingPaths(Own(stage, arts), arts, present) # {}
        \/ b = "missing_lineage_parents" /\ MissingLineage(stage, arts) # {}
        \/ b = "missing_hpc_submit_approval" /\ Unapproved(stage, arts, decisions)}

ReadinessStatus(stage, arts, present, decisions) ==
    IF Blockers(stage, arts, present, decisions) # {} THEN "blocked"
    ELSE IF MissingEvidence(stage, arts) # {} THEN "incomplete" ELSE "ready"

Remedy == [missing_artifact_paths      |-> "restore_or_reregister_artifact_paths",
           missing_lineage_parents     |-> "repair_artifact_lineage",
           missing_hpc_submit_approval |-> "record_hpc_submit_approval"]

\* Mutant: no action asks for the approval that is missing.
ApprovalUnasked(stage, status, arts, present, decisions) ==
    LET missing == {<<"record_evidence", k>> : k \in MissingEvidence(stage, arts)}
        remedies == {<<Remedy[b], stage>> :
                        b \in Blockers(stage, arts, present, decisions) \ {"missing_hpc_submit_approval"}}
        found == missing \cup remedies
    IN found \cup IF found = {} /\ status = "pending" THEN {<<"start_stage", stage>>} ELSE {}

\* What the user is told to do: to record what is missing and to remove what
\* blocks, and a hint by the stage's status when there is neither.
Actions(stage, status, arts, present, decisions) ==
    LET missing == {<<"record_evidence", k>> : k \in MissingEvidence(stage, arts)}
        remedies == {<<Remedy[b], stage>> : b \in Blockers(stage, arts, present, decisions)}
        found == missing \cup remedies
    IN found \cup
        IF found # {} THEN {}
        ELSE CASE status = "pending"     -> {<<"start_stage", stage>>}
               [] status = "in_progress" -> {<<"complete_or_checkpoint_stage", stage>>}
               [] status = "waiting"     -> {<<"record_evidence", "any">>}
               [] OTHER                  -> {}

\* The worst of the stages of the workflow.
ProjectReadiness(sequence, arts, present, decisions) ==
    LET found == {ReadinessStatus(s, arts, present, decisions) : s \in sequence}
    IN IF "blocked" \in found THEN "blocked"
       ELSE IF "incomplete" \in found THEN "incomplete" ELSE "ready"

(***************************************************************************)
(* The evidence graph.                                                     *)
(***************************************************************************)
Directions == {"upstream", "downstream", "both"}

Neighbours(links, ids, direction) ==
    {l[2] : l \in {x \in links : x[1] \in ids /\ direction # "downstream"}}
        \cup {l[1] : l \in {x \in links : x[2] \in ids /\ direction # "upstream"}}

\* Round by round, from the ids the round before has added.
Related(links, roots, direction, depth) ==
    FoldLeft(LAMBDA p, k : LET new == Neighbours(links, p.front, direction) \ p.ids
                           IN [ids |-> p.ids \cup new, front |-> new],
             [ids |-> roots, front |-> roots],
             [k \in 1..depth |-> k]).ids

\* A query may name a stage, artifacts or a claim they were found by, and
\* what the metadata must say; the links and the missing parents shown are
\* those of the nodes.
Graph(arts, stages, roots, direction, depth, matching) ==
    LET related == IF roots = {} THEN DOMAIN arts
                   ELSE Related(Links(arts), roots, direction, depth)
        nodes == {i \in DOMAIN arts : arts[i].stage \in stages} \cap related \cap matching
    IN [nodes |-> nodes,
        links |-> {l \in Links(arts) : l[1] \in nodes /\ l[2] \in nodes},
        missing |-> {l \in MissingParents(arts) : l[1] \in nodes},
        notFound |-> roots \ DOMAIN arts]

(***************************************************************************)
(* The project status.                                                     *)
(***************************************************************************)
Risks(arts, present, stages, checkpointed) ==
    LET graph == Graph(arts, {arts[i].stage : i \in DOMAIN arts}, {}, "both", 1, DOMAIN arts)
    IN {r \in {"missing_checkpoint", "failed_stages", "missing_artifact_paths", "missing_lineage_parents"} :
          \/ r = "missing_checkpoint" /\ ~checkpointed
          \/ r = "failed_stages" /\ \E s \in DOMAIN stages : stages[s] = "failed"
          \/ r = "missing_artifact_paths" /\ MissingPaths(DOMAIN arts, arts, present) # {}
          \/ r = "missing_lineage_parents" /\ graph.missing # {}}

StageStatus(stages, s) == IF s \in DOMAIN stages THEN stages[s] ELSE "pending"

\* The stages of a set in their order.
InOrder(first, second, set) ==
    (IF first \in set THEN <<first>> ELSE <<>>) \o (IF second \in set THEN <<second>> ELSE <<>>)
Having(status, set, stages) == {s \in set : StageStatus(stages, s) = status}
InSequence(set) == InOrder(Computation, Analysis, set)
ByName(set) == InOrder(Analysis, Computation, set)

\* The stages with a status: those of the workflow in its order, then the
\* others that have a state, by their names.
StageProgress(status, sequence, stages) ==
    InSequence(Having(status, sequence, stages))
        \o ByName(Having(status, DOMAIN stages \ sequence, stages))

\* The first stage that failed, else the first that was begun, else the first
\* that was not.
FirstOf(failed, begun, pending) ==
    CASE failed # <<>>                                     -> <<"retry_stage", failed[1]>>
      [] failed = <<>> /\ begun # <<>>                     -> <<"continue_stage", begun[1]>>
      [] failed = <<>> /\ begun = <<>> /\ pending # <<>>   -> <<"start_stage", pending[1]>>
      [] OTHER                                             -> <<"workflow_complete", "none">>

NextAction(sequence, stages) ==
    FirstOf(StageProgress("failed", sequence, stages), StageProgress("in_progress", sequence, stages),
            StageProgress("pending", sequence, stages))

\* The handoff of a session counts the stages of the workflow alone.
StageHandoff(sequence, stages, checkpointed) ==
    LET having(status) == InSequence(Having(status, sequence, stages))
    IN [completed |-> having("completed"),
        risks |-> {r \in {"missing_checkpoint", "failed_stages"} :
                      \/ r = "missing_checkpoint" /\ ~checkpointed
                      \/ r = "failed_stages" /\ having("failed") # <<>>},
        next |-> FirstOf(having("failed"), having("in_progress"), having("pending"))]

\* Of the decisions on a gate, the view of the gates shows the latest.
GateState(decisions) == IF decisions = <<>> THEN "none" ELSE Last(decisions)

ArtifactSummary(arts, present) ==
    [total |-> Len(arts), missingPaths |-> MissingPaths(DOMAIN arts, arts, present)]

ProjectStatus(sequence, stages, arts, present, decisions, checkpointed) ==
    [risks |-> Risks(arts, present, stages, checkpointed),
     artifacts |-> ArtifactSummary(arts, present),
     readiness |-> ProjectReadiness(sequence, arts, present, decisions),
     gate |-> GateState(decisions),
     next |-> NextAction(sequence, stages)]
=============================================================================
