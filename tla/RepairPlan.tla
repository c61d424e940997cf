----------------------------- MODULE RepairPlan -----------------------------
(***************************************************************************)
(* What a conservative repair of a legacy project changes: the rules of    *)
(* _plan in runtime/simflow_core/repair.py, as functions of the content of *)
(* the state files. Nothing here is written; StateFiles applies it.        *)
(*                                                                         *)
(* The content of a project is a record of four parts. rest has the files  *)
(* that only a repair writes: project.json, artifacts.json, lineage.json,  *)
(* the registry checkpoints.json and the checkpoint files. Every rule has  *)
(* a confidence in percent; it is applied where that reaches min_confidence*)
(* (threshold, above 80). Rules that are only reported are left out.       *)
(***************************************************************************)
EXTENDS Naturals, Sequences, FiniteSets

CONSTANTS
    Stages,       \* the canonical stages
    Artifacts,    \* ids in artifacts.json
    Checkpoints,  \* ids in checkpoints.json
    NoId          \* null

ASSUME FiniteAssumption == IsFiniteSet(Artifacts) /\ IsFiniteSet(Checkpoints)

Labels == Stages \cup {"custom"}    \* stage names that entries carry
Workflows == {"this", "other", "unset"}
KnownStatuses == {"success", "partial", "failure"}
OldStatuses == KnownStatuses \cup {"completed", "submit_ready", "odd"}

Artifact == [stage : Labels, workflow : Workflows, path : {"live", "case"}, time : Nat]
LineageNode == [workflow : Workflows, stage : Labels, path : {"live", "case"}]
Entry == [status : OldStatuses, workflow : Workflows, stage : Labels, time : Nat,
          recoverable : {"yes", "no", "unset"}]
\* A checkpoint file: its status, and whether its snapshot has workflow.json
\* with the id of this workflow and stages.json.
Snapshot == [status : OldStatuses \cup {"unset"}, whole : BOOLEAN]

StageStatuses == {"pending", "in_progress", "waiting", "completed", "failed"}
StageRecord == [status : StageStatuses, started : Nat, completed : Nat, outputs : SUBSET Artifacts,
                checkpoint : Checkpoints \cup {NoId}, failure : Checkpoints \cup {NoId}, lastSuccess : Checkpoints \cup {NoId}]

NewStage == [status |-> "in_progress", started |-> 0, completed |-> 0, outputs |-> {}, checkpoint |-> NoId,
             failure |-> NoId, lastSuccess |-> NoId]

\* What each file holds.
IsMap(f, S, T) == DOMAIN f \subseteq S /\ f \in [DOMAIN f -> T]

Top == [status : {"initialized", "in_progress"}, stage : Labels, updated : Nat]
IsRest(rest) ==
    /\ DOMAIN rest = {"root", "project", "updated", "artifacts", "nodes", "registry", "snapshots"}
    /\ rest.root \in {"live", "case"} /\ rest.project \in Workflows /\ rest.updated \in Nat
    /\ IsMap(rest.artifacts, Artifacts, Artifact) /\ IsMap(rest.nodes, Artifacts, LineageNode)
    /\ IsMap(rest.registry, Checkpoints, Entry) /\ IsMap(rest.snapshots, Checkpoints, Snapshot)

IsContent(file, content) ==
    CASE file = "rest" -> IsRest(content)
      [] file = "stages" -> IsMap(content, Stages, StageRecord)
      [] file \in {"summary", "workflow"} -> content \in Top

Applies(confidence, threshold) == confidence >= threshold

-----------------------------------------------------------------------------
\* An artifact without a workflow is given this one if project.json agrees on
\* it; a path whose case has changed is corrected.
RepairedArtifact(a, rest, threshold) ==
    [a EXCEPT !.workflow = IF @ = "unset" /\ rest.project # "other" /\ Applies(99, threshold)
                           THEN "this" ELSE @,
              !.path = IF @ = "case" /\ Applies(97, threshold) THEN "live" ELSE @]

RepairedArtifacts(rest, threshold) ==
    [a \in DOMAIN rest.artifacts |-> RepairedArtifact(rest.artifacts[a], rest, threshold)]

\* A lineage node is made for every artifact and follows it.
Node(a) == [workflow |-> IF a.workflow = "unset" THEN "this" ELSE a.workflow,
            stage |-> a.stage, path |-> a.path]

RepairedNode(n, a, rest, threshold) ==
    LET synced == Applies(98, threshold)
    IN  [workflow |-> IF n.workflow = "unset" /\ rest.project # "other" /\ Applies(99, threshold)
                      THEN "this" ELSE n.workflow,
         stage |-> IF synced THEN a.stage ELSE n.stage,
         path |-> IF synced THEN a.path ELSE n.path]

RepairedNodes(rest, threshold) ==
    LET artifacts == RepairedArtifacts(rest, threshold)
        made == IF Applies(99, threshold) THEN DOMAIN artifacts ELSE {}
    IN  [a \in DOMAIN rest.nodes \cup made |->
            IF a \notin DOMAIN rest.nodes THEN Node(artifacts[a])
            ELSE IF a \in DOMAIN artifacts
                 THEN RepairedNode(rest.nodes[a], artifacts[a], rest, threshold)
                 ELSE rest.nodes[a]]

-----------------------------------------------------------------------------
(* Checkpoints.                                                            *)

HasFile(rest, c) == c \in DOMAIN rest.snapshots

\* _snapshot_is_recoverable, for an entry of this workflow.
Whole(rest, c) ==
    /\ rest.registry[c].workflow = "this"
    /\ HasFile(rest, c) /\ rest.snapshots[c].whole

\* The registry and the file tell different things: left to a person.
Conflicting(rest, c) ==
    /\ HasFile(rest, c)
    /\ rest.snapshots[c].status # "unset"
    /\ rest.snapshots[c].status # rest.registry[c].status

\* _checkpoint_status; "odd" stands for every status that is not known.
NormalStatus(status, whole) ==
    CASE status \in {"failure", "partial", "odd"} -> status
      [] status \in {"success", "completed"} -> IF whole THEN "success" ELSE "partial"
      [] OTHER -> "partial"

Settled(rest, c) == Conflicting(rest, c) \/ rest.registry[c].status = "odd"

RepairedEntry(rest, c, threshold) ==
    LET whole == Whole(rest, c)
    IN  IF Settled(rest, c) \/ ~Applies(98, threshold) THEN rest.registry[c]
        ELSE [rest.registry[c] EXCEPT !.status = NormalStatus(@, whole),
                                      !.recoverable = IF whole THEN "yes" ELSE "no"]

RepairedRegistry(rest, threshold) ==
    [c \in DOMAIN rest.registry |-> RepairedEntry(rest, c, threshold)]

\* The file gets the status of its entry, when the entry is changed.
RepairedSnapshots(rest, threshold) ==
    [c \in DOMAIN rest.snapshots |->
        IF c \in DOMAIN rest.registry
           /\ RepairedEntry(rest, c, threshold) # rest.registry[c]
        THEN [rest.snapshots[c] EXCEPT !.status = RepairedEntry(rest, c, threshold).status]
        ELSE rest.snapshots[c]]

\* The status that the rules for stages go by: normalised, whether or not the
\* threshold lets the entry be changed.
StatusOf(rest, c) ==
    IF Settled(rest, c) THEN rest.registry[c].status
    ELSE NormalStatus(rest.registry[c].status, Whole(rest, c))

-----------------------------------------------------------------------------
(* Stages.                                                                 *)

ObservedStages(rest) ==
    Stages \cap ({rest.artifacts[a].stage : a \in DOMAIN rest.artifacts}
                 \cup {rest.registry[c].stage : c \in DOMAIN rest.registry})

\* The checkpoints of this workflow that belong to the stage and are not in
\* conflict. Their times differ: created_at has microseconds.
Matching(rest, stage) ==
    {c \in DOMAIN rest.registry :
        /\ rest.registry[c].stage = stage
        /\ rest.registry[c].workflow = "this"
        /\ ~Conflicting(rest, c)}

LatestOf(rest, cs, default) ==
    IF cs = {} THEN default
    ELSE CHOOSE c \in cs : \A d \in cs : rest.registry[d].time <= rest.registry[c].time

\* Mutant: the latest checkpoint counts as a success, whole or not.
LastSuccessAny(rest, stage, old, threshold) ==
    LatestOf(rest, {c \in Matching(rest, stage) : StatusOf(rest, c) # "failure"}, old)

LastSuccess(rest, stage, old, threshold) ==
    LatestOf(rest, {c \in Matching(rest, stage) :
                        /\ StatusOf(rest, c) = "success"
                        /\ RepairedEntry(rest, c, threshold).recoverable = "yes"}, old)

RepairedStage(rest, stage, s, threshold) ==
    LET failures == {c \in Matching(rest, stage) : StatusOf(rest, c) = "failure"}
        others == Matching(rest, stage) \ failures
        outputs == {a \in DOMAIN rest.artifacts : rest.artifacts[a].stage = stage}
        sure == Applies(98, threshold)
    IN  [s EXCEPT
            !.outputs = IF sure THEN @ \cup outputs ELSE @,
            !.checkpoint = IF Applies(92, threshold) THEN LatestOf(rest, others, @) ELSE @,
            !.failure = IF sure THEN LatestOf(rest, failures, @) ELSE @,
            !.lastSuccess = IF sure THEN LastSuccess(rest, stage, @, threshold) ELSE @]

RepairedStages(rest, stages, threshold) ==
    LET declared == IF Applies(96, threshold) THEN ObservedStages(rest) ELSE {}
    IN  [st \in DOMAIN stages \cup declared |->
            RepairedStage(rest, st, IF st \in DOMAIN stages THEN stages[st] ELSE NewStage, threshold)]

-----------------------------------------------------------------------------
(* workflow.json, summary.json, and all of it.                             *)

Active(rest) == DOMAIN rest.artifacts # {} \/ DOMAIN rest.registry # {}

\* Where and when something canonical happened; time 0 cannot be parsed.
Events(rest) ==
    {[stage |-> rest.artifacts[a].stage, time |-> rest.artifacts[a].time] : a \in DOMAIN rest.artifacts}
    \cup {[stage |-> rest.registry[c].stage, time |-> rest.registry[c].time] : c \in DOMAIN rest.registry}

CurrentStage(rest, old) ==
    LET events == {e \in Events(rest) : e.stage \in Stages /\ e.time > 0}
    IN  IF events = {} THEN old
        ELSE (CHOOSE e \in events : \A d \in events : d.time <= e.time).stage

RepairedWorkflow(rest, workflow, threshold) ==
    [workflow EXCEPT
        !.status = IF @ = "initialized" /\ Active(rest) /\ Applies(98, threshold)
                   THEN "in_progress" ELSE @,
        !.stage = IF Applies(92, threshold) THEN CurrentStage(rest, @) ELSE @]

\* Mutant: summary.json is rebuilt from the workflow as it was read.
RepairedSummaryFirst(before, workflow, threshold) ==
    IF Applies(99, threshold) THEN before.workflow ELSE before.summary

\* summary.json is a projection of the repaired workflow.json.
RepairedSummary(before, workflow, threshold) ==
    IF Applies(99, threshold) THEN workflow ELSE before.summary

\* project.json is corrected where only the case of the path differs.
RepairedRoot(root, threshold) ==
    IF root = "case" /\ Applies(99, threshold) THEN "live" ELSE root

\* _plan: the files as they shall be. updated_at is set, in workflow.json and
\* project.json, where a rule other than the one for the summary has changed
\* something.
Repaired(before, threshold, now) ==
    LET rest == [before.rest EXCEPT
                    !.root = RepairedRoot(@, threshold),
                    !.artifacts = RepairedArtifacts(before.rest, threshold),
                    !.nodes = RepairedNodes(before.rest, threshold),
                    !.registry = RepairedRegistry(before.rest, threshold),
                    !.snapshots = RepairedSnapshots(before.rest, threshold)]
        stages == RepairedStages(before.rest, before.stages, threshold)
        touched == RepairedWorkflow(before.rest, before.workflow, threshold)
        changed == <<rest, stages, touched>> # <<before.rest, before.stages, before.workflow>>
        workflow == IF changed THEN [touched EXCEPT !.updated = now] ELSE touched
    IN  [rest |-> IF changed THEN [rest EXCEPT !.updated = now] ELSE rest,
         stages |-> stages, workflow |-> workflow,
         summary |-> RepairedSummary(before, workflow, threshold)]
=============================================================================
