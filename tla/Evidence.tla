------------------------------ MODULE Evidence ------------------------------
(***************************************************************************)
(* The intake of evidence a user brings (record_computation_evidence and   *)
(* record_analysis_evidence), and the deliveries that are made of it: the  *)
(* reproducibility package, the final handoff and its verification.        *)
(*                                                                         *)
(* A session is a process that serves one call at a time; it works on the  *)
(* project step by step, and other sessions and the user do so meanwhile.  *)
(* The runs of helper scripts are recorded in the same way.                *)
(* Every evidence key has one file, and each stage one intake manifest at  *)
(* a fixed path.  The content of the compute plan's file is a plan; that   *)
(* of any other file does not matter.                                      *)
(***************************************************************************)
EXTENDS StageReadiness, FinalReports

CONSTANTS Keys,          \* keys of evidence, and of the files that are recorded
          Sessions,
          User,          \* the session of the user who follows the advice
          PlanContents,  \* bound: what a plan may be changed to
          Starts         \* bound: the projects that are looked at, each with its
                         \* entry point, its metadata, the files of the user,
                         \* its plan, the stages whose advice the user follows,
                         \* the requests that are made, the helpers whose runs
                         \* are recorded, the executions of stages, the entries
                         \* it is initialized at again, and how many deliveries, edits
                         \* of the plan, removals of files, decisions and crashes
                         \* it sees

\* Keys of evidence, and the files that SimFlow writes itself.
OwnKeys == {"evidence_intake_manifest", "analysis_evidence_intake_manifest", "helper_run",
            "package", "handoff", "verification_report", "job_record_if_submitted"}
EntryPoints == {"literature_review", "proposal", "modeling", Computation, Analysis, "writing"}

\* The bounds are sets of what a call may bring: an intake of evidence has at
\* least one entry, and the helpers that are recorded ran for one of the stages.
\* A run of a stage's executor leaves files that it registers, and a status:
\* that of a dry run is "pending".
Entries == [role : {"evidence", "script", "input", "output"}, key : Keys, real : BOOLEAN]
Requests == [stage : Stages, entries : Seq(Entries) \ {<<>>}, parents : SUBSET Nat, complete : BOOLEAN]
Helpers == [stage : Stages, script : Keys, inputs : Seq(Keys), outputs : Seq(Keys), parents : SUBSET Nat]
Results == {"pending", "waiting", "failed", "completed"}
Runs == [stage : Stages, result : Results, outputs : Seq(Keys)]
Bounds == [follows : SUBSET Stages, requests : SUBSET Requests, helpers : SUBSET Helpers,
           runs : SUBSET Runs, inits : SUBSET EntryPoints, deliveries : Nat, edits : Nat, removals : Nat, decisions : Nat,
           crashes : Nat]

ASSUME ContractAssumption == /\ OwnKeys \subseteq Keys
                             /\ Contract \in [Stages -> SUBSET Keys]
                             /\ User \in Sessions
                             /\ PlanContents \subseteq Plans

ASSUME NothingAssumption == None \notin Truths \cup {"approved"}

ASSUME StartsAssumption ==
    Starts \subseteq [entry : EntryPoints, metadata : {None} \cup EntryPoints, files : SUBSET Keys,
                     plan : Plans, left : Bounds]

VARIABLES workflow,     \* workflow.json: entry point and current stage
          metadata,     \* metadata.json: the entry point, or None
          stages,       \* stages.json: status of each stage that has one
          executed,     \* the stages whose status the executor was the last to set
          arts,         \* the artifact records, in order
          present,      \* the files that exist
          plan,         \* what the compute plan's file says
          decisions,    \* the decisions on the gate hpc_submit, in order
          checkpoints,  \* the stages that have a recovery checkpoint
          manifest,     \* reproducibility_manifest.json
          handoff,      \* final_handoff.json
          report,       \* the last verification, and what it read
          call,         \* what each session does
          left          \* what is left of the bounds

evVars == <<workflow, metadata, stages, executed, arts, present, plan, decisions, checkpoints,
          manifest, handoff, report, call, left>>
reports == <<manifest, handoff, report>>

Idle == [step |-> "idle"]
Writing == "writing"
IntakeManifest(stage) ==
    IF stage = Computation THEN "evidence_intake_manifest" ELSE "analysis_evidence_intake_manifest"
Artifact(stage, key, file, parents, real) ==
    [stage |-> stage, key |-> key, file |-> file, parents |-> parents, real |-> real]

EvInit ==
    /\ \E p \in Starts : /\ workflow = [entry |-> p.entry, current |-> p.entry]
                         /\ metadata = p.metadata /\ present = p.files
                         /\ plan = p.plan /\ left = p.left
    /\ stages = <<>> /\ executed = {}
    /\ arts = <<>> /\ decisions = <<>> /\ checkpoints = {}
    /\ manifest = None /\ handoff = None /\ report = None
    /\ call = [s \in Sessions |-> Idle]

\* Without metadata the workflow has the stages of its recipe.
sequence == IF metadata = None THEN Stages ELSE Suffix(metadata)
followed == sequence \cap left.follows

Spend(what) == left[what] > 0 /\ left' = [left EXCEPT ![what] = @ - 1]
Goto(s, step) == call' = [call EXCEPT ![s].step = step]
SetStatus(stage, status, byExecutor) ==
    /\ stages' = [s \in DOMAIN stages \cup {stage} |-> IF s = stage THEN status ELSE stages[s]]
    /\ executed' = IF byExecutor THEN executed \cup {stage} ELSE executed \ {stage}
Done(s) == call' = [call EXCEPT ![s] = Idle]

\* The contract of a computation is a proposal's, or that of a workflow that
\* started behind it; an intake of analysis does without.
\* The metadata are asked first, and they never change with the stages.
ContractKnown ==
    (IF metadata # None THEN {metadata} ELSE {workflow.entry, workflow.current}) \cap (Stages \cup {Writing}) # {}

\* A call that registers: the entries still to do, the ids it has registered,
\* those of them that outputs are made from, and the manifest it ends with.
Registering(stage, entries, parents, complete, name) ==
    [step |-> "register", stage |-> stage, todo |-> entries, ids |-> {}, sources |-> {},
     parents |-> parents, complete |-> complete, manifest |-> name]

\* A request is refused when a file it names is not there.
Begin(s, r) ==
    /\ call[s] = Idle
    /\ {e.key : e \in Range(r.entries)} \subseteq present
    /\ call' = [call EXCEPT ![s] =
                   Registering(r.stage, r.entries, r.parents, r.complete, IntakeManifest(r.stage))]
    /\ UNCHANGED <<workflow, metadata, stages, executed, arts, present, plan, decisions, checkpoints, reports>>

RecordComputation(s, r) == r.stage = Computation /\ ContractKnown /\ Begin(s, r)
RecordAnalysis(s, r) == r.stage = Analysis /\ Begin(s, r)

\* A helper has run, and has made of its outputs those it could make.  Its
\* script, its inputs and its outputs are recorded, whether they exist or not.
HelperRun == "helper_run"
Entry(role, key) == [role |-> role, key |-> key, real |-> FALSE]
HelperEntries(r) ==
    <<Entry("script", r.script)>> \o [k \in DOMAIN r.inputs |-> Entry("input", r.inputs[k])]
        \o [k \in DOMAIN r.outputs |-> Entry("output", r.outputs[k])]

RecordHelper(s, r) ==
    /\ call[s] = Idle
    /\ \E made \in SUBSET Range(r.outputs) : present' = present \cup made
    /\ call' = [call EXCEPT ![s] = Registering(r.stage, HelperEntries(r), r.parents, FALSE, HelperRun)]
    /\ UNCHANGED <<workflow, metadata, stages, executed, arts, plan, decisions, checkpoints, reports>>

Record ==
    \E s \in Sessions \ {User} :
        \/ \E r \in left.requests :
            /\ RecordComputation(s, r) \/ RecordAnalysis(s, r)
            /\ left' = [left EXCEPT !.requests = @ \ {r}]
        \/ \E r \in left.helpers :
            /\ RecordHelper(s, r)
            /\ left' = [left EXCEPT !.helpers = @ \ {r}]

\* The outputs of a helper are made of its script and of its inputs.
Parents(c, e) == c.parents \cup IF e.role = "output" THEN c.sources ELSE {}

\* The entries are registered one after the other, each by a record of its own.
RegisterEntry(s) ==
    /\ call[s].step = "register"
    /\ LET e == Head(call[s].todo)
           id == Len(arts) + 1
       IN /\ arts' = Append(arts, Artifact(call[s].stage, e.key, e.key, Parents(call[s], e), e.real))
          /\ call' = [call EXCEPT ![s].todo = Tail(@), ![s].ids = @ \cup {id},
                                  ![s].sources = IF e.role \in {"script", "input"} THEN @ \cup {id} ELSE @,
                                  ![s].step = IF Len(call[s].todo) = 1 THEN "write" ELSE @]
    /\ UNCHANGED <<workflow, metadata, stages, executed, present, plan, decisions, checkpoints, reports, left>>

WriteManifest(s) ==
    /\ call[s].step = "write"
    /\ present' = present \cup {call[s].manifest}
    /\ Goto(s, "registerManifest")
    /\ UNCHANGED <<workflow, metadata, stages, executed, arts, plan, decisions, checkpoints, reports, left>>

\* The recording of a helper ends with its manifest.
RegisterManifest(s) ==
    /\ call[s].step = "registerManifest"
    /\ arts' = Append(arts, Artifact(call[s].stage, call[s].manifest, call[s].manifest,
                                     call[s].parents \cup call[s].ids, FALSE))
    /\ IF call[s].manifest = HelperRun THEN Done(s) ELSE Goto(s, "judge")
    /\ UNCHANGED <<workflow, metadata, stages, executed, present, plan, decisions, checkpoints, reports, left>>

\* Mutant: a stage that nothing blocks may be completed.
JudgeBlockers(s) ==
    /\ call[s].step = "judge"
    /\ IF call[s].complete /\ Blockers(call[s].stage, arts, present, decisions) = {}
       THEN Goto(s, "complete") ELSE Done(s)
    /\ UNCHANGED <<workflow, metadata, stages, executed, arts, present, plan, decisions, checkpoints, reports, left>>

\* A stage that is ready is completed, if the request asks for it.
JudgeReadiness(s) ==
    /\ call[s].step = "judge"
    /\ IF call[s].complete /\ ReadinessStatus(call[s].stage, arts, present, decisions) = "ready"
       THEN Goto(s, "complete") ELSE Done(s)
    /\ UNCHANGED <<workflow, metadata, stages, executed, arts, present, plan, decisions, checkpoints, reports, left>>

CompleteStage(s) ==
    /\ call[s].step = "complete"
    /\ SetStatus(call[s].stage, "completed", FALSE)
    /\ Goto(s, "checkpoint")
    /\ UNCHANGED <<workflow, metadata, arts, present, plan, decisions, checkpoints, reports, left>>

\* Only a computation moves the workflow to its stage.
CheckpointStage(s) ==
    /\ call[s].step = "checkpoint"
    /\ checkpoints' = checkpoints \cup {call[s].stage}
    /\ IF call[s].stage = Computation THEN Goto(s, "workflow") ELSE Done(s)
    /\ UNCHANGED <<workflow, metadata, stages, executed, arts, present, plan, decisions, reports, left>>

UpdateWorkflow(s) ==
    /\ call[s].step = "workflow"
    /\ workflow' = [workflow EXCEPT !.current = Computation]
    /\ Done(s)
    /\ UNCHANGED <<metadata, stages, executed, arts, present, plan, decisions, checkpoints, reports, left>>

(***************************************************************************)
(* The executor runs the helpers of a stage of the workflow and sets its   *)
(* status without asking for its evidence: the stage waits when a helper   *)
(* lacks an input or a capability.  How it goes on is Workflow's matter.   *)
(***************************************************************************)
ExecuteStage(s, r) ==
    /\ call[s] = Idle /\ r.stage \in sequence
    /\ IF r.result = "pending"
       THEN SetStatus(r.stage, "pending", TRUE) /\ UNCHANGED <<workflow, call>>
       ELSE /\ SetStatus(r.stage, "in_progress", TRUE)
            /\ workflow' = [workflow EXCEPT !.current = r.stage]
            /\ call' = [call EXCEPT ![s] = [step |-> "helpers", run |-> r]]
    /\ UNCHANGED <<metadata, arts, present, plan, decisions, checkpoints, reports>>

Execute ==
    \E s \in Sessions \ {User}, r \in left.runs :
        ExecuteStage(s, r) /\ left' = [left EXCEPT !.runs = @ \ {r}]

\* What the helpers made is registered, also when one of them fails.
RunHelpers(s) ==
    /\ call[s].step = "helpers"
    /\ LET made == call[s].run.outputs
       IN /\ arts' = arts \o [k \in DOMAIN made |-> Artifact(call[s].run.stage, made[k], made[k], {}, FALSE)]
          /\ present' = present \cup Range(made)
    /\ Goto(s, "end")
    /\ UNCHANGED <<workflow, metadata, stages, executed, plan, decisions, checkpoints, reports, left>>

\* Only a computation that is completed gets a checkpoint.
EndExecution(s) ==
    /\ call[s].step = "end"
    /\ LET r == call[s].run
       IN /\ SetStatus(r.stage, r.result, TRUE)
          /\ checkpoints' = checkpoints \cup
                 IF r.stage = Computation /\ r.result = "completed" THEN {Computation} ELSE {}
          /\ workflow' = [workflow EXCEPT !.current = r.stage]
    /\ Done(s)
    /\ UNCHANGED <<metadata, arts, present, plan, decisions, reports, left>>

(***************************************************************************)
(* Deliveries.  The manifest and the handoff are written to their files    *)
(* and registered afterwards.                                              *)
(***************************************************************************)
Deliveries == {"package", "handoff"}
Verification == "verification_report"
Registered(name) == \E i \in DOMAIN arts : arts[i].key = name

\* The latest compute plan that is registered, if its file can be read.
Readable == Registered("compute_plan") /\ "compute_plan" \in present

Deliver(s, what, data) ==
    /\ call[s] = Idle /\ Spend("deliveries")
    /\ call' = [call EXCEPT ![s] = [step |-> what, data |-> data]]
    /\ UNCHANGED <<workflow, metadata, stages, executed, arts, present, plan, decisions, checkpoints, reports>>

BuildPackage(s) == Deliver(s, "package", Manifest(plan, Readable, checkpoints # {}))

\* The handoff reads the manifest that is registered.
GenerateHandoff(s) ==
    Deliver(s, "handoff", Handoff(IF Registered("package") THEN manifest ELSE None, checkpoints # {}))

Write(s) ==
    /\ call[s].step \in Deliveries
    /\ IF call[s].step = "package"
       THEN manifest' = call[s].data /\ UNCHANGED handoff
       ELSE handoff' = call[s].data /\ UNCHANGED manifest
    /\ call' = [call EXCEPT ![s] = [step |-> "enter", what |-> call[s].step]]
    /\ UNCHANGED <<workflow, metadata, stages, executed, arts, present, plan, decisions, checkpoints, report, left>>

Enter(s) ==
    /\ call[s].step = "enter"
    /\ arts' = Append(arts, Artifact(Writing, call[s].what, call[s].what, {}, FALSE))
    /\ present' = present \cup {call[s].what}
    /\ Done(s)
    /\ UNCHANGED <<workflow, metadata, stages, executed, plan, decisions, checkpoints, reports, left>>

Verify ==
    /\ Spend("deliveries")
    /\ report' = [status |-> ReportStatus(manifest, handoff, \A d \in Deliveries : Registered(d)),
                  declared |-> IF manifest = None THEN None ELSE manifest.truth,
                  agreed |-> /\ manifest # None /\ handoff # None /\ Agree(manifest, handoff)
                             /\ \A d \in Deliveries : Registered(d)]
    /\ arts' = Append(arts, Artifact(Writing, Verification, Verification, {}, FALSE))
    /\ present' = present \cup {Verification}
    /\ UNCHANGED <<workflow, metadata, stages, executed, plan, decisions, checkpoints, manifest, handoff, call>>

(***************************************************************************)
(* The user.                                                               *)
(***************************************************************************)
\* A project that is initialized again keeps its workflow, and its metadata
\* are those of the new entry.
InitResearch ==
    /\ \E entry \in left.inits : /\ metadata' = entry
                                /\ left' = [left EXCEPT !.inits = @ \ {entry}]
    /\ UNCHANGED <<workflow, stages, executed, arts, present, plan, decisions, checkpoints, reports, call>>

EditPlan ==
    /\ Spend("edits")
    /\ plan' \in PlanContents \ {plan}
    /\ UNCHANGED <<workflow, metadata, stages, executed, arts, present, decisions, checkpoints, reports, call>>

\* A file of evidence is removed.
RemoveFile ==
    /\ Spend("removals")
    /\ \E f \in present \ (Deliveries \cup {Verification}) : present' = present \ {f}
    /\ UNCHANGED <<workflow, metadata, stages, executed, arts, plan, decisions, checkpoints, reports, call>>

Decide ==
    /\ Spend("decisions")
    /\ \E d \in {"approved", "rejected"} : decisions' = Append(decisions, d)
    /\ UNCHANGED <<workflow, metadata, stages, executed, arts, present, plan, checkpoints, reports, call>>

\* The process ends, and what it was about to do is not done.
SessionDies ==
    /\ Spend("crashes")
    /\ \E s \in Sessions : call[s] # Idle /\ Done(s)
    /\ UNCHANGED <<workflow, metadata, stages, executed, arts, present, plan, decisions, checkpoints, reports>>

\* A user who does what the readiness of a stage tells him: he provides the
\* file that is missing and has it recorded, one call after the other, brings
\* back the files that are gone, approves, and starts the stage.
Advice(stage) == Actions(stage, StageStatus(stages, stage), arts, present, decisions)

BringEvidence(stage) ==
    /\ call[User] = Idle /\ (stage = Computation => ContractKnown)
    /\ \E k \in Contract[stage] \cup {"job_record_if_submitted"} :
        /\ <<"record_evidence", k>> \in Advice(stage)
        /\ present' = present \cup {k}
        /\ call' = [call EXCEPT ![User] =
                       Registering(stage, <<Entry("evidence", k)>>, {}, TRUE, IntakeManifest(stage))]
        /\ UNCHANGED <<workflow, metadata, stages, executed, arts, plan, decisions, checkpoints, reports, left>>

RestoreFiles(stage) ==
    /\ <<"restore_or_reregister_artifact_paths", stage>> \in Advice(stage)
    /\ present' = present \cup {arts[i].file : i \in Own(stage, arts)}
    /\ UNCHANGED <<workflow, metadata, stages, executed, arts, plan, decisions, checkpoints, reports, call, left>>

Approve(stage) ==
    /\ <<"record_hpc_submit_approval", stage>> \in Advice(stage)
    /\ decisions' = Append(decisions, "approved")
    /\ UNCHANGED <<workflow, metadata, stages, executed, arts, present, plan, checkpoints, reports, call, left>>

StartStage(stage) ==
    /\ <<"start_stage", stage>> \in Advice(stage)
    /\ SetStatus(stage, "in_progress", FALSE)
    /\ workflow' = [workflow EXCEPT !.current = stage]
    /\ UNCHANGED <<metadata, arts, present, plan, decisions, checkpoints, reports, call, left>>

Follow(stage) == BringEvidence(stage) \/ RestoreFiles(stage) \/ Approve(stage) \/ StartStage(stage)

Serves(s, stage) == "stage" \in DOMAIN call[s] /\ call[s].stage = stage
IntakeStep(s) == \/ RegisterEntry(s) \/ WriteManifest(s) \/ RegisterManifest(s)
                 \/ JudgeReadiness(s) \/ CompleteStage(s) \/ CheckpointStage(s)

ComputationIntake(s) == Serves(s, Computation) /\ (IntakeStep(s) \/ UpdateWorkflow(s))
AnalysisIntake(s) == Serves(s, Analysis) /\ IntakeStep(s)

Execution(s) == RunHelpers(s) \/ EndExecution(s)

Work(s) == ComputationIntake(s) \/ AnalysisIntake(s) \/ Execution(s) \/ Write(s) \/ Enter(s)

EvNext ==
    \/ Record \/ Execute \/ Verify \/ InitResearch \/ EditPlan \/ RemoveFile \/ Decide \/ SessionDies
    \/ \E s \in Sessions : Work(s) \/ BuildPackage(s) \/ GenerateHandoff(s)
    \/ \E stage \in followed : Follow(stage)

\* A session goes on with its call, and the user follows the advice.
Fairness == /\ \A s \in Sessions : WF_evVars(Work(s))
            /\ \A stage \in Stages : SF_evVars(stage \in followed /\ Follow(stage))

EvSpec == EvInit /\ [][EvNext]_evVars /\ Fairness

(***************************************************************************)
(* Properties.                                                             *)
(***************************************************************************)
\* What the user is shown.
Status == ProjectStatus(sequence, stages, arts, present, decisions, checkpoints # {})

\* A stage that counts as completed has an artifact for each evidence its
\* contract asks for, whichever session completed it and whatever the other
\* sessions, the user, the executor and a crash did between its judgement and
\* its update; and when the project status tells that the workflow is
\* complete, each stage of it has: but for the stages that the executor was
\* the last to set, which completes them when their helpers succeed, and lets
\* them wait, without asking for that evidence.
CompletedHasEvidence ==
    LET complete == NextAction(sequence, stages)[1] = "workflow_complete"
    IN \A s \in Stages \ executed :
            (StageStatus(stages, s) = "completed" \/ (complete /\ s \in sequence))
                => Contract[s] \subseteq Recorded(s, arts)

\* What the project status may seem to say with "workflow_complete", and does
\* not: a stage that waits counts as neither begun nor pending.
CompleteHasEvidence ==
    NextAction(sequence, stages)[1] = "workflow_complete"
        => \A s \in sequence : Contract[s] \subseteq Recorded(s, arts)

\* A delivery that the final verification does not fail declares no real
\* submit and shows no gate answer with a path under /home, though the manifest and the handoff
\* are written apart, from different readings of the project.
PassIsTruthful ==
    (report # None /\ report.status # "fail") =>
        /\ report.declared # None
        /\ ~report.declared.real
        /\ report.declared.gate # "text"

\* The project status, the readiness of the stages and the handoff of a
\* session are computed apart, each by code of its own, and say the same:
\* a file or a parent of an artifact of the workflow is a risk of the project
\* exactly when it blocks one of its stages; a gate that is shown as approved
\* blocks none; and the handoff names the next action and the risks of the
\* status, unless a stage outside of the workflow has a state.
ReportsAgree ==
    LET status == Status
        handed == StageHandoff(sequence, stages, checkpoints # {})
    IN /\ {arts[i].stage : i \in DOMAIN arts} \subseteq sequence \cup {Writing} =>
            \A code \in {"missing_artifact_paths", "missing_lineage_parents"} :
                (code \in status.risks) <=>
                    \E s \in sequence : code \in Blockers(s, arts, present, decisions)
       /\ status.gate = "approved" =>
            \A s \in sequence : "missing_hpc_submit_approval" \notin Blockers(s, arts, present, decisions)
       /\ DOMAIN stages \subseteq sequence =>
            handed.next = status.next /\ handed.risks \subseteq status.risks

\* A user who follows the advice comes to a stage that is ready and stays so,
\* but for an artifact that names a parent nobody registered, which no advice
\* can repair, and for a computation without a proposal.
AdviceConverges ==
    \A s \in Stages : <>[](\/ s \notin followed
                           \/ ReadinessStatus(s, arts, present, decisions) = "ready"
                           \/ MissingLineage(s, arts) # {}
                           \/ s = Computation /\ ~ContractKnown)

\* What the verification says of an approved submit: "Real submit declaration
\* includes an approved gate outcome."
ApprovedSubmitPasses ==
    (/\ report # None /\ report.agreed
     /\ report.declared.real /\ report.declared.required
     /\ report.declared.gate = "approved")
        => report.status # "fail"
=============================================================================
