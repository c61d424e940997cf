------------------------------ MODULE Workflow ------------------------------
(***************************************************************************)
(* The legacy stage workflow: execute_stage and run_pipeline over the six  *)
(* canonical stages, the nine runners they call, and what the runners keep *)
(* in the project: stages.json, workflow.json, verification.json, the      *)
(* artifact records, the checkpoints and the report files at their fixed   *)
(* paths.                                                                  *)
(*                                                                         *)
(* A runner loads its evidence, and then writes its files and registers    *)
(* them, part by part.  What an engine answers, and a fault (an exception  *)
(* of the runner, or the end of the process), is chosen by the             *)
(* environment.  An artifact is its place in the record; the content of a  *)
(* file is the execution that wrote it, its status, and the execution      *)
(* whose content it was made from.                                         *)
(***************************************************************************)
EXTENDS Naturals, FiniteSets, Sequences, SequencesExt, FiniteSetsExt, Delivery

CONSTANTS Entries,     \* entry points a project may be initialised with
          Direct,      \* entry points of a project that names its own files
          Single,      \* bound: stages that are called on their own
          Targets,     \* bound: stages a pipeline is called up to
          Audits,      \* bound: what the audits of the figures say
          MaxCalls,    \* bound: calls of execute_stage and run_pipeline
          MaxFaults    \* bound: answers that are no success, exceptions, crashes

ASSUME BoundsAssumption == /\ Entries \cup Direct \cup Single \cup Targets \subseteq StageSet
                           /\ MaxCalls \in Nat /\ MaxFaults \in Nat

VARIABLES entry,       \* workflow.json: entry_point, and whether init_research
                       \* made the project: it writes metadata.json
          workflow,    \* workflow.json: current stage and status
          stages,      \* stages.json
          arts,        \* the artifact records, in order
          files,       \* the files the runners write, by name
          checkpoints, \* the checkpoint files, in order
          verdicts,    \* verification.json, in order
          call,        \* the call that runs
          calls, faults

vars == <<entry, workflow, stages, arts, files, checkpoints, verdicts, call, calls, faults>>

Runners == [literature_review      |-> <<"matrix", "review">>,
            proposal               |-> <<"proposal">>,
            modeling               |-> <<"structure">>,
            computation            |-> <<"inputs", "compute">>,
            analysis_visualization |-> <<"analysis", "figures">>,
            writing                |-> <<"writing">>]

\* A runner writes and registers what it makes in one or more parts.
Parts(r) == IF r = "writing" THEN <<"claims", "package", "handoff", "verify">> ELSE <<r>>

Names(part) ==
    CASE part = "matrix"    -> <<"literature_matrix">>
      [] part = "review"    -> <<"review_summary", "gap_analysis">>
      [] part = "proposal"  -> <<"proposal", "parameter_table", "research_questions">>
      [] part = "structure" -> <<"structure_manifest", "structure">>
      [] part = "inputs"    -> <<"input_manifest">>
      [] part = "compute"   -> <<"compute_plan">>
      [] part = "analysis"  -> <<"analysis_report">>
      [] part = "figures"   -> <<"figures_manifest">>
      [] part = "claims"    -> <<"methods", "claim_map">>
      [] part = "package"   -> <<"reproducibility_manifest">>
      [] part = "handoff"   -> <<"final_handoff">>
      [] part = "verify"    -> <<"verification_report">>

FileNames == UNION {Range(Names(p)) : p \in UNION {Range(Parts(r)) : r \in UNION {Range(Runners[s]) : s \in StageSet}}}
NoFile == [by |-> 0, status |-> "none", from |-> 0]
Idle == [pc |-> "idle", stage |-> "none", later |-> <<>>, piped |-> FALSE, runners |-> <<>>,
         parts |-> <<>>, exec |-> 0, cited |-> {}, done |-> {}, mine |-> <<>>, mode |-> "none", crashed |-> FALSE]

Init == /\ entry \in [stage : Entries, intake : BOOLEAN]
        /\ workflow = [current |-> entry.stage, status |-> "initialized"]
        /\ stages = [s \in StageSet |-> [status |-> "pending", outputs |-> {}, inputs |-> {}, report |-> 0]]
        /\ arts = <<>>
        /\ files = [n \in FileNames |-> NoFile]
        /\ checkpoints = <<>>
        /\ verdicts = <<>>
        /\ call = Idle
        /\ calls = 0 /\ faults = 0

-----------------------------------------------------------------------------
(* What the helpers look up. *)

Latest(name) == Max({0} \cup {i \in DOMAIN arts : arts[i].name = name})
First(ids, name) == Min({i \in ids : arts[i].name = name})
Holds(ids, name) == \E i \in ids : arts[i].name = name
HasAll(names) == \A n \in names : Latest(n) # 0

\* _stage_output_artifacts of the compute and the figure runner; the other
\* runners do not look further than stages.json.
OutputsOrAll(s) ==
    IF stages[s].outputs # {} THEN stages[s].outputs ELSE {i \in DOMAIN arts : arts[i].stage = s}

\* The stages of the project: init_research keeps those from its entry on.
Sequence == IF entry.intake THEN SubSeq(Stages, Index(entry.stage), Len(Stages)) ELSE Stages

\* metadata.json has a current stage of its own, which stays the entry.
MayEnter(s) == Index(entry.stage) >= Index(s) \/ (~entry.intake /\ Index(workflow.current) >= Index(s))
HasProposal == HasAll(ProposalNames)
Contract == HasProposal \/ MayEnter("modeling")

\* What the contract of a stage that is entered without a proposal cites, and
\* the partial review of a proposal that is entered without one: nothing.
DirectContract == {}
PartialReview == {}
ContractSources == IF HasProposal THEN {Latest(n) : n \in ProposalNames} ELSE DirectContract
OwnFiles(s) == entry.intake /\ entry.stage \in Direct /\ Index(entry.stage) >= Index(s)

(* The runners: which artifacts each reads and cites, whether they are     *)
(* enough, the name of the file its own is made from (the first artifact   *)
(* of that name it cites), what that file can say, and whether it may      *)
(* answer that it waits for inputs or for outputs.                         *)

MatrixRunner == [cites |-> {}, enough |-> TRUE, source |-> "none", says |-> {"completed"}, waits |-> FALSE]

ReviewRunner ==
    [cites |-> {Latest("literature_matrix")}, enough |-> HasAll({"literature_matrix"}),
     source |-> "none", says |-> {"completed"}, waits |-> FALSE]

\* Without a review, a project that starts at the proposal gets a partial one.
ProposalRunner ==
    LET review == IF HasAll(ReviewNames) THEN {Latest(n) : n \in ReviewNames} ELSE PartialReview
    IN  [cites |-> review, enough |-> HasAll(ReviewNames) \/ MayEnter("proposal"),
         source |-> "none", says |-> {"completed"}, waits |-> FALSE]

\* A structure that a file, a prototype or a lattice with coordinates gives, or
\* without any of them the plan for one.
StructureModes == {"from_spec", "planning_only"}

StructureRunner ==
    [cites |-> ContractSources, enough |-> Contract, source |-> "none", says |-> StructureModes, waits |-> FALSE]

\* Inputs of the modelled structure, or the input files the project came with.
InputsRunner ==
    LET modelled == stages["modeling"].outputs
    IN  [cites |-> modelled,
         enough |-> /\ Contract
                    /\ IF modelled = {} THEN OwnFiles("computation")
                       ELSE Holds(modelled, "structure") /\ Holds(modelled, "structure_manifest"),
         source |-> "structure_manifest", says |-> {"completed"}, waits |-> TRUE]

ComputeRunner ==
    LET inputs == OutputsOrAll("computation")
    IN  [cites |-> inputs, enough |-> Contract /\ Holds(inputs, "input_manifest"),
         source |-> "input_manifest", says |-> {"completed"}, waits |-> TRUE]

\* A report of the outputs a plan names, or of those the project came with: it
\* is registered, and the stage completes, even when there are none yet.
Outputs(s) == stages[s].outputs
OwnOutputs == OwnFiles("analysis_visualization")
AnalysisStates == {"completed", "waiting_for_outputs"}

AnalysisRunner ==
    LET planned == Outputs("computation")
    IN  [cites |-> planned,
         enough |-> Contract /\ (IF planned = {} THEN OwnOutputs ELSE Holds(planned, "compute_plan")),
         source |-> "compute_plan", says |-> AnalysisStates, waits |-> TRUE]

FiguresRunner ==
    LET analysed == OutputsOrAll("analysis_visualization")
    IN  [cites |-> analysed, enough |-> Contract /\ Holds(analysed, "analysis_report"),
         source |-> "analysis_report", says |-> FigureManifests(files["analysis_report"].status, Audits), waits |-> TRUE]

\* Without all of its evidence, a project may still be entered at writing.
WritingRunner ==
    LET evidence == IF HasAll(RequiredNames) THEN {Latest(n) : n \in RequiredNames} ELSE {}
    IN  [cites |-> evidence, enough |-> evidence # {} \/ MayEnter("writing"), source |-> "figures_manifest",
         says |-> {IF call.cited = {} THEN ClaimMap(NoAnalysis, NoFigures)
                   ELSE ClaimMap(files["analysis_report"].status, files["figures_manifest"].status)},
         waits |-> FALSE]

RunnerOf(r) ==
    CASE r = "matrix"    -> MatrixRunner
      [] r = "review"    -> ReviewRunner
      [] r = "proposal"  -> ProposalRunner
      [] r = "structure" -> StructureRunner
      [] r = "inputs"    -> InputsRunner
      [] r = "compute"   -> ComputeRunner
      [] r = "analysis"  -> AnalysisRunner
      [] r = "figures"   -> FiguresRunner
      [] r = "writing"   -> WritingRunner

-----------------------------------------------------------------------------
(* The calls. *)

Step(pc) == call.pc = pc
Goto(c, pc) == call' = [c EXCEPT !.pc = pc]
Fault == faults < MaxFaults /\ faults' = faults + 1

StartCall(c) == /\ Step("idle") /\ calls < MaxCalls /\ calls' = calls + 1 /\ call' = c
Begun(s, later, piped) ==
    [Idle EXCEPT !.pc = "begin", !.stage = s, !.later = later, !.piped = piped, !.exec = call.exec,
                 !.crashed = call.crashed]

CallStage == \E s \in Single \cap Range(Sequence) :
    /\ StartCall(Begun(s, <<>>, FALSE))
    /\ UNCHANGED <<entry, workflow, stages, arts, files, checkpoints, verdicts, faults>>

\* get_activities_to_run
ToRun(target) ==
    LET at == Index(workflow.current)
        from == IF stages[workflow.current].status = "completed" /\ at < Len(Stages) THEN at + 1 ELSE at
    IN  SubSeq(Stages, from, Index(target))

\* With dry_run, the default, execute_stage only sets the stage to pending.
DryRun == \E ss \in {{s} : s \in Single \cap Range(Sequence)} \cup {Range(ToRun(target)) : target \in Targets} :
    /\ StartCall(call)
    /\ stages' = [s \in StageSet |-> IF s \in ss THEN [stages[s] EXCEPT !.status = "pending"] ELSE stages[s]]
    /\ UNCHANGED <<entry, workflow, arts, files, checkpoints, verdicts, faults>>

CallPipeline == \E target \in Targets :
    LET run == ToRun(target)
    IN  /\ run # <<>>
        /\ StartCall(Begun(Head(run), Tail(run), TRUE))
        /\ UNCHANGED <<entry, workflow, stages, arts, files, checkpoints, verdicts, faults>>

Runner == Head(call.runners)

\* Mutant: the stage keeps its status while it runs.
BeginQuietly ==
    /\ Step("begin")
    /\ workflow' = [workflow EXCEPT !.current = call.stage]
    /\ Goto([call EXCEPT !.exec = @ + 1, !.runners = Runners[call.stage], !.cited = {}, !.done = {}], "load")
    /\ UNCHANGED <<entry, stages, arts, files, checkpoints, verdicts, calls, faults>>

\* update_stage(in_progress): the stage becomes the current one before any
\* runner looks at it, and the errors of the last execution are cleared.
Begin ==
    /\ Step("begin")
    /\ stages' = [stages EXCEPT ![call.stage].status = "in_progress", ![call.stage].report = 0]
    /\ workflow' = [workflow EXCEPT !.current = call.stage]
    /\ Goto([call EXCEPT !.exec = @ + 1, !.runners = Runners[call.stage], !.cited = {}, !.done = {}], "load")
    /\ UNCHANGED <<entry, arts, files, checkpoints, verdicts, calls, faults>>

\* A runner looks for its evidence.  Without it it answers an error.
Load ==
    /\ Step("load")
    /\ IF RunnerOf(Runner).enough
       THEN Goto([call EXCEPT !.cited = RunnerOf(Runner).cites, !.parts = Parts(Runner), !.mine = <<>>], "write")
       ELSE Goto([call EXCEPT !.mine = <<>>], "faillog")
    /\ UNCHANGED <<entry, workflow, stages, arts, files, checkpoints, verdicts, calls, faults>>

\* What _check_artifact_traceability finds of each delivery: the handoff's
\* source ids are the evidence that writing cited.
Lineage == [n \in WritingNames |->
    IF Latest(n) = 0 THEN "missing"
    ELSE IF call.cited # {} \/ arts[Latest(n)].from # {} THEN "traced" ELSE "orphan"]

\* What generate_final_handoff and verify_workflow can say.
HandoffOutcome == HandoffStatus([s \in Range(Sequence) |-> stages[s].status], workflow.status)
Verdicts == {Rollup(Checks(Lineage, call.cited \subseteq DOMAIN arts, checkpoints # <<>>, found)) : found \in Findings}

\* _derive_source_artifact_ids: what writing cited, or else what its
\* deliveries are made of.
SourceIds ==
    IF call.cited # {} THEN call.cited
    ELSE UNION {arts[i].from : i \in {Latest(n) : n \in WritingNames} \ {0}}
             \ {i \in DOMAIN arts : arts[i].stage = "writing"}

Verdict(status, sources, checkpoint) ==
    Append(verdicts, [stage |-> call.stage, status |-> status, sources |-> sources, checkpoint |-> checkpoint])

\* What the part that is written next can say, and what it is made from.
Outcomes(part) ==
    CASE part = "package" -> {"completed"}
      [] part = "handoff" -> {HandoffOutcome}
      [] part = "verify"  -> Verdicts
      [] OTHER            -> RunnerOf(Runner).says
SourceOf(part) == IF part \in {"package", "handoff", "verify"} THEN "none" ELSE RunnerOf(Runner).source

Part == Head(call.parts)
Made(part, status) == IF part = "structure" /\ status = "planning_only" THEN <<"structure_manifest">> ELSE Names(part)

\* _modeling_summary reads the validation of the manifest, and a project that
\* has only been planned has none: the writing runner raises.
Raises == Part = "claims" /\ call.cited # {} /\ files["structure_manifest"].status = "planning_only"

Write ==
    /\ Step("write") /\ ~Raises
    /\ \E status \in Outcomes(Part) :
        LET source == SourceOf(Part)
            content == [by |-> call.exec, status |-> status,
                        from |-> IF source = "none" \/ call.cited = {} THEN 0 ELSE files[source].by]
        IN  /\ files' = [n \in FileNames |-> IF n \in Range(Made(Part, status)) THEN content ELSE files[n]]
            /\ verdicts' = IF Part = "verify" THEN Verdict(status, SourceIds, 0) ELSE verdicts
            /\ Goto([call EXCEPT !.mode = status], "register")
    /\ UNCHANGED <<entry, workflow, stages, arts, checkpoints, calls, faults>>

\* The artifacts of a part.  The first cites the evidence and what the runner
\* registered before; the later ones cite the first ones, and outside the
\* proposal and the structure the evidence too.
Records(names) ==
    LET before(k) == (Len(arts) + 1)..(Len(arts) + k - 1)
        cited == call.cited \cup Range(call.mine)
    IN  [k \in DOMAIN names |->
            [name |-> names[k], stage |-> call.stage, content |-> files[names[k]],
             from |-> CASE Part \in {"proposal", "structure"} /\ k > 1 -> before(k)
                        [] Part = "claims" -> cited \cup before(k)
                        [] OTHER -> cited]]

NewIds(n) == [k \in 1..n |-> Len(arts) + k]

\* What follows a runner that has finished: the next one, or the end.
AfterRunner(c) ==
    LET d == [c EXCEPT !.done = @ \cup Range(c.mine), !.runners = Tail(@), !.mine = <<>>]
    IN  Goto(d, IF d.runners = <<>> THEN "complete" ELSE "load")

Register ==
    /\ Step("register")
    /\ LET names == Made(Part, call.mode)
           c == [call EXCEPT !.parts = Tail(@), !.mine = @ \o NewIds(Len(names))]
       IN  /\ arts' = arts \o Records(names)
           /\ IF c.parts = <<>> THEN AfterRunner(c) ELSE Goto(c, "write")
    /\ UNCHANGED <<entry, workflow, stages, files, checkpoints, verdicts, calls, faults>>

\* A stage runner answers its inputs; the others, and a stage without any,
\* have the parents of their artifacts.
StageInputs ==
    LET firsts == {Head(Names(Head(Parts(r)))) : r \in Range(Runners[call.stage])}
        Parents(ids) == UNION {arts[i].from : i \in ids}
        given == Parents({i \in call.done : arts[i].name \in firsts})
    IN  IF given = {} \/ call.stage = "proposal" THEN Parents(call.done) ELSE given

\* create_checkpoint: without a run to restart from it is diagnostic only.
Checkpointed(hasRun) == Append(checkpoints, [stage |-> call.stage, recoverable |-> hasRun])

Progress == [current |-> call.stage, status |-> IF call.stage = Last(Stages) THEN "completed" ELSE "in_progress"]

\* update_stage(completed) writes the stage ...
Complete ==
    /\ Step("complete")
    /\ stages' = [stages EXCEPT ![call.stage] =
                    [@ EXCEPT !.status = "completed", !.outputs = call.done, !.inputs = StageInputs]]
    /\ Goto(call, "verdict")
    /\ UNCHANGED <<entry, workflow, arts, files, checkpoints, verdicts, calls, faults>>

\* ... and then an entry of verification.json, which says pending and has no
\* checkpoint: stages.json never has one.
Pending ==
    /\ Step("verdict")
    /\ verdicts' = Verdict("pending", {}, 0)
    /\ Goto(call, "advance")
    /\ UNCHANGED <<entry, workflow, stages, arts, files, checkpoints, calls, faults>>

\* The checkpoint of a computation, and touch_workflow.
Advance ==
    /\ Step("advance")
    /\ checkpoints' = IF call.stage = "computation" THEN Checkpointed(TRUE) ELSE checkpoints
    /\ workflow' = Progress
    /\ IF call.later # <<>> THEN call' = [call EXCEPT !.pc = "begin", !.stage = Head(call.later), !.later = Tail(@)]
       ELSE Goto(call, IF call.piped THEN "close" ELSE "end")
    /\ UNCHANGED <<entry, stages, arts, files, verdicts, calls, faults>>

\* The pipeline's own checkpoint and status, after its last stage.
Close ==
    /\ Step("close")
    /\ checkpoints' = Checkpointed(FALSE)
    /\ workflow' = Progress
    /\ Goto(call, "end")
    /\ UNCHANGED <<entry, stages, arts, files, verdicts, calls, faults>>

-----------------------------------------------------------------------------
(* What is not a success. *)

\* needs_inputs or capability_warning, from the runners that can answer it.
Wait ==
    /\ Step("write") /\ RunnerOf(Runner).waits /\ Fault
    /\ stages' = [stages EXCEPT ![call.stage].status = "waiting"]
    /\ workflow' = [current |-> call.stage, status |-> "in_progress"]
    /\ Goto(call, "end")
    /\ UNCHANGED <<entry, arts, files, checkpoints, verdicts, calls>>

\* A runner raises, or answers an error, before or after it wrote its files.
Fail ==
    /\ call.pc \in {"write", "register"} /\ Fault
    /\ Goto(call, "faillog")
    /\ UNCHANGED <<entry, workflow, stages, arts, files, checkpoints, verdicts, calls>>

Unplanned ==
    /\ Step("write") /\ Raises
    /\ Goto(call, "faillog")
    /\ UNCHANGED <<entry, workflow, stages, arts, files, checkpoints, verdicts, calls, faults>>

\* record_stage_failure: a log, a report that cites it, and then the status.
Evidenced(name, from) ==
    Append(arts, [name |-> name, stage |-> call.stage, from |-> from,
                  content |-> [by |-> call.exec, status |-> "failed", from |-> 0]])

FailLog ==
    /\ Step("faillog")
    /\ arts' = Evidenced("failure_log", call.done)
    /\ Goto([call EXCEPT !.mine = <<Len(arts) + 1>>], "failreport")
    /\ UNCHANGED <<entry, workflow, stages, files, checkpoints, verdicts, calls, faults>>

\* Mutant: the report cites the log only.
FailReportAlone ==
    /\ Step("failreport")
    /\ arts' = Evidenced("error_report", Range(call.mine))
    /\ Goto([call EXCEPT !.mine = <<Len(arts) + 1>>], "failmark")
    /\ UNCHANGED <<entry, workflow, stages, files, checkpoints, verdicts, calls, faults>>

FailReport ==
    /\ Step("failreport")
    /\ arts' = Evidenced("error_report", call.done \cup Range(call.mine))
    /\ Goto([call EXCEPT !.mine = <<Len(arts) + 1>>], "failmark")
    /\ UNCHANGED <<entry, workflow, stages, files, checkpoints, verdicts, calls, faults>>

FailMark ==
    /\ Step("failmark")
    /\ stages' = [stages EXCEPT ![call.stage].status = "failed", ![call.stage].report = Head(call.mine)]
    /\ workflow' = [current |-> call.stage, status |-> "failed"]
    /\ Goto(call, "failverdict")
    /\ UNCHANGED <<entry, arts, files, checkpoints, verdicts, calls, faults>>

\* get_latest_recovery_checkpoint
LatestRecovery == Max({0} \cup {k \in DOMAIN checkpoints : checkpoints[k].recoverable})

\* record_stage_failure_verification: the report and the log, and the latest
\* checkpoint one can restart from.
FailVerdict ==
    /\ Step("failverdict")
    /\ LET report == Head(call.mine)
       IN  verdicts' = Verdict("fail", {report} \cup {i \in arts[report].from : arts[i].name = "failure_log"},
                               LatestRecovery)
    /\ Goto(call, "end")
    /\ UNCHANGED <<entry, workflow, stages, arts, files, checkpoints, calls, faults>>

\* The call returns; of what it knew only the count of executions is kept.
Return ==
    /\ Step("end")
    /\ call' = [Idle EXCEPT !.exec = call.exec, !.crashed = call.crashed]
    /\ UNCHANGED <<entry, workflow, stages, arts, files, checkpoints, verdicts, calls, faults>>

\* The process ends between two steps; within a register it may have
\* appended the first of its records.
Crash == \E k \in 0..2 :
    /\ ~Step("idle") /\ Fault
    /\ IF Step("register") THEN k < Len(Made(Part, call.mode)) ELSE k = 0
    /\ arts' = IF Step("register") THEN arts \o SubSeq(Records(Made(Part, call.mode)), 1, k) ELSE arts
    /\ call' = [Idle EXCEPT !.exec = call.exec, !.crashed = TRUE]
    /\ UNCHANGED <<entry, workflow, stages, files, checkpoints, verdicts, calls>>

Answer == \/ Begin \/ Load \/ Write \/ Register \/ Complete \/ Pending \/ Advance \/ Close \/ Return
          \/ Unplanned \/ FailLog \/ FailReport \/ FailMark \/ FailVerdict
Next == DryRun \/ CallStage \/ CallPipeline \/ Answer \/ Wait \/ Fail \/ Crash
Spec == Init /\ [][Next]_vars

-----------------------------------------------------------------------------
(* Properties *)

TypeOK == /\ workflow.current \in StageSet /\ workflow.status \in {"initialized", "in_progress", "failed", "completed"}
          /\ \A s \in StageSet : /\ stages[s].status \in {"pending", "in_progress", "waiting", "failed", "completed"}
                                /\ stages[s].outputs \cup stages[s].inputs \subseteq DOMAIN arts
          /\ \A n \in FileNames : files[n].by \in 0..call.exec
          /\ \A i \in DOMAIN arts : arts[i].from \subseteq 1..(i - 1)

\* What a completed stage lists is what is on disk: its outputs are the latest
\* artifacts of their names, they are all of one execution, each of its
\* runners has one, and no file was written again since it was registered.
\* (execute_stage collects the outputs of its own runners; what another
\* execution overwrote before it failed leaves the stage in another status.)
CompletedIsCurrent ==
    \A s \in StageSet : stages[s].status = "completed" =>
        LET own == stages[s].outputs
        IN  /\ \A i \in own : Latest(arts[i].name) = i /\ files[arts[i].name] = arts[i].content
            /\ Cardinality({arts[i].content.by : i \in own}) = 1
            /\ \A r \in Range(Runners[s]) : \E i \in own : \E p \in Range(Parts(r)) : arts[i].name \in Range(Names(p))

\* A failed stage names an error report, of that very execution, that cites the
\* log and everything the runners before the failing one had registered, and
\* once the call is over the last entry verification.json has of the stage is
\* this failure (record_stage_failure: "a complete, recoverable stage-failure
\* evidence bundle"), unless the process ended before it was written.
FailureIsExplained ==
    \A s \in StageSet : stages[s].status = "failed" =>
        LET report == stages[s].report
            exec == arts[report].content.by
            before == {i \in 1..(report - 1) : arts[i].stage = s /\ arts[i].content.by = exec}
        IN  /\ report # 0 /\ arts[report].name = "error_report"
            /\ arts[report].from \subseteq before /\ Holds(arts[report].from, "failure_log")
            /\ \A i \in DOMAIN arts : arts[i].stage = s => arts[i].content.by <= exec
            /\ Len(Runners[s]) = 2 =>
                   \A i \in before : arts[i].name \in Range(Names(Runners[s][1])) => i \in arts[report].from
            /\ Step("idle") /\ ~call.crashed =>
                   LET last == verdicts[Max({k \in DOMAIN verdicts : verdicts[k].stage = s})]
                   IN  last.status = "fail" /\ last.sources = {report, Max({i \in before : arts[i].name = "failure_log"})}

\* A verification that does not fail is of claims that rest on all the required
\* evidence, and its entry in verification.json names it: a writing stage that
\* was entered without it can complete, with a claim map and a handoff, but not
\* pass, then or later (verification.py, run_writing_stage.py).
VerdictNeedsEvidence ==
    /\ \A k \in DOMAIN verdicts : verdicts[k].status \in {"pass", "warning"} =>
           \A n \in RequiredNames : Holds(verdicts[k].sources, n)
    /\ stages["writing"].status = "completed" /\ files["verification_report"].status # "fail" =>
           LET cited == arts[Latest("claim_map")].from
           IN  /\ files["claim_map"].status.analysis # NoAnalysis
               /\ \A n \in RequiredNames : Holds(cited, n)

\* What the claim map says is supported by an analysis rests on a registered
\* report that says so (its claim policy: "Scientific claims must trace to
\* registered artifacts").
SupportedIsRegistered ==
    \A i \in DOMAIN arts :
        arts[i].name = "claim_map" /\ arts[i].content.status.analysis = "supported_by_analysis" =>
            arts[Max({k \in arts[i].from : arts[k].name = "analysis_report"})].content.status = "completed"

\* The analysis report a figures manifest names is the one whose data its figures show
\* (analysis_visualization.json: "preserving data, script, environment, figure,
\* and claim lineage").
FiguresCiteWhatTheyShow ==
    \A i \in DOMAIN arts : arts[i].name = "figures_manifest" =>
        arts[First(arts[i].from, "analysis_report")].content.by = arts[i].content.from

\* A project that was initialised at or before the proposal is not modelled
\* without one (test_computation_evidence.py: "SHOULD have proposal artifacts").
ProposalNotSkipped ==
    Index(entry.stage) <= Index("proposal") /\ stages["modeling"].status = "completed" => HasProposal

=============================================================================
