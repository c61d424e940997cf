------------------------------ MODULE Delivery ------------------------------
(***************************************************************************)
(* What the deliveries of the legacy workflow say: which evidence writing  *)
(* needs, the claims it makes, the handoff, and the nine checks of the     *)
(* final verification.                                                     *)
(***************************************************************************)
EXTENDS Naturals, Sequences, SequencesExt

Stages == <<"literature_review", "proposal", "modeling", "computation", "analysis_visualization", "writing">>
StageSet == Range(Stages)
Index(s) == CHOOSE i \in DOMAIN Stages : Stages[i] = s

ReviewNames == {"review_summary", "gap_analysis"}
ProposalNames == {"proposal", "parameter_table", "research_questions"}
RequiredNames == ProposalNames \cup {"structure_manifest", "compute_plan", "analysis_report", "figures_manifest"}
\* What the verification looks for, without the report it is about to write.
WritingNames == {"methods", "claim_map", "reproducibility_manifest", "final_handoff"}

\* The audits of the figures, taken together; a helper that raises has none.
VisualQa(audits) ==
    IF audits = {} \/ "error" \in audits THEN "error"
    ELSE IF "warning" \in audits THEN "warning"
    ELSE IF audits = {"passed"} THEN "passed" ELSE "review_needed"

\* Figures are drawn of an analysis that is complete, if matplotlib is there
\* and its files hold data for them; without figures there is nothing to audit.
FigureManifests(analysis, audits) ==
    IF analysis # "completed" THEN {[figures |-> "waiting_for_outputs", qa |-> "skipped"]}
    ELSE {[figures |-> "completed", qa |-> VisualQa(a)] : a \in audits} \cup
         {[figures |-> "no_plot_data", qa |-> "skipped"],
          [figures |-> "skipped_optional_dependency", qa |-> "skipped_optional_dependency"]}

\* What a project that is entered at writing has instead of evidence.
NoAnalysis == "missing_evidence"
NoFigures == [figures |-> "missing_evidence", qa |-> "none"]

\* _degraded_evidence_states: a plan that was not submitted (no plan of this
\* workflow is), an analysis or figures that are not complete, a dependency
\* that was skipped, and an audit that did not pass.
DegradedStates(analysis, manifest) ==
    {<<"computation", "dry_run_only">>}
    \cup (IF analysis = "completed" THEN {} ELSE {<<"analysis", analysis>>})
    \cup (IF manifest.figures = "completed" THEN {} ELSE {<<"visualization", manifest.figures>>})
    \cup (IF manifest.qa \in {"none", "passed", "skipped"} THEN {} ELSE {<<"visual_qa", manifest.qa>>})

\* The claims of the analysis and of the figures are supported if their files
\* say completed; what is degraded is listed beside them.
ClaimMap(analysis, manifest) ==
    [analysis |-> IF analysis = "completed" THEN "supported_by_analysis" ELSE analysis,
     figures  |-> IF manifest.figures = "completed" THEN "supported_by_figures" ELSE manifest.figures,
     degraded |-> DegradedStates(analysis, manifest)]

\* The handoff counts writing as complete, and neither a stage in progress
\* nor one that waits as pending.
HandoffStatus(status, workflow) ==
    IF \A s \in DOMAIN status \ {"writing"} : status[s] \notin {"pending", "failed"} THEN "completed" ELSE workflow

\* Words the scan of the reports can find: none, described, or exposed ones.
Findings == {"pass", "warning", "fail"}

\* Each delivery is registered, and it or the handoff names what it is made of.
ArtifactTraceability(lineage) == IF \A n \in DOMAIN lineage : lineage[n] = "traced" THEN "pass" ELSE "fail"
RequiredOutputs(lineage) == IF \A n \in DOMAIN lineage : lineage[n] # "missing" THEN "pass" ELSE "fail"
\* The artifacts the claims name are registered ones.
ClaimTraceability(registered) == IF registered THEN "pass" ELSE "warning"
CheckpointSummary(checkpointed) == IF checkpointed THEN "pass" ELSE "warning"

\* Mutant: a delivery that is registered counts as traced.
ChecksPresence(lineage, registered, checkpointed, found) ==
    <<RequiredOutputs(lineage), found, CheckpointSummary(checkpointed), ClaimTraceability(registered)>>

\* The checks that can turn out either way when writing calls them: of the
\* others, two are about a real submit, which no plan of this workflow
\* declares, and two are about reports that are always written before.
Checks(lineage, registered, checkpointed, found) ==
    <<ArtifactTraceability(lineage), RequiredOutputs(lineage), found, CheckpointSummary(checkpointed),
      ClaimTraceability(registered)>>

Rollup(checks) ==
    IF "fail" \in Range(checks) THEN "fail" ELSE IF "warning" \in Range(checks) THEN "warning" ELSE "pass"
=============================================================================
