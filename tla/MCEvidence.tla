----------------------------- MODULE MCEvidence -----------------------------
(* Two stages with two and one required evidence; requests that overlap,    *)
(* record a real submit, or name a parent that nobody registered.           *)
EXTENDS TLC, Evidence

MCKeys == OwnKeys \cup {"input_files", "dry_run_report", "job_record", "analysis_outputs",
                        "compute_plan", "script"}
MCContract == Computation :> {"input_files", "dry_run_report"} @@ Analysis :> {"analysis_outputs"}

Of(key, real) == [role |-> "evidence", key |-> key, real |-> real]
Request(stage, entries, parents, complete) ==
    [stage |-> stage, entries |-> entries, parents |-> parents, complete |-> complete]

Submitted == Request(Computation, <<Of("input_files", FALSE), Of("job_record", FALSE)>>, {}, TRUE)
DryRun == Request(Computation, <<Of("dry_run_report", FALSE)>>, {1}, TRUE)
RealInputs == Request(Computation, <<Of("input_files", TRUE)>>, {}, FALSE)
PlanOnly == Request(Computation, <<Of("compute_plan", FALSE)>>, {}, FALSE)
Orphan == Request(Analysis, <<Of("analysis_outputs", FALSE)>>, {Unregistered}, TRUE)
Outputs == Request(Analysis, <<Of("analysis_outputs", FALSE)>>, {1}, TRUE)

\* A helper that reads the inputs and may leave the report it should write.
Helper == [stage |-> Computation, script |-> "script", inputs |-> <<"input_files">>,
           outputs |-> <<"dry_run_report">>, parents |-> {}]

Plan(real, required, gate) == [dry |-> ~real, real |-> real, required |-> required, gate |-> gate]
Dry == Plan(FALSE, TRUE, None)
Submission == Plan(TRUE, TRUE, "approved")
MCPlans == {Dry, Plan(FALSE, TRUE, "secret"), Plan(FALSE, TRUE, "text"), Submission,
            Plan(TRUE, FALSE, "block")}

\* The executor waits for inputs, fails with what it made so far, or completes.
Ran(stage, result, outputs) == [stage |-> stage, result |-> result, outputs |-> outputs]

Files == {"input_files", "dry_run_report", "job_record", "analysis_outputs"}
Start(entry, metadata0, files, plan0, follows, requests) ==
    [entry |-> entry, metadata |-> metadata0, files |-> files, plan |-> plan0,
     left |-> [follows |-> follows, requests |-> requests, helpers |-> {}, runs |-> {}, inits |-> {}, deliveries |-> 0,
               edits |-> 0, removals |-> 0, decisions |-> 0, crashes |-> 0]]
With(start, what, n) == [start EXCEPT !.left[what] = n]

\* Intake with disturbances of one kind or another, and the deliveries of a
\* computation whose plan is changed.
Intake(follows, requests) == Start("computation", None, Files, Dry, follows, requests)
DeliverPlan(plan0, n) ==
    With(Start("computation", "computation", {"compute_plan"}, plan0, {}, {PlanOnly}), "deliveries", n)
MCStarts ==
    {Intake({Computation}, {Submitted, DryRun}),
     With(Intake({Computation}, {DryRun}), "removals", 1),
     With(Intake({Computation}, {RealInputs}), "decisions", 1),
     With(Intake({Computation}, {Submitted}), "crashes", 1),
     With(Start("analysis_visualization", "analysis_visualization", Files, Dry, {Analysis},
                {Orphan, Outputs}), "removals", 1),
     Intake(Stages, {Outputs}),
     With(Start("computation", None, {"script", "input_files"}, Dry, {Computation}, {}),
          "helpers", {Helper}),
     Start("literature_review", None, {}, Dry, Stages, {}),
     With(Start("literature_review", "literature_review", {"input_files"}, Dry, {Computation}, {RealInputs}),
          "inits", {"computation", "analysis_visualization"}),
     With(Intake({Computation}, {}), "runs", {Ran(Computation, "waiting", <<>>), Ran(Analysis, "waiting", <<>>)}),
     With(Intake({}, {DryRun}), "runs", {Ran(Computation, "completed", <<"input_files">>)}),
     With(With(Intake({}, {Outputs}), "runs",
               {Ran(Analysis, "failed", <<"script">>), Ran(Computation, "pending", <<>>)}), "crashes", 1)}
    \cup {DeliverPlan(p, 3) : p \in MCPlans}
    \cup {With(DeliverPlan(Dry, 3), "edits", 1),
          With(DeliverPlan(Submission, 3), "crashes", 1),
          With(DeliverPlan(Submission, 3), "removals", 1)}
MCApproved == {DeliverPlan(p, 3) : p \in MCPlans}

\* The ids that are found round by round are those a walk of at most depth
\* links leads to.
Walks(n) == UNION {[0..m -> 1..3] : m \in 0..n}
Hop(links, x, y, direction) ==
    \/ direction # "downstream" /\ <<x, y>> \in links
    \/ direction # "upstream" /\ <<y, x>> \in links
Reached(links, root, direction, depth) ==
    {x \in 1..3 : \E w \in Walks(depth) :
        LET m == Cardinality(DOMAIN w) - 1
        IN w[0] = root /\ w[m] = x /\ \A i \in 1..m : Hop(links, w[i - 1], w[i], direction)}
ASSUME RelatedIsReached ==
    \A links \in SUBSET ((1..3) \X (1..3)), root \in 1..3, direction \in Directions, depth \in 0..2 :
        Related(links, {root}, direction, depth) = Reached(links, root, direction, depth)
=============================================================================
