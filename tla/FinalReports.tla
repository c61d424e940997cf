---------------------------- MODULE FinalReports ----------------------------
(***************************************************************************)
(* What the reproducibility manifest and the final handoff say of the      *)
(* computation, and how the final verification judges the two.             *)
(*                                                                         *)
(* A plan says whether it is dry, whether it was submitted, whether that   *)
(* needs an approval, and what the gate answered.  The answer of the gate  *)
(* is free text: it may be an absolute path, a text with a path under /home *)
(* in it, or a value under a key that names a secret.                      *)
(***************************************************************************)
EXTENDS Naturals, Sequences

D == INSTANCE Delivery

CONSTANT None

PlanGates == {None, "approved", "block", "path", "text", "secret"}
Plans == [dry : BOOLEAN, real : BOOLEAN, required : BOOLEAN, gate : PlanGates]

\* Without a compute plan that can be read, nothing was submitted.
NoPlan == [dry |-> TRUE, real |-> FALSE, required |-> TRUE, gate |-> None]

\* Secrets are redacted and absolute paths shortened; a path within a text
\* is not looked for.
Sanitize(gate) == CASE gate = "secret" -> "redacted" [] gate = "path" -> "short" [] OTHER -> gate

WithGate(truth, gate) ==
    [dry |-> truth.dry, real |-> truth.real, required |-> truth.required, gate |-> gate]
Truths == [dry : BOOLEAN, real : BOOLEAN, required : BOOLEAN, gate : PlanGates \cup {"redacted", "short"}]
Truth(plan) == [dry |-> plan.dry, real |-> plan.real, required |-> plan.required]

ExecutionTruth(plan) == WithGate(plan, Sanitize(plan.gate))

\* The manifest: what the latest compute plan says, where it can be read, and
\* whether there is a checkpoint.
Manifest(plan, readable, checkpointed) ==
    [truth |-> ExecutionTruth(IF readable THEN plan ELSE NoPlan),
     checkpointed |-> checkpointed]

\* The handoff takes the truth from the manifest, and leaves out what the
\* gate answered.
Handoff(manifest, checkpointed) ==
    [truth |-> Truth(IF manifest = None THEN NoPlan ELSE manifest.truth),
     checkpointed |-> checkpointed \/ (manifest # None /\ manifest.checkpointed)]

Agree(manifest, handoff) == Truth(manifest.truth) = handoff.truth

\* Mutant: the handoff's declaration is taken as it is.
HandoffIsTrusted(manifest, handoff) ==
    IF handoff # None THEN WithGate(handoff.truth, None)
    ELSE IF manifest # None THEN manifest.truth ELSE None

\* Both declare all of it: the two must agree, and the handoff's is used.
SelectedTruth(manifest, handoff) ==
    IF manifest # None /\ handoff # None /\ ~Agree(manifest, handoff) THEN None
    ELSE IF handoff # None THEN WithGate(handoff.truth, None)
    ELSE IF manifest # None THEN manifest.truth ELSE None

Verdict(holds) == IF holds THEN "pass" ELSE "fail"

RealSubmitApproval(truth) ==
    Verdict(truth # None /\ (truth.real => truth.required /\ truth.gate = "approved"))

\* Text that names a path under /home fails (other homes are not looked for), and what was redacted is a warning.
SensitiveContent(manifest) ==
    IF manifest = None THEN "pass"
    ELSE CASE manifest.truth.gate = "text" -> "fail"
           [] manifest.truth.gate = "redacted" -> "warning"
           [] OTHER -> "pass"

CheckpointSummary(manifest, handoff) ==
    D!CheckpointSummary(/\ manifest # None
                        /\ manifest.checkpointed \/ (handoff # None /\ handoff.checkpointed))

\* The checks of the final delivery report that depend on the two reports;
\* registered are the deliveries that are registered.
DeliveryChecks(manifest, handoff, registered) ==
    LET truth == SelectedTruth(manifest, handoff)
    IN <<Verdict(registered), Verdict(manifest # None), Verdict(handoff # None),
         Verdict(truth # None), RealSubmitApproval(truth), SensitiveContent(manifest),
         CheckpointSummary(manifest, handoff)>>

ReportStatus(manifest, handoff, registered) == D!Rollup(DeliveryChecks(manifest, handoff, registered))
=============================================================================
