----------------------------- MODULE Readiness -----------------------------
(***************************************************************************)
(* What a compute stage says of a calculation before anyone approves it:   *)
(* the script it takes, and the evidence on the files of the manifest, the *)
(* resources and the credentials.                                          *)
(*                                                                         *)
(* A directory maps a name to its content, whose text is "plain", "empty"  *)
(* or "secret"; so is the text of a script, which may also be a template   *)
(* and may ask for an accelerator ("gpu").                                 *)
(***************************************************************************)
EXTENDS VaspInputs

LOCAL INSTANCE Integers
LOCAL INSTANCE Sequences

Texts == {"plain", "empty", "secret"}

-----------------------------------------------------------------------------
(* The script.                                                             *)

\* The user's script, which must exist; then the manifest's hint, if that
\* exists; then the only one of the library that fits the scheduler; else one
\* that is generated.  A script is Unset, Missing, or its text.
SelectScript(explicit, hint, library) ==
    CASE explicit = Missing ->
           [status |-> "error", source |-> "job_script_not_found", text |-> Missing]
      [] explicit \notin {Unset, Missing} ->
           [status |-> "selected", source |-> "explicit_user_path", text |-> explicit]
      [] explicit = Unset /\ hint \notin {Unset, Missing} ->
           [status |-> "selected", source |-> "input_manifest_hint", text |-> hint]
      [] explicit = Unset /\ hint \in {Unset, Missing} /\ Len(library) = 1 ->
           [status |-> "selected", source |-> "project_script_library", text |-> library[1]]
      [] explicit = Unset /\ hint \in {Unset, Missing} /\ Len(library) > 1 ->
           [status |-> "needs_inputs", source |-> "ambiguous_job_script", text |-> Missing]
      [] OTHER ->
           [status |-> "generate", source |-> "simflow_generated", text |-> "plain"]

\* A template becomes a derived script; any other script is sent as it is.
Rendered(script, request) ==
    IF script.status # "selected" \/ ~request.render
       \/ script.text \notin {"template", "unknown_placeholder"}
    THEN [status |-> script.status, source |-> script.source, text |-> script.text,
          accelerated |-> script.text = "gpu", preserved |-> script.status = "selected"]
    ELSE IF script.text = "unknown_placeholder"
    THEN [status |-> "needs_inputs", source |-> "unknown_job_script_placeholders",
          text   |-> script.text, accelerated |-> FALSE, preserved |-> TRUE]
    ELSE [status |-> "rendered", source |-> "derived_from_template", text |-> "plain",
          accelerated |-> FALSE, preserved |-> FALSE]

-----------------------------------------------------------------------------
(* The evidence.                                                           *)

\* The files of the manifest; the restricted ones are not to be read.
Entries(manifest, restricted) ==
    manifest.listed \cup (IF restricted THEN manifest.restricted ELSE {})

TextOf(content) == IF content = Missing THEN Missing
                   ELSE IF "text" \in DOMAIN content THEN content.text ELSE "plain"

\* Every file must be there and hold something.
InputValidation(dir, manifest) ==
    LET named == Entries(manifest, TRUE)
        missing == {name \in named : dir[name] = Missing}
        empty == {name \in named : TextOf(dir[name]) = "empty"}
    IN  [missing |-> missing, empty |-> empty,
         status  |-> IF missing \cup empty = {} THEN "pass" ELSE "fail"]

\* Large requests are let through with a warning.
ResourceWarnings(resources) ==
    {w \in {"nodes", "tasks", "memory", "walltime"} :
        resources[w] > [nodes |-> 64, tasks |-> 2048, memory |-> 500, walltime |-> 168][w]}

ResourceEstimate(resources) == IF ResourceWarnings(resources) = {} THEN "pass" ELSE "warning"

\* The script and the files that are there, the restricted ones unread.
CredentialScan(dir, manifest, script) ==
    IF script = "secret"
       \/ \E name \in Entries(manifest, FALSE) : TextOf(dir[name]) = "secret"
    THEN "fail" ELSE "pass"

OverallStatus(statuses) == IF "fail" \in statuses THEN "fail"
                           ELSE IF "warning" \in statuses THEN "warning" ELSE "pass"

BuildReadiness(dir, manifest, script, resources) ==
    LET inputs == InputValidation(dir, manifest)
        estimate == ResourceEstimate(resources)
        scan == CredentialScan(dir, manifest, script)
    IN  [status      |-> OverallStatus({inputs.status, estimate, scan}),
         input_paths |-> Entries(manifest, TRUE),
         input_validation |-> inputs.status, resource_estimate |-> estimate,
         credential_scan |-> scan]

FailedReadinessChecks(readiness) ==
    {check \in {"input_validation", "resource_estimate", "credential_scan"} :
        readiness[check] = "fail"}

ReadyForApproval(readiness) ==
    readiness.status \in {"pass", "warning"} /\ FailedReadinessChecks(readiness) = {}
=============================================================================
