------------------------------ MODULE HpcSubmit ------------------------------
(***************************************************************************)
(* plan, approval and submit of the hpc server (mcp/servers/hpc/server.py, *)
(* run_plan.py, connectors/base.py, local.py and slurm.py, and             *)
(* runtime/simflow_helpers/computation/job_records.py), as several server  *)
(* processes, the user's editor and the host's approvals interleave.       *)
(*                                                                         *)
(* The script and the input files of a run are one thing, disk: one of     *)
(* Plans. The hash of a plan covers their content, so a plan is named by   *)
(* the content it was made from. planFile is reports/hpc/plans/<hash>.json *)
(* with the verdict it stores; "torn" is a file that is no JSON.           *)
(*                                                                         *)
(* Submission over SSH (transfers and the credential broker) and the       *)
(* research binding of a plan (RunBinding) are not part of this module. A  *)
(* plan can generate its script (prepare_script), where there is none, and *)
(* never writes over one: here it is on disk from the start. Two servers   *)
(* that generate the same missing script at once are left out.             *)
(***************************************************************************)
EXTENDS Naturals, Sequences

CONSTANTS
    Procs,          \* hpc server processes
    Plans,          \* contents of the script and inputs, and their plans
    Good,           \* the contents that dry_run and the credential scan pass
    Refs,           \* decision ids and approval tokens
    QuietEdits,     \* TRUE: files are edited only while no call is running
    MaxEdits, MaxPlans, MaxSubmits, MaxDecisions,   \* bounds: so many of each
    MaxCrashes      \* bound: processes that die during a call

ASSUME ConstAssumption ==
    /\ Good \subseteq Plans
    /\ Plans # {}
    /\ Refs # {}
    /\ QuietEdits \in BOOLEAN
    /\ {MaxEdits, MaxPlans, MaxSubmits, MaxDecisions, MaxCrashes} \subseteq Nat

Decision == [ref : Refs, approved : BOOLEAN, plan : Plans]
Job == [attempt : Nat, plan : Plans, ref : Refs, ran : Plans]
RunRecord == [attempt : Nat, plan : Plans, ref : Refs, submitted : BOOLEAN]

VARIABLES
    disk,           \* the content of the script and the inputs
    planFile,       \* what is stored under each hash
    decisions,      \* the approval records, in file order
    records,        \* the run records of operation "submit", in file order
    jobs,           \* history: what was handed to bash or to sbatch
    planned,        \* history: the answers of plan
    pc, req,        \* each process: where it is, and its call
    edits, plans, submits, crashes

files == <<disk, planFile, decisions, records>>
local == <<pc, req>>
bounds == <<edits, plans, submits, crashes>>
vars == <<files, jobs, planned, local, bounds>>

-----------------------------------------------------------------------------

\* _find_run_plan_approval: the first decision that carries the reference
\* counts, and it has to approve this hash.
Approved(ref, plan) ==
    \E i \in 1..Len(decisions) :
        /\ decisions[i].ref = ref
        /\ \A j \in 1..(i - 1) : decisions[j].ref # ref
        /\ decisions[i].approved
        /\ decisions[i].plan = plan

\* Mutant: the hash is not computed again.
CurrentAsStored(plan) == planFile[plan] = "ready"

\* validate_run_plan_current: the stored plan can be read, the hash computed
\* from the files of now is its own, and its stored verdict is good.
Current(plan) == planFile[plan] = "ready" /\ disk = plan

-----------------------------------------------------------------------------
Init ==
    /\ disk \in Plans
    /\ planFile = [h \in Plans |-> "none"]
    /\ decisions = <<>>
    /\ records = <<>>
    /\ jobs = {}
    /\ planned = {}
    /\ pc = [p \in Procs |-> "idle"]
    /\ req = [p \in Procs |->
        [plan |-> CHOOSE h \in Plans : TRUE, ref |-> CHOOSE r \in Refs : TRUE,
         attempt |-> 0, ok |-> FALSE]]
    /\ edits = 0
    /\ plans = 0
    /\ submits = 0
    /\ crashes = 0

Goto(p, at) == pc' = [pc EXCEPT ![p] = at]

Idle == \A p \in Procs : pc[p] = "idle"

\* The user edits the script or an input file, or takes an older one back.
Edit ==
    /\ edits < MaxEdits
    /\ QuietEdits => Idle
    /\ edits' = edits + 1
    /\ \E h \in Plans \ {disk} : disk' = h
    /\ UNCHANGED <<planFile, decisions, records, jobs, planned, local, plans, submits, crashes>>

\* The host records an approval or a rejection, with an id or a token that
\* calls can refer to.
RecordDecision ==
    /\ Len(decisions) < MaxDecisions
    /\ \E d \in Decision : decisions' = Append(decisions, d)
    /\ UNCHANGED <<disk, planFile, records, jobs, planned, local, bounds>>

-----------------------------------------------------------------------------
(* plan                                                                    *)

Plan(p) ==
    /\ pc[p] = "idle"
    /\ plans < MaxPlans
    /\ plans' = plans + 1
    /\ Goto(p, "dryrun")
    /\ UNCHANGED <<files, jobs, planned, req, edits, submits, crashes>>

\* connector.dry_run. Its verdict also depends on the manifest_path of the
\* call, which is no part of the plan.
DryRun(p) ==
    /\ pc[p] = "dryrun"
    /\ \E ok \in BOOLEAN :
        /\ ok => disk \in Good
        /\ req' = [req EXCEPT ![p].ok = ok]
    /\ Goto(p, "identity")
    /\ UNCHANGED <<files, jobs, planned, bounds>>

\* _build_identity hashes the files as they are now.
Identify(p) ==
    /\ pc[p] = "identity"
    /\ req' = [req EXCEPT ![p].plan = disk]
    /\ Goto(p, "exists")
    /\ UNCHANGED <<files, jobs, planned, bounds>>

\* handle_plan answers with the plan it has built, verdict included.
AnswerPlan(p) ==
    /\ planned' = planned \cup {[plan |-> req[p].plan, ready |-> req[p].ok]}
    /\ Goto(p, "idle")

\* A plan is stored under the hash already: it stays as it is.
PlanExists(p) ==
    /\ pc[p] = "exists"
    /\ planFile[req[p].plan] \in {"ready", "failed"}
    /\ AnswerPlan(p)
    /\ UNCHANGED <<files, jobs, req, bounds>>

\* What is stored there is no JSON: run_plan_invalid.
PlanBroken(p) ==
    /\ pc[p] = "exists"
    /\ planFile[req[p].plan] = "torn"
    /\ Goto(p, "idle")
    /\ UNCHANGED <<files, jobs, planned, req, bounds>>

PlanMissing(p) ==
    /\ pc[p] = "exists"
    /\ planFile[req[p].plan] = "none"
    /\ Goto(p, "open")
    /\ UNCHANGED <<files, jobs, planned, req, bounds>>

\* write_text empties the file ...
OpenPlan(p) ==
    /\ pc[p] = "open"
    /\ planFile' = [planFile EXCEPT ![req[p].plan] = "torn"]
    /\ Goto(p, "write")
    /\ UNCHANGED <<disk, decisions, records, jobs, planned, req, bounds>>

\* ... and writes the plan. Where another process has written its own to the
\* same file meanwhile, the two may differ in length, and the end of the longer
\* one stays.
WritePlan(p) ==
    /\ pc[p] = "write"
    /\ LET verdict == IF req[p].ok THEN "ready" ELSE "failed"
       IN  \E f \in {verdict} \cup (IF planFile[req[p].plan] = "torn" THEN {} ELSE {"torn"}) :
            planFile' = [planFile EXCEPT ![req[p].plan] = f]
    /\ AnswerPlan(p)
    /\ UNCHANGED <<disk, decisions, records, jobs, req, bounds>>

-----------------------------------------------------------------------------
(* submit                                                                  *)

Submit(p) ==
    /\ pc[p] = "idle"
    /\ submits < MaxSubmits
    /\ submits' = submits + 1
    /\ \E h \in Plans, r \in Refs :
        req' = [req EXCEPT ![p] = [plan |-> h, ref |-> r, attempt |-> submits', ok |-> FALSE]]
    /\ Goto(p, "validate")
    /\ UNCHANGED <<files, jobs, planned, edits, plans, crashes>>

Validate(p) ==
    /\ pc[p] = "validate"
    /\ Current(req[p].plan)
    /\ Goto(p, "approval")
    /\ UNCHANGED <<files, jobs, planned, req, bounds>>

FindApproval(p) ==
    /\ pc[p] = "approval"
    /\ Approved(req[p].ref, req[p].plan)
    /\ Goto(p, "connector")
    /\ UNCHANGED <<files, jobs, planned, req, bounds>>

\* run_plan_stale, run_plan_not_approved or run_plan_approval_mismatch: nothing
\* is recorded.
Refuse(p) ==
    /\ \/ pc[p] = "validate" /\ ~Current(req[p].plan)
       \/ pc[p] = "approval" /\ ~Approved(req[p].ref, req[p].plan)
    /\ Goto(p, "idle")
    /\ UNCHANGED <<files, jobs, planned, req, bounds>>

\* validate_submit_authorization, in the connector, asks all of it again.
Authorize(p) ==
    /\ pc[p] = "connector"
    /\ Current(req[p].plan)
    /\ Approved(req[p].ref, req[p].plan)
    /\ Goto(p, "launch")
    /\ UNCHANGED <<files, jobs, planned, req, bounds>>

\* The connector refuses: its answer is recorded as a failed attempt.
NotAuthorized(p) ==
    /\ pc[p] = "connector"
    /\ ~(Current(req[p].plan) /\ Approved(req[p].ref, req[p].plan))
    /\ Goto(p, "record")
    /\ UNCHANGED <<files, jobs, planned, req, bounds>>

\* Mutant: the handler gives up, where the outcome is not a success.
LaunchUnrecorded(p) ==
    /\ pc[p] = "launch"
    /\ jobs' = jobs \cup {[attempt |-> req[p].attempt, plan |-> req[p].plan,
                           ref |-> req[p].ref, ran |-> disk]}
    /\ \E ok \in BOOLEAN :
        /\ req' = [req EXCEPT ![p].ok = ok]
        /\ Goto(p, IF ok THEN "record" ELSE "idle")
    /\ UNCHANGED <<files, planned, bounds>>

\* bash, or sbatch, opens the script that is on disk now. The connector learns
\* that it was submitted, or it does not: sbatch times out or its answer cannot
\* be parsed; the local script fails or runs into the timeout.
Launch(p) ==
    /\ pc[p] = "launch"
    /\ jobs' = jobs \cup {[attempt |-> req[p].attempt, plan |-> req[p].plan,
                           ref |-> req[p].ref, ran |-> disk]}
    /\ \E ok \in BOOLEAN : req' = [req EXCEPT ![p].ok = ok]
    /\ Goto(p, "record")
    /\ UNCHANGED <<files, planned, bounds>>

\* Mutant: a refusal of the scheduler passes for a success.
LaunchFailsUnseen(p) ==
    /\ pc[p] = "launch"
    /\ req' = [req EXCEPT ![p].ok = TRUE]
    /\ Goto(p, "record")
    /\ UNCHANGED <<files, jobs, planned, bounds>>

\* Nothing is started: no sbatch, a non-zero answer of it, a failing dry_run.
LaunchFails(p) ==
    /\ pc[p] = "launch"
    /\ Goto(p, "record")
    /\ UNCHANGED <<files, jobs, planned, req, bounds>>

\* record_submit_job looks the approval up once more and appends one record.
\* A local job that succeeded is recorded as completed, any other success as
\* submitted.
RecordSubmit(p) ==
    /\ pc[p] = "record"
    /\ Approved(req[p].ref, req[p].plan)
    /\ records' = Append(records,
        [attempt |-> req[p].attempt, plan |-> req[p].plan, ref |-> req[p].ref,
         submitted |-> req[p].ok])
    /\ Goto(p, "idle")
    /\ UNCHANGED <<disk, planFile, decisions, jobs, planned, req, bounds>>

\* The server dies, or an exception ends the call.
Crash(p) ==
    /\ pc[p] # "idle"
    /\ crashes < MaxCrashes
    /\ crashes' = crashes + 1
    /\ Goto(p, "idle")
    /\ UNCHANGED <<files, jobs, planned, req, edits, plans, submits>>

-----------------------------------------------------------------------------
Handle(p) ==
    \/ DryRun(p) \/ Identify(p) \/ PlanExists(p) \/ PlanBroken(p) \/ PlanMissing(p)
    \/ OpenPlan(p) \/ WritePlan(p)
    \/ Validate(p) \/ FindApproval(p) \/ Refuse(p) \/ Authorize(p) \/ NotAuthorized(p)
    \/ Launch(p) \/ LaunchFails(p) \/ RecordSubmit(p)

\* No call is running and no more are made.
Rest ==
    /\ Idle
    /\ plans = MaxPlans
    /\ submits = MaxSubmits
    /\ UNCHANGED vars

Next ==
    \/ Edit
    \/ RecordDecision
    \/ \E p \in Procs : Plan(p) \/ Submit(p) \/ Handle(p) \/ Crash(p)
    \/ Rest

Spec == Init /\ [][Next]_vars

-----------------------------------------------------------------------------
(* Properties.                                                             *)

PCs == {"idle", "dryrun", "identity", "exists", "open", "write",
        "validate", "approval", "connector", "launch", "record"}

\* The type of every variable.
TypeOK ==
    /\ disk \in Plans
    /\ planFile \in [Plans -> {"none", "torn", "ready", "failed"}]
    /\ decisions \in Seq(Decision)
    /\ records \in Seq(RunRecord)
    /\ jobs \in SUBSET Job
    /\ planned \in SUBSET [plan : Plans, ready : BOOLEAN]
    /\ pc \in [Procs -> PCs]
    /\ req \in [Procs -> [plan : Plans, ref : Refs, attempt : Nat, ok : BOOLEAN]]
    /\ edits \in Nat /\ plans \in Nat /\ submits \in Nat /\ crashes \in Nat

\* The promise that submission is to keep.
Abstract == INSTANCE ApprovedRuns

\* Nothing is handed to a scheduler before the user has approved the plan, by
\* the reference the call gave and for this very hash, whatever rejections and
\* approvals of other plans come before, between or after.
JobsApproved == \A j \in jobs : Abstract!Allowed(j.ref, j.plan)

\* The third look at the approval, after the job was started, is never the one
\* that fails: no decision that comes in meanwhile takes the approval back, and
\* so none can leave the job without its record.
RecordNotRefused ==
    \A p \in Procs : pc[p] = "record" => Approved(req[p].ref, req[p].plan)

\* What runs is the content that was validated and approved under its hash:
\* edits between the calls make a plan stale.
JobRunsItsPlan == \A j \in jobs : j.ran = j.plan /\ j.plan \in Good

\* Until a server dies, whatever was started is on record, or the server that
\* started it is about to record it, whether or not it learned how that went.
JobsOnRecord ==
    crashes = 0 => \A j \in jobs :
        \/ \E p \in Procs : pc[p] = "record" /\ req[p].attempt = j.attempt
        \/ \E i \in 1..Len(records) : records[i].attempt = j.attempt

\* Submission implements the promise of ApprovedRuns: one call starts at most
\* one job and is reported at most once, and a job that is reported as
\* submitted exists.
AbstractRuns == Abstract!RunsSpec

\* The plan that a caller was told of is the plan that is stored: if it was
\* called ready to submit, the stored one is.
StoredAsAnswered ==
    Idle => \A a \in planned : planFile[a.plan] = IF a.ready THEN "ready" ELSE "failed"
=============================================================================
