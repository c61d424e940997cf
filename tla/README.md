# SimFlow: a verification project

TLA+ models of SimFlow's project store, scientific notebook, HPC submission
path, state repair, stage workflow, evidence intake, input generation and
literature helpers, checked with TLC and proved with TLAPS for every value of the
constants.

SimFlow is a Python program that two MCP servers expose to coding agents. Each
server is an operating system process that handles its requests one after the
other over stdio. Nothing keeps a user from opening the same project in several
hosts or sessions: several `simflow_state` and `hpc` processes, and the helper
scripts that skills start, then share one `.simflow/` directory, and only `flock`
on two kinds of files stands between them. That is where the hard behaviour of
this program is, and where the models started.

## 1. Inventory

Every row of `PROJECT.json` "components" is one of these parts.

| part | state it keeps | operations | hard behaviour |
|---|---|---|---|
| record store, `runtime/simflow_core/records.py` | `records.jsonl`, `checkpoints/*.json`, a flock on the former | `record_event`, `create_recovery_checkpoint`, `recover_checkpoint` | several processes; idempotency keys; crash or OSError between file, record and summary; torn lines |
| project summary, `project_summary.py` | derived `project.json`, `experiments/index.md` | rebuild, staleness test, `inspect` | rebuilt outside every lock from files others are writing |
| experiment notebooks, `experiment_notebook.py` | `experiments/exp_*.md` | create, append, parse | one malformed entry makes a notebook, and every summary, unreadable; torn appends |
| run bindings, `run_bindings.py` | `run` records: plan, binding corrections | bind, look up | read the history, decide, append: not one critical section |
| run plans, `mcp/servers/hpc/run_plan.py` | `reports/hpc/plans/<hash>.json` | plan, validate against current files | the plan is content-addressed, scripts and scheduler change after it |
| HPC server, `mcp/servers/hpc/server.py`, `job_records.py` | none of its own, appends records | `plan`, `transfer`, `submit`, `status` | approvals, submits that time out, polls that race |
| connectors, `mcp/servers/hpc/connectors/` | local: job directories; else the scheduler | submit, status, cancel, tail | an answer that is late, lost or cannot be read |
| transfers, `mcp/servers/hpc/transfer.py` | manifests and reports | upload, download | files that change while a manifest is made; parts of files |
| credential broker, `broker.py`, `broker_server.py` | a Unix socket | one request, one answer | half-read requests, clients that give up, two brokers |
| legacy migration, `migration.py` | `reports/migration/`, a `migration` record | inspect, migrate | "already migrated" is tested outside the lock |
| legacy workflow state, `state.py` | `.simflow/state/*.json` | read and write of single files | read-modify-write without a lock |
| state repair, `repair.py` | rewrites `.simflow/state/*.json` | audit, repair, roll back | rules that feed one another; files that change meanwhile |
| legacy workflow stages, `simflow_helpers/stages/`, `legacy_workflow/` | `stages.json`, `workflow.json`, `verification.json`, artifacts, checkpoints, reports at fixed paths | execute a stage, run a pipeline | runs again over its own files; fails half way; is entered in the middle |
| final delivery, `simflow_helpers/delivery/`, `verification.py` | package, handoff, verification report | build, hand off, verify | three calls that read one another's files |
| stage evidence, `readiness.py`, `status.py`, `evidence_intake.py` | artifacts, lineage, stages | intake, readiness, status, handoff | judge and complete are two steps; three readers of one state |
| VASP inputs and compute planning, `simflow_helpers/engines/vasp_*.py`, `legacy_workflow/run_compute_stage.py` | a calculation directory, `input_manifest.json`, `compute_plan.json` | generate, plan | a licensed POTCAR that is linked into place; regeneration that fails half way |
| literature, `simflow_helpers/literature/`, `connectors/` | caches, evidence of papers | search, corpus search, check, enrich, snowball, full text | identities that join; retries; five budgets |
| gates, other verdicts | records of decisions | record, look up | none of their own: part of the modules above |
| MCP transport, `mcp/shared/` | handshake state, caches | read, dispatch, reply; retry; cache | sequential |
| other engines and parsers; skills, plugins, scripts | none | packaging, text formats, one-shot scripts | none |

How they interact. `simflow_state` calls the record store and the notebooks;
`hpc` calls run plans, bindings, transfers and connectors and appends to the
record store. Whoever appends rebuilds the summary afterwards, and a rebuild
parses every notebook, so a notebook that cannot be parsed is felt by everybody.
The HPC server never keeps a plan in memory: each call reads the plan file and
the record history again. Over SSH it talks to the broker through a socket, and
the broker alone has the credentials. The legacy stages call the input
generation, the compute planning and the delivery; the evidence intake registers
artifacts by the same functions; repair and migration change what all of these
have left in `.simflow/state`.

What makes each part correct:

* record store: a key is used once, what a caller was told of stays readable, a
  readable checkpoint record has a file, every call returns;
* summary: a summary that is called current tells what the sources tell;
* notebooks: entries are only added, a notebook that has entries can be read, a
  key names one entry, what was acknowledged is shown;
* run bindings: a plan and each correction are on record once, corrections chain
  back to the plan, answers name what is there;
* HPC server: nothing runs that was not approved as it stands, a job that was
  started is on record, a run that ended is never active again for long, and what is
  recorded of it is what its place told;
* transfers and broker: what is reported as verified was there, every call ends;
* migration: one report is recorded once, or by calls that overlap; repair: it
  restores or settles;
* stages: a completed stage lists what is on disk, a failed one explains itself,
  a verdict rests on evidence; deliveries tell the truth about the computation;
* evidence: completed means recorded, all reports agree, advice leads somewhere;
* inputs: no POTCAR of somebody else is touched, files that count belong together;
* literature: papers are apart, the corpus is kept, an uncut snowball is complete.

## 2. Modules

Each module models one component; each action names its line range in
`PROJECT.json` "map". Definitions that a comment calls "Mutant" are plausible
bugs of the definition that follows them: with the mutant in its place the
property it is paired with (`PROJECT.json` "mutants") is violated. No action
refers to them. `TypeOK` is the type invariant of a module whose state has a type of its own;
section 5 says where it is proved, and TLC has checked the others on the bounds of
their runs.

### The store

**RecordStore** (with `MCRecordStore`, `EventLog`, `RecordStore_proofs`).
`lines` and `open` are `records.jsonl`, a sequence of records in which `Torn`
stands for a line no reader can decode; `open` says that the last line has no
newline yet. `files` are the checkpoint files, `project` the derived summary with
the cursors it stored, `holder` the process inside `_store_lock`. A process goes
through `pc`: `lock` → `locked` (scan for the key, or take the offset and write
the checkpoint file) → `write` / `part` / `glued` → `fsync` → `rebuild` →
`cursors` → `save` → `idle`. Every file operation is a step, because another
process may run, or this one die, between any two. `req` is the record under way,
`snap` and `cursor` are what the rebuild has read. `EventLog` is the promise: an
append-only history without duplicate keys, and callers that are told only of
what is in it; `Log == INSTANCE EventLog WITH log <- lines`.

**Notebook** (with `MCNotebook`, `Notebook_proofs`). `present`, `headed`, `entries` and `open` are the
notebook files; `Parses` is the parser's set of rules for what makes a notebook
readable (first entry, attempts before what refers to them, keys once).
`create_experiment` is `check` → `open` → `lockNew` → `newLocked`, an append
`lock` → `locked` → `write`; both go on with `list` and `parse`, the summary
rebuild that parses every notebook and without which the caller gets an error,
although the entry is in the file. `CurrentExperiment`, `Selected` and `Shown`
are what `inspect_experiment_context` makes of the entries, with the newest
`MaxShown` of each type (ten in the code).

### Submission

**RunBinding** (with `MCRunBinding`, `Preparation_proofs`). `history` is the
sequence of run records that bind plans. A call reads the current binding
without a lock (`seen`), decides, appends with a key that is looked up inside the
lock (`AppendRecord`, `ReplayRecord`) and answers. It uses the store at the level
of `EventLog`: one atomic append that a used key turns into a replay.

**HpcSubmit** (with `MCHpcSubmit`, `ApprovedRuns`, `Services_proofs`). `disk` is the
content of script and inputs, `planFile` what is stored under each plan hash,
`decisions` the approvals and rejections, `records` the run records of submits,
`jobs` what was handed to bash, sbatch or qsub. `plan` is dry run → hash → existence →
open → write, `submit` is validation → approval → both again in the connector →
launch → record. Between any two steps a second server and the host's approvals
may come in; the user's editor comes in between calls. (With `QuietEdits = FALSE`
it comes in anywhere: all theorems but `SubmitRunsItsPlan` cover that too.) `ApprovedRuns` is the promise;
`Abstract == INSTANCE ApprovedRuns`. A plan call with `generate` first writes
a script where there is none, and refuses another one (`prepare_script`); the model
starts with the script that is there.

**JobStatus** (with `Records_proofs`). `via` is the place of one job (slurm or PBS on
this host, slurm or a process behind ssh), `job` where it is, "other" an end
without a name that `_normalized_status` knows, and `history` the statuses on record for
it. A poll asks, compares with the last record, and appends, in three steps. `Told`
is what a place can say of a job: PBS says C of every end, a process is there or not.
Where the place says nothing (`QuerySilent`), the ssh connector falls back to `kill -0` of a
process with the number of the job, whose output is "running", "completed", or empty
when ssh itself failed, which the connector takes for "completed": that is `Fallback`.

**RemoteRun** (with `MCRemoteRun`, `RemoteRun_proofs`). Upload, download and submit over SSH. A server
hashes, then sends one request after the other over the broker's socket and waits
30 s for each answer; a broker takes connections from its listen queue one by one,
reads the line, works through the files and answers, whether anybody still
listens or not. `local`, `remote` and `copy` are the files of the project, of the
remote directory and the fetched output; `past` remembers every content the
remote directory had. scp leaves a part of a file when it fails; ssh may launch a
job and lose the answer; servers and brokers die; a client may connect and never
send its line.

### State of a legacy project

**StateFiles** (with `RepairPlan`, `MCStateFiles`, `StateFiles_proofs`).
`RepairPlan` has the rules of `_plan` as operators on the content of the state
files: artifacts, lineage, registry and snapshots of checkpoints, stages,
`workflow.json`, `summary.json`; each rule has its confidence. `StateFiles` lets
processes update stages, repair and migrate, one file at a time: `update_stage`
reads, truncates and writes; `apply_state_repair` hashes, loads, plans, compares,
backs up, compares again, reads the previous contents, compares each file once
more and renames; after an error it rolls back in reverse order, and an error there
ends the rollback with some files as planned (`UndoFails`); `apply_migration` builds its
report, confirms, looks for an earlier record, writes the report and records.
None takes a lock.

**Workflow** (with `Delivery`, `MCWorkflow`, `Workflow_proofs`). `execute_stage` and `run_pipeline`
over the six canonical stages with their nine runners. `files` are the reports at
their fixed paths (which execution wrote each, with which status, from which
source), `arts` the artifact records in order, `stages`, `workflow`, `verdicts` and
`checkpoints` the state files. A runner loads its evidence and then writes and
registers its files part by part; an engine may answer that it waits, or with an
error; an exception or the end of the process may come at every step, and
`record_stage_failure` writes its bundle afterwards. `Delivery` has the claim map,
the handoff and the nine checks of the final verification.

**Evidence** (with `StageReadiness`, `FinalReports`, `MCEvidence`, `Records_proofs`). The intake of
evidence a user brings for computation and for analysis, entry by entry, with the
judgement, the completion and the checkpoint that follow; helper runs; executions
that leave a stage pending, waiting, failed or completed, with what their helpers made
and without that judgement (`ExecuteStage`, `RunHelpers`, `EndExecution`; `executed` are
the stages the executor was the last to set); the reproducibility manifest, the final handoff and the verification, each built in
steps from what is read then; a project that is initialised again. `StageReadiness`
has the blockers, the advice, the risks and the evidence graph that are answered,
`FinalReports` what the deliveries say of a plan and its approval. `Follow` is a
user who does what the advice says.

### Inputs and literature

**Calculation** (with `VaspInputs`, `Readiness`, `MCCalculation`, `Preparation_proofs`). One
calculation directory. A generation writes POSCAR, reads the species, finds or stages a
POTCAR, checks it, links it with `os.link`, checks what is there now, takes it back
if it no longer fits, writes INCAR with NBANDS and KPOINTS, and registers the
manifest. A request may name its electrons, its bands, ISPIN, a moment (a number, or one
per ion) and a noncollinear calculation, which `generate_vasp_inputs` passes on. `VaspInputs` has the species, setups, POTCAR order, NBANDS, NCORE/NPAR
and completeness rules, `Readiness` the script selection and the readiness
evidence of a compute plan.

**Literature** (with `Papers`, `MCLiterature`, `Services_proofs`). The five operations over four
providers, one request at a time with retries, caches, expiries and unreadable
replies; and what a reader does with a paper that was found (full text, evidence
of claims). `Papers` has identity, matching, merging, evidence states and answers. A paper is
the sequence of its observations: `Groups` sorts the observations into papers one at a
time, as `merge_paper_records` does, and `Paper` says what a group makes known.

### How they compose

`RecordStore` and `Notebook` have every step of the file
system. The HPC modules stand on them: they take an append as one step, which
`StoreImplementsLog` justifies, and each brings its own reads of the history,
because those are outside the lock in the code as well. `RemoteRun` takes plans
and approvals from `HpcSubmit` as granted. `StateFiles` takes `record_event` as one
step. `Workflow` extends `Delivery`, and `Evidence` uses it through
`FinalReports`: one set of rules for the deliveries, made by a pipeline there and by
separate calls here. `EventLog` and `ApprovedRuns` are implemented in the sense of
TLA+: every step of the detailed module is a step of the abstract one or leaves
its variables alone.

## 3. Runs

Eleven runs pass. Each asks a question of its own, under the faults the code
meets; `PROJECT.json` "runs" names the properties.

| run | question | distinct states |
|---|---|---|
| `RecordStore` | Two servers write events and checkpoints; one may die, one write and one rebuild may raise, or a write is cut short: are acknowledged records readable, retries answered alike, does recovery find its file, does every call return, is the store an `EventLog`? | 544611 |
| `Notebook` | Two servers create one experiment and append to it, with one crash, one cut-short and one raising write: does it stay readable, is what was acknowledged shown, are retries answered alike, does every call return? | 253670 |
| `RunBinding` | Two servers bind one plan to two experiments, one may die: is it recorded once, do corrections chain back, do answers name records? | 8475 |
| `HpcSubmit` | Two servers plan and submit two plans, edits, approvals and rejections come in between, one server dies: does only what was approved run, as it was approved, and is it on record? | 589165 |
| `JobStatus` | Two servers poll one job, before and after its submit is on record: on slurm, on PBS, over ssh, with a poll that gets no answer: is what is recorded what its place told, how often is an ended run active again, is the end known at last? | 477744 |
| `RemoteRun` | Two servers upload, submit and download through one broker: was what is reported as verified there, are jobs on record as they are, does every call end? | 603608 |
| `StateFiles` | Two processes update, repair and migrate three damaged projects: does a failed repair restore, or keep a backup when its rollback fails too, does a repair settle and give a whole recovery point, is a migration recorded once but by calls that overlap? | 1908756 |
| `Workflow` | Three calls of stages and pipelines with one fault: does a completed stage list what is on disk, does a failed one explain itself, does a verdict rest on evidence? | 659429 |
| `Evidence` | Two sessions record, execute, complete and deliver, while files vanish and plans change: has what an intake completed its evidence, is what passes truthful, do the reports agree, does the advice lead to readiness? | 160914 |
| `Calculation` | Two sessions generate VASP inputs into one directory: is nobody's POTCAR touched, no licensed copy left, do files that count belong together, are there enough bands? | 2671565 |
| `Literature` | Searches, checks, enrichments and snowballs over four providers: are papers apart, is the corpus kept, is an uncut snowball complete, does every call answer? | 65190 |

One run ends in a violation, a disagreement between the code and what it says
(`PROJECT.json` "findings"): **`EvidenceApproved`**. A real submit that was approved
fails the final verification as soon as there is a handoff:
`_check_compute_truth` prefers the handoff's compute truth, and the handoff leaves
out what the gate answered.

Other disagreements have a definition and no run; the runs are kept for what
holds. The first two of the table contradict a document. TLC finds each of these violated when it is put into the cfg of its module as
an `INVARIANT`, with the change in parentheses where there is one:

| definition | what happens instead |
|---|---|
| `StateFiles.RecordedOnce` | "Repeating the same confirmed hash is idempotent. Migration writes one report and one compact record" (`docs/mcp-tool-reference.md:83-85`). Two calls that overlap look for a record without a lock, find none, and both append one (`migration.py:285`). `RecordedOnceOrOverlap` is what is left of the promise. |
| `JobStatus.CompletedHasEnded` | "Unfinished calculations are not recorded as completed" (`docs/workflow-layer-design.md:46`). A job that runs or waits is, when squeue and sacct answer nothing over ssh: whatever the fallback does not answer with "running" counts as completed (`connectors/ssh.py:380`). |
| `RecordStore.FreshMeansCurrentAtRest` | `build_project_summary` hashes its sources after it has read them: a record appended in between is missing from `project.json`, and `project_summary_is_stale` answers False for good. For one server `FreshMeansCurrent` is proved (`StoreSoloFresh`). |
| `RecordStore.AckedAlwaysDurable` | The record after a cut-short line is glued to the fragment: the caller is told of it and no reader ever sees it. |
| `Notebook.RebuildableAtRest` | A server dies between `open("x")` and the write: an empty notebook stays, and no summary of the project can be rebuilt. |
| `RunBinding.ToldIsFound` (`MaxBinds = 5`) | Bound to A, B, A, B: the last correction has the key of the first and appends nothing. The caller is told B, lookups find A. |
| `HpcSubmit.StoredAsAnswered` | `plan` answers the verdict it has just computed and keeps the stored plan with another one. |
| `RemoteRun.VerifiedWasThere` (two `Brokers`, `MaxEdits = 4`) | Two brokers that run at once, which the next line makes possible, work on requests to one remote directory: an upload is verified over files that the other broker is replacing. Hence the assumption `OneServes` of its theorem; `JobsAsRecorded` does not need it. |
| `RemoteRun.RunningIsReachable` (two `Brokers`) | The broker whose bind fails unlinks the socket of the one that runs (`broker_server.py:156`), although its message is "refusing to replace it" (line 142). |
| `Workflow.ProposalNotSkipped` | A project without `metadata.current_stage` is modelled without a proposal, though it starts before it. |
| `Workflow.FiguresCiteWhatTheyShow` | Figures are drawn of the report on disk and cite the registered one. |
| `Workflow.SupportedIsRegistered` (`analysis_visualization` also in `MCSingle`) | The claim map says supported of a file that was not registered as complete. |
| `Evidence.CompleteHasEvidence` | The executor lets a stage wait (`executor.py:243`) or completes it (`executor.py:288`) without asking for its evidence, and a stage that waits counts for `status.py:344-354` as neither begun nor pending: the project status answers `workflow_complete`. |
| `Calculation.ChosenBandsAboveMoment` | NBANDS is chosen as a multiple of half the electrons, and only a number that was asked for is compared with the moment (`vasp_incar.py:295-305`): 160 electrons with a total MAGMOM of 140 get 144 bands and occupy 150. |
| `Calculation.ReadyPotcarFits` | A plan whose validation report says `potcar_element_order_mismatch` is ready for approval. |
| `Literature.CrossCheckedAgrees` | Papers joined by a shared weak identifier have two DOIs and count as cross-checked. |
| `Literature.EmptyMeansNone` | A reference whose request failed is left out silently, and the provider's answer counts as empty. |

A property that starts with `torn = 0`, `errors = 0`, `crashes = 0` or `~Guessed`
(of `JobStatus`: the ssh connector has not yet answered for a place that said
nothing) promises something until the first such fault, and the fault still
happens in the run that checks it; what the code loses after it is in the
table above or in the note of its hazard.

### Bounds

A race in this code has two actors: a reader outside the lock and a writer, or
two writers. Two processes have all of them; a third only repeats the role of one
of the others.

* `RecordStore`: one key is enough to have it used twice; `MaxRecords = 3` has a
  record before, during and after a fault; a crash, a raising write and a raising
  rebuild in any combination. The action constraint `TornAlone` makes a write that
  is cut short the first fault, and the crash or error that cuts it the last:
  most properties promise nothing after it. The proofs have no such bound.
* `Notebook`: one experiment, attempt and key, three calls, and `MaxShown = 3`, so
  that what is acknowledged is shown until there are more entries of its type. Selection among several
  experiments and an experiment that was reopened beside another are not exercised.
* `RunBinding`: four calls for a plan, a correction, a race between corrections, and
  a retry. `HpcSubmit`: two plans of which one is good, one reference with two
  decisions (both orders, same or another plan), two calls of each kind and an edit
  there and back. `JobStatus` needs no bound on polls: only a change is recorded, and
  the job changes three times at most; it is at one of the four places, and one poll
  gets no answer.
* `RemoteRun`: two servers, one broker, two plans over one remote directory, two
  calls, one edit, one fault; the remote directory has the output of an earlier job
  and none of its inputs. Two calls are enough for an upload and a submit, for two
  uploads that interleave with an edit, and for a download beside a job that writes.
  The constraint `FirstAtS1` names the server of the first call, the servers being
  alike.
* `StateFiles`: two calls, one crash, two errors (one may be in the replacement and one
  in its rollback), two thresholds (81 and 97, on both
  sides of most rules), and three projects: artifacts without a workflow and a
  success without a file; a failure after a success that its file calls partial; a
  checkpoint that waits for its job and one of another workflow.
* `Workflow`: three calls, one fault (a waiting answer, an error, an exception or a
  crash). Projects enter at literature review or at computation, the latter also by
  naming their own files; modeling and writing are called on their own,
  pipelines up to computation and up to writing. Two figures of which one gets a
  warning. Three calls allow a complete run, one that fails and one that repairs it.
* `Evidence`: two sessions, of which one serves the advised user; a contract of two
  and one keys. The starts of `MCEvidence` have each request, each helper and each execution
  once, at most one removal, decision, crash and edit, at most two
  re-initialisations and three deliveries. The executions wait at both stages, fail
  with an output, stay pending and complete. `RelatedIsReached` compares the evidence
  graph with walks, over all graphs of three artifacts.
* `Calculation`: two sessions at a time or one, two structures over the same elements
  in either order, two calls, two POTCAR files, one crash; a plain, an optics and a
  gw request with and without a library, of which some are spin-polarised with a
  moment, noncollinear with moments per ion, or name their electrons or bands. A user removes POTCAR, though not in the
  window between `samefile` and `unlink`.
* `Literature`: a circle of three papers and a preprint with a DOI of its own; one
  retry, one expiry, one fault, three marks of a reader. Fifteen requests, with a
  snowball for each of the five budgets.

For the properties in section 5 the proofs do away with all these bounds.

Symmetry is used only in runs without a temporal property, apart from
`HpcSubmit`, whose temporal property is a safety property (every step is a step
of `ApprovedRuns`) that does not tell processes apart.

`CHECK_DEADLOCK FALSE` stands in the runs whose calls are bounded and whose system
may then be idle for good: `RemoteRun`, `StateFiles`,
`Workflow`, `Evidence`, `EvidenceApproved` and `Calculation`.

### Fairness

`RecordStore` and `Notebook`: `WF(Step(p))` for every process. A server that is
not blocked is run by the operating system, its steps are local file operations,
and a flock is dropped when its holder dies. Calls are never forced to start, and
neither crashes nor raising writes are fair. Weak fairness is enough because a
process waits for one lock at a time and the calls are finitely many.

`JobStatus`: the server that has submitted the job records it, a server that has
asked the scheduler finishes its poll, and hosts keep polling and reach the place of
the job again and again, whatever silent polls are in between (`WF(Query(p))`). The last one is an assumption about the agent hosts
and not about the code, which has no poller of its own: without it nothing can be
promised. The job's own progress is not fair.

`RemoteRun`: `WF(Proceed(s))` for every server: it runs, and its clock does
(`client.settimeout`). Nothing is assumed of brokers, so that `CallsEnd` holds with
a dead one, and with one that waits for a line for ever.

`Evidence`: a session goes on with its call (`WF(Work(s))`), and the user of
`AdviceConverges` follows the advice on a stage he looks after whenever it is given
again and again (`SF`): other sessions may take the advice away for a while, and
the property is about such a user.

`Literature`: `WorkGoesOn`, weak fairness of the one process written without
`ENABLED`: its steps all change `op` and one is always possible while `op` is there.
Every request the code sends has a timeout.

The other runs state safety only.

## 4. Abstractions

* Records, entries and plans are what the properties tell apart: an id, a kind, a
  key, an offset; a type, an attempt, a key; the content that was hashed. Two
  contents with one hash do not occur.
* A line is one value. A line that is cut inside a multi-byte character, which
  makes every later read of the file raise `UnicodeDecodeError`, is not
  distinguished from one that is skipped.
* Without a lock (`LockWorks = FALSE`) appends still do not interleave inside a
  line; `TornNeedsLock` says so. `Notebook` assumes a lock that works: without it
  two appends in mode `r+` overwrite each other, a matter of bytes.
* `QuietEdits = TRUE`: the user edits files between calls. The code checks the hash
  last in `validate_submit_authorization` and then runs the path. An edit in that
  window is not noticed by design, and the hazard list says so.
* The first decision with a reference counts (`_find_run_plan_approval`); a later
  rejection with the same reference does not take an approval back. The model
  follows the code, and `RecordNotRefused` is true because of it.
* A server that dies after the launch leaves a job without a record:
  `JobsOnRecord` promises something only until then.
* A retried submit is a new attempt, as in `docs/hpc-integration.md:74`.
* `JobStatus`: an end without a name that `_normalized_status` knows (`CANCELLED by
  <uid>`, BOOT_FAIL, PREEMPTED, DEADLINE, a job the scheduler has forgotten) is the
  state "other" and is never recorded; `EndIsRecorded` promises the ends that have a
  name, and of PBS and of a process only that the job is over, since C and a missing
  process are "completed" whatever the end. Left out: jobs that are requeued, a process
  number that is used again (but for the guess over ssh), sacct that lags behind
  squeue, and polls through another connector than the submit's. A suspended or unknown
  job of PBS is a silent poll. A local job gives no id, so that no poll finds it.
* `HpcSubmit`: a plan call generates a script only where there is none at its path, and
  hashes afterwards what is there; the model begins with that.
* In `RecordStore` a rebuild that raises stands for a malformed notebook, and
  the stale notebook part of the summary is left to `Notebook`.
* `RemoteRun`: a plan is the content its files had; all plans name one remote
  directory. Requests a broker refuses for their size, user or form are answered
  like failures.
* `StateFiles`: the hash of a file is its content. The files only a repair writes
  are one file, `rest`: among themselves nobody can tell an order. Updates carry no
  further fields. The times are the numbers of the calls.
* `Workflow`: the content of a report is the execution that wrote it, its status and
  its source. Requirements a module cannot see broken (a compute truth or an
  approval that does not hold, which only a plan from outside has) are in `Evidence`.
* `Evidence`: evidence files are there or not; their content does not matter, apart
  from the compute plan's. An execution is its helpers' outputs and the status it ends
  with: the order of its writes is `Workflow`'s, and the artifacts of a failure report
  are among its outputs.
* `Calculation`: a file is written in one step. Electrons are counted in halves, and so
  are moments. The occupied bands are the code's own estimate, half the electrons also
  in a noncollinear calculation, where each band holds one.
* `Papers`: identifiers are values with a normal form, titles values with a
  similarity in percent, authors a last name with an initial.

### What the models show beside the properties

While these modules were written the following came up. No statement of the
repository was found to say otherwise, so that no property does.

* Stages: `run_writing_stage._modeling_summary` raises for a `planning_only` manifest
  without a validation. A dry run sets a completed stage back to pending while it
  reports `state_effect` "none". The handoff says "completed" while stages wait. A
  compute plan may cite the input manifest of an earlier execution
  (`run_compute_stage.py:50`). A pipeline that ends at computation makes two
  checkpoints, and one without a restart reference is diagnostic. The last entry
  of a completed writing stage in `verification.json` is "pending", and a pending
  entry never has its checkpoint. A project whose intake is between modeling and
  visualization cannot complete writing.
* Evidence: to initialise again keeps `workflow.json` and overwrites
  `metadata.json`; `metadata.current_stage` is never updated; a plan whose file is
  gone counts as a dry run and passes; evidence of a real submit may be recorded
  between judgement and completion; a rejection after an approval is ignored; the
  advice to repair lineage never clears its blocker; a completed computation moves
  `current_stage` back; a file that vanishes between validation and registration is
  registered without a checksum; two sessions overwrite one intake manifest.
* Remote runs: the manifest of a verified upload is never compared with the hashes
  of the plan; submit accepts any verified manifest of the plan however old; a
  download that was given up may overwrite the copy later; with nohup a launch
  succeeds although the remote script is missing.
* Calculations: KPOINTS is always a mesh, also for bands, and the validation report
  that says so does not keep the plan from being ready; a generation that raises at
  NBANDS leaves a new POTCAR beside an old INCAR; the hash of the manifest in the
  evidence is taken later than its content.
* Literature: one OpenAlex paper under two canonical ids is asked for twice; a
  second round with an equal limit is served from the cache and finds nothing new;
  local papers whose records contradict each other may be grouped otherwise when they
  are merged for the second time (section 5).

## 5. Theorems

| module | theorems | argument |
|---|---|---|
| `RecordStore_proofs` | `StoreTypeOK` | each action keeps the types |
| | `StoreUniqueKeys`, `StoreOffsets` | if the lock works (`LockWorks`): `LockedInv` |
| | `StoreAckedDurable`; `StoreRetryReturnsSame` (lock) | `DurableInv`, together with unique keys |
| | `StoreCheckpointHasFile`, `StoreRecoverNotDangling` | `FilesInv`, with or without a lock |
| | `StoreSoloFresh` | one process: `SoloInv` |
| | `StoreImplementsLog` | lock; until a write is cut short: step simulation under both invariants |
| `Services_proofs` | `SubmitTypeOK`, `SubmitJobsApproved`, `SubmitRecordNotRefused`, `SubmitJobsOnRecord` | `Inv` |
| | `SubmitRunsItsPlan` | quiet edits: `QuietInv` |
| | `SubmitImplementsRuns` | step simulation under `Inv` |
| | `LiteratureInvariant` | `LitInv` with `OpOK`, `CacheOK` |
| | `LiteraturePapersApart` | `GroupsOK`, which `AddRecord` keeps (`AddRecordKeeps`) |
| | `LiteratureUncutIsComplete` | `SnowInv` with `AllPending`, `Turned` |
| `Records_proofs` | `StatusTypeOK`, `StatusWasTrue` | `Inv` with `SeenInv` |
| | `StatusFewRegressions` | `FewInv` with `LateInv` |
| | `EvidenceTypes`, `EvidencePassIsTruthful` | `EvidenceTypeOK` with `TodoInv` |
| | `EvidenceCompleted`, `EvidenceReportsAgree` | `EvidenceInv` with `RecordedInv` |
| `Notebook_proofs` | `NotebookTypeOK`, `NotebookStaysReadable`, `NotebookRetryReturnsSame`, `NotebookAckedIsShown` | `Inv` with `LockInv` and `WholeInv` |
| `RemoteRun_proofs` | `RemoteTypeOK`, `RemoteJobsAsRecorded` | `Base` and `JobsInv` |
| | `RemoteVerifiedWasThere`, `RemoteOneBroker` | never two brokers that serve at once: `UploadInv` |
| `StateFiles_proofs` | `FilesRecordedOnceOrOverlap` | `MigrationInv` with `LookedInv`, `RecordsInv` |
| | `FilesFailedRepairRestores` | `RestoreInv` with `SeenInv`, `PreviousInv`, `TodoInv`; `KeptInv` for a rollback that fails |
| | `FilesTypeOK`, `FilesRepairSettles`, `FilesRecoveryPointIsWhole` | `FilesInv`, and that a repair of a repair changes nothing (`PlanAgain`) |
| `Preparation_proofs` | `BindingTypeOK`, `BindingRecordedOnce`, `BindingCorrects`, `BindingAnswers` | `BindingInv` with `BindingSeenInv`, `ReplyInv` |
| | `CalcTypeOK`, `CalcNoTempLeft`, `CalcOthersPotcarKept` | `Inv` with `FilesApart`, `TempsHeld` |
| | `CalcCurrentInputs` | sessions that follow each other: `SessionInv` with `Agreement` |
| | `CalcBandsAboveOccupied` | `BandsInv` with `DatasetsKnown`, and arithmetic |
| `Workflow_proofs` | `WorkflowInv`, `WorkflowTypeOK`, `WorkflowCompletedIsCurrent`, `WorkflowFailureIsExplained`, `WorkflowVerdictNeedsEvidence` | `Inv` with `Standing`, `FailingInv`, `StageInv` |

They hold for every set of processes, brokers, experiments, keys, plans, bindings,
references, artifacts, checkpoints and legacy projects, evidence contracts and requests,
structures, POTCAR datasets and generation requests, for all entry points and
targets of the workflow, and for all bounds, under the named assumptions of the
modules. Those say that the special values (`NoKey`, `NoProc`, `Torn`, `None`) are no
ordinary ones; that a legacy project has all its files, each of the shape its readers expect,
and that it has finitely many artifacts and checkpoints; that processes are finitely
many where they are counted (`JobStatus`); that there is a plan, a reference and an
experiment to speak of; and that a repair is called with a `min_confidence` above
0.8, as `_plan` demands (`repair.py:148`); that an intake is asked for with at least one
path (`evidence_intake.py` refuses it otherwise) and a helper run is of computation or
analysis, the two stages with an intake; that every dataset of a library and of a
user's POTCAR states its electrons, and that a readable POSCAR counts the atoms of
each species it names; and that providers and `.bib` files give lists of records, a
snowball gets a list of directions, and its budgets are integers.

Why the invariants are what they are.

* `UniqueKeys` is not inductive: a process at `write` is about to append a key,
  and nothing in the property says it is new. `WriterInv` says what a process
  knows there (its key is free, its offset is the length of the file) and what is
  left of that when a part of the line is written; `LockInv` says that no other
  process can change the file meanwhile. Uniqueness follows from the three
  together and only together.
* `AckedDurable` needs that a record is in the file from the write on
  (`DurableInv`, at `fsync`, `rebuild`, `cursors` and `save`). It does not need
  the lock: appends alone never remove a line.
* `CheckpointHasFile` follows the copies of the records: in the file, in
  `project.json`, in what each process has read. `FilesInv` says it of all of them,
  and that the file is there before the line is written.
* `RunBinding`: what a call has read without a lock may be out of date, but
  records never disappear and never change, so what was true of a past record
  stays true (`SeenInv`), and a correction that was decided on a stale read still
  corrects another binding than the one it names as its parent.
* `HpcSubmit`: decisions are only appended and the first one with a reference
  counts, hence an approval that was found stays (`ApprovedStays`). With attempts
  that belong to one process (`AttemptsInv`) there is at most one job and one record
  for each. Under quiet edits what is about to be launched is on disk as it was
  validated, and a plan file that is ready is of good content: files are hashed
  after the dry run, in the same call (`PlanInv`).
* `RecordedOnceOrOverlap`: what a lookup has read stays a prefix of the records,
  and none of it has the hash of the call (`LookedInv`); a record names how many
  records its lookup had read, never more than came before it (`RecordsInv`).
* `FewRegressions`: a poll that will record an active job after the end is one that
  asked before it. Each such record uses up one of them, and the process that
  recorded the end is not among them: the late records and the stale polls together
  are fewer than the processes (`LateInv`).
* `Notebook`: all that is promised rests on what an append knows between its parse
  and its write: the notebook is as it was parsed and the entry is valid and new
  there (`RequestInv`), because no other process holds the lock (`LockInv`). A file
  that is being created is the exception, since `open("x")` comes before the lock:
  it is empty and one process's own (`CreateInv`), and an append that takes the lock
  first refuses it. Ids of entries not yet written are nobody else's (`IdInv`), so
  that a key whose entry is found is answered with that entry. All of it but the
  lock ends with the first write that stops part-way (`WholeInv`).
* `JobsAsRecorded`: a submit is in one place at a time, with its server before it is
  sent, in one queue, in one broker or done, and there is a job only after (`OnceInv`);
  ids of calls are not used again (`FreshInv`); a call that was sent is known to its
  server, on record, or its server died (`KnownInv`); success is answered after the
  launch only (`OkInv`). A client that gives up changes none of this, and neither
  does the number of brokers.
* `VerifiedWasThere`: while a broker works on an upload's manifest, what it has found
  is a part of what the directory holds now (`ManifestInv`); from then on it is in
  `past` (`FoundInv`). The first needs that nobody else changes the inputs meanwhile.
  `OneServes` says so as a hypothesis on the behaviour, because the code does not
  ensure it (see the table in section 3), and `RemoteOneBroker` discharges it for
  one broker.
* `FailedRepairRestores`: from the plan on, a file that nobody else has written is
  as it was seen unless it was replaced (`SeenInv`); what is read again before the
  replacement is what was seen (`PreviousInv`); and every replaced file has its
  previous content in memory (`TodoInv`, which follows the order of the loop). A
  rollback may fail at any file and any number of errors may come: then each file is as
  it was or as planned (`HalfInv`), and the backup, which was compared before the first
  replacement, has what it was (`BackupInv`). The
  rules of `RepairPlan` do not enter: it holds whatever a plan changes.
* `RepairSettles` has two halves. That a repair which nobody disturbed leaves what it planned:
  the plan is the repair of what was seen (`MemInv`), and what it changes is replaced
  or still to be (`PlanInv`). And that the rules, each applied once, are idempotent,
  rule by rule: a repaired artifact, node, registry entry, snapshot, stage and
  workflow record is its own repair, and none of the later rules changes what an
  earlier one looks at (the times of checkpoints and whether they match a stage stay,
  hence the latest of them). The threshold of the second repair need not be that of the first, only no lower.
  `RecoveryPointIsWhole` reads the choice of the last success off the same rules.
* `Workflow`: the properties are about the ends of a call, the invariant about all its
  middles. `Standing(p)` says where a call is (part p of its stage is next) and what
  it has come to: exactly its own artifacts of this execution, one at least of each
  part before p, each the latest of its name with its file untouched (`Reached`). A
  part writes files of its own stage only, and a stage that runs is
  neither completed nor failed, so that nothing disturbs what other stages list
  (`StageKept`). `WritingInv` carries through the four parts of writing what the claim map
  cited, for the verdict of the last. `FailingInv` says the same of the three steps
  of a failure, and execution numbers tell its artifacts from older ones.
* `Evidence`: a session that is about to complete a stage has judged it before, and what
  it knows may be out of date: files vanish, decisions come and other sessions register in
  between. But artifact records are only appended (`ArtsEffect`), so that the evidence it
  has found is on record for good; `RecordedInv` says this of the sessions and of the
  completed stages together. Stages whose status the executor was the last to set are
  exempt: it asks for nothing of the kind (`CompleteHasEvidence` in section 3). That the reports agree uses the same invariant in one place:
  what the readiness answers of a stage and what the status answers of the project differ
  by the artifacts of writing, and those are deliveries, whose files stay and which name no
  parents. `PassIsTruthful` needs the types only, and that the approval `None`, which the
  handoff leaves out, is not the approval of a gate (`NothingAssumption`): a report that
  does not fail has found the truths of manifest and handoff alike and its real submit
  unapproved, hence there was none. Of the paths a gate's answer may show it looks for
  `/home/` only (`verification.py:403`), and the theorem says no more.
* `RecordedWasTrue`: an answer that a process holds is what the place told of a state the
  job has been in (`SeenInv`), and `been` only grows. It ends with the first guess of the
  ssh connector, after which nothing is promised (`CompletedHasEnded` in section 3).
* `OthersPotcarKept`: a session that unlinks POTCAR compares it before, with `samefile`, in
  another step. In between no session can put another file there, because `os.link` refuses
  a name that is taken; so the file is the session's own (`FilesApart`). The user is
  assumed not to remove POTCAR in that window. `NoTempLeft`: the temporary files are
  those of the sessions at the five places where one is held (`TempsHeld`), until a session
  is cut off.
* `CurrentInputsAgree`: `StepAgrees` says at each step of a generation which of the files
  already belong to the structure it read. It holds of sessions that follow each other
  only; that two at a time may mix their inputs is why the property says so.
* `BandsAboveOccupied`: a number that was asked for and is not above what the electrons
  and the moment occupy, or that comes with moments per ion in a spin-polarised run, is
  refused. The default is three or more above half the electrons and every factor makes
  it larger; nothing compares it with the moment (`ChosenBandsAboveMoment` in section 3).
  It needs that the electrons are a natural number, an induction
  over the species (`TotalNat`), and so that every POTCAR in the directory or on its way
  there has datasets that state theirs (`DatasetsKnown`).
* `PapersApart` holds whatever is merged: the groups a record matches become one, which
  takes over the identifiers of the first that knows each, so it has to be shown that
  what matches none of them does not match the result. It could through an identifier
  of one group that is kept apart from it by DOI or arXiv number only. Unless that keeps
  the result apart as well, the result has its number from an earlier group, which shares
  it and so has to differ in the number of the other kind, and so on: with two kinds this
  comes to a contradiction (`Merges`, `MergedApart`). Sorting and picking leave
  different papers (`Among`).
* `UncutIsComplete` is about the end of a snowball, the invariant about its middle: as
  long as nothing was cut and no budget is used up (`Uncut`), every paper an edge leads
  to is in the queue, at hand, or asked of every provider for every direction
  (`AllPending`), each at the depth of the edge that reached it first; and what the
  paper at hand was not asked for is the request under way or to come (`Turned`). A
  record of a result could break it at three places (a known paper, the limit of papers,
  the limit of edges), and each leaves a reason or an edge to a paper that was reached
  before. When the
  queue is empty and no paper at hand all was asked. That queries are spent with every
  result and never given back needs that results count a natural number, and so the
  types of requests, replies and caches (`Running`, `CacheOK`).

Each of the strengthenings was first checked by TLC as an invariant on the
bounds above and is then proved to be inductive.

What is only model-checked. Liveness (`CallsReturn` twice, `EndIsRecorded`,
`CallsEnd`, `AdviceConverges`, `CallsAnswer`): the prover handles neither `ENABLED` nor
fairness. And
`LocalPapersKept`, which is a property of the records of the run and not of all: the
observations of the local papers are merged again after they were sorted by paper, and
records with contradictory identifiers can be grouped otherwise the second time. Take
two records each of two papers that share a PubMed id only through the last of them,
which has an arXiv id other than the second paper's: in the order of arrival that id
keeps them apart, in the order by paper the first record of the second paper joins the
first before its own arXiv id is known, and its own paper is split. Every observation is
kept even so; they are no longer of one paper.

Folds are defined as recursive functions over the numbers up to a length (`Joined`,
`Groups`, `ReachAll`), since the provers cannot expand the recursive definitions of
the community modules. What holds at each number follows from the well-founded order of
the numbers (`AllNaturals` in `Services_proofs`, `TotalNat` in `Preparation_proofs`), and
over finite sets from that of the subsets (`Maximum` in `Notebook_proofs` and
`StateFiles_proofs`, `HasLast` in `Workflow_proofs`).

## 6. Not modelled, and the plan

Done, in this order: `RecordStore` and `EventLog`, `Notebook`, `RunBinding`,
`HpcSubmit` and `ApprovedRuns`, `JobStatus`; then `StateFiles` and `RepairPlan`,
`RemoteRun`, `Workflow` and `Delivery`, `Calculation`, `Literature`, `Evidence`.

Then the proofs: the store, bindings, submission and job status, migration and
rollback; the notebooks, remote runs, the rules of repair, and the workflow.

Then the inputs, the evidence and the literature. Of the safety properties that the runs
check, `LocalPapersKept` is the one without a proof.

Left out, by part:

* cancel and tail, which change nothing in the project, and the generation of a job
  script in the planning call;
* path resolution, `init_workflow` (it is done before), `restore_checkpoint`, which
  only reads, and keyword fields of `update_stage`;
* the inputs of the other engines (CP2K, LAMMPS, GPUMD and so on) and the parsers of
  outputs: text formats in one process, which unit tests reach;
* the mock connector, the text formats of providers, the anonymous metrics;
* redaction and tables of the reports; resource estimates and the text of job
  scripts;
* read-only verdicts over one file, helpers without state, credentials lookups and
  message formats;
* the MCP transport: a sequential loop over standard input. What matters of it for
  the rest, that a server handles one request at a time, is what `pc` says in
  every module;
* skills, host plugins, packaging and the one-shot scripts.

## 7. Running

    tlc -workers 2 -config RecordStore.cfg MCRecordStore
    tlapm RecordStore_proofs.tla

`PROJECT.json` "runs" names the module and the configuration of each run. The
longest take two to three minutes with two workers.
