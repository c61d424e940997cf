------------------------------ MODULE JobStatus ------------------------------
(***************************************************************************)
(* hpc/status for one job: handle_status of mcp/servers/hpc/server.py with *)
(* the lookups of run_bindings.py, and the status of the slurm, pbs and    *)
(* ssh connectors, as several server processes poll one job while it makes *)
(* progress.                                                               *)
(*                                                                         *)
(* A poll asks the place the job runs at, compares the answer with the     *)
(* last status on record, and appends a record if they differ: three       *)
(* points in time. What the answer can say depends on the place: pbs tells *)
(* every end as C, a process is alive or not, and an end may have no name  *)
(* that handle_status knows. A poll goes to the place of the submit.       *)
(* history is the status of every run record that names the job, in file   *)
(* order. record_event is called without an idempotency key and is one     *)
(* step here (RecordStore has its parts).                                  *)
(***************************************************************************)
EXTENDS Naturals, Sequences, FiniteSets

CONSTANTS
    Procs,           \* hpc server processes that poll the job
    Places,          \* where the job may run: a subset of AllPlaces
    MaxSilent,       \* bound: polls the place says nothing to
    MaxCrashes       \* bound: processes that die during a poll

\* A job of sbatch or of qsub on this host, of sbatch on a host that ssh
\* reaches, or a nohup process on such a host without slurm.
AllPlaces == {"slurm", "pbs", "ssh", "process"}

ASSUME ConstAssumption ==
    /\ IsFiniteSet(Procs)
    /\ Places \subseteq AllPlaces
    /\ MaxSilent \in Nat
    /\ MaxCrashes \in Nat

Ended == {"completed", "failed", "cancelled"}
Statuses == {"queued", "running"} \cup Ended   \* what _normalized_status can give

\* Where a job can be: "other" is an end without a status, of a scheduler that
\* says BOOT_FAIL, PREEMPTED, DEADLINE or CANCELLED by <uid>, or that has
\* forgotten the job.
Over == Ended \cup {"other"}
States == {"queued", "running"} \cup Over

VARIABLES
    via,           \* the place of the job
    job,           \* where the job is
    been,          \* history: where it has been
    history,       \* the statuses on record for the job
    pc, seen,      \* each process: where it is, and the answer it got
    crashes, silent

faults == <<crashes, silent>>
vars == <<via, job, been, history, pc, seen, faults>>

\* What the place can tell of a job. A job of pbs that is over has the state C,
\* a process is not there, however they ended.
Told(state) ==
    CASE state = "other" -> "none"
      [] state \in Ended /\ via \in {"pbs", "process"} -> "completed"
      [] OTHER -> state

-----------------------------------------------------------------------------
Init ==
    /\ via \in Places
    /\ job = IF via = "process" THEN "running" ELSE "queued"
    /\ been = {job}
    /\ history = <<>>
    /\ pc = [p \in Procs |-> "idle"]
    /\ seen = [p \in Procs |-> "none"]
    /\ crashes = 0
    /\ silent = 0

\* The job makes progress and ends; a job in a queue can end without having
\* run, and a scheduler gives up the name of an end.
Progress ==
    /\ \/ job = "queued" /\ job' \in {"running", "failed", "cancelled", "other"}
       \/ job = "running" /\ job' \in Ended
       \/ job \in {"running"} \cup Ended /\ via # "process" /\ job' = "other"
    /\ been' = been \cup {job'}
    /\ UNCHANGED <<via, history, pc, seen, faults>>

\* record_submit_job, in the server that has submitted the job: before that no
\* poll finds a plan for it.
RecordSubmit ==
    /\ history = <<>>
    /\ history' = <<"submitted">>
    /\ UNCHANGED <<via, job, been, pc, seen, faults>>

Observe(p, status) ==
    /\ pc[p] = "idle"
    /\ seen' = [seen EXCEPT ![p] = status]
    /\ pc' = [pc EXCEPT ![p] = "compare"]
    /\ UNCHANGED <<via, job, been, history, crashes>>

\* Mutant: COMPLETING counts as the end.
QueryAhead(p) ==
    /\ Observe(p, IF job = "running" THEN "completed" ELSE Told(job))
    /\ UNCHANGED silent

\* squeue, or sacct for a job that has left the queue; qstat; or kill -0.
Query(p) == Observe(p, Told(job)) /\ UNCHANGED silent

\* The place says nothing of the job, or ssh fails. The slurm and the pbs
\* connector answer so. The ssh connector asks kill -0 for a process with the
\* number of the job, and takes what is not "running", also the empty output
\* of an ssh that failed, for "completed".
Fallback ==
    CASE via = "ssh" -> {"running", "completed"}
      [] via = "process" -> {"completed"}
      [] OTHER -> {"none"}

QuerySilent(p) ==
    /\ silent < MaxSilent
    /\ silent' = silent + 1
    /\ \E status \in Fallback : Observe(p, status)

Latest == history[Len(history)]

\* The poll of p is over.
Return(p) ==
    /\ pc' = [pc EXCEPT ![p] = "idle"]
    /\ seen' = [seen EXCEPT ![p] = "none"]

\* The answer is no status, the job has no submit on record, or its last record
\* says the same. (So ends, too, a call that names another plan than the one on
\* record.)
NothingToRecord(p) ==
    /\ pc[p] = "compare"
    /\ seen[p] # "none" /\ history # <<>> => Latest = seen[p]
    /\ Return(p)
    /\ UNCHANGED <<via, job, been, history, faults>>

Changed(p) ==
    /\ pc[p] = "compare"
    /\ seen[p] # "none" /\ history # <<>> /\ Latest # seen[p]
    /\ pc' = [pc EXCEPT ![p] = "append"]
    /\ UNCHANGED <<via, job, been, history, seen, faults>>

\* Mutant: no record for a job that has ended.
RecordActiveOnly(p) ==
    /\ pc[p] = "append"
    /\ history' = IF seen[p] \in Ended THEN history ELSE Append(history, seen[p])
    /\ Return(p)
    /\ UNCHANGED <<via, job, been, faults>>

\* Mutant: the append is repeated, its answer being lost.
RecordRetried(p) ==
    /\ pc[p] = "append"
    /\ history' = history \o <<seen[p], seen[p]>>
    /\ Return(p)
    /\ UNCHANGED <<via, job, been, faults>>

RecordTransition(p) ==
    /\ pc[p] = "append"
    /\ history' = Append(history, seen[p])
    /\ Return(p)
    /\ UNCHANGED <<via, job, been, faults>>

\* The process dies, or an exception ends the poll.
Crash(p) ==
    /\ pc[p] # "idle"
    /\ crashes < MaxCrashes
    /\ crashes' = crashes + 1
    /\ Return(p)
    /\ UNCHANGED <<via, job, been, history, silent>>

Handle(p) == NothingToRecord(p) \/ Changed(p) \/ RecordTransition(p)

Next ==
    \/ Progress
    \/ RecordSubmit
    \/ \E p \in Procs : Query(p) \/ QuerySilent(p) \/ Handle(p) \/ Crash(p)

Spec == Init /\ [][Next]_vars

\* The submit is recorded, a server that runs finishes its poll, and the hosts
\* go on asking: each of them reaches the place again and again, whether or not
\* a poll of it gets no answer now and then.
FairSpec ==
    /\ Spec
    /\ WF_vars(RecordSubmit)
    /\ \A p \in Procs : WF_vars(Handle(p)) /\ WF_vars(Query(p))

-----------------------------------------------------------------------------
(* Properties.                                                             *)

\* The type of every variable.
TypeOK ==
    /\ via \in AllPlaces
    /\ job \in States
    /\ been \in SUBSET States
    /\ history \in Seq(Statuses \cup {"submitted"})
    /\ pc \in [Procs -> {"idle", "compare", "append"}]
    /\ seen \in [Procs -> Statuses \cup {"none"}]
    /\ crashes \in Nat /\ silent \in Nat

\* The ssh connector has answered for a place that had said nothing.
Guessed == via \in {"ssh", "process"} /\ silent > 0

\* A status on record is what the place told of a state the job has been in,
\* however late it is recorded, until the ssh connector guesses. Of a job of
\* slurm it is the state; "completed" of a job of pbs or of a process says only
\* that it is over.
RecordedWasTrue ==
    ~Guessed => \A i \in 1..Len(history) :
        history[i] = "submitted" \/ \E state \in been : history[i] = Told(state)

\* However many servers poll, after the first record of the end of a job each
\* of the others adds at most one record that says it is still active (the
\* summary then takes the run for active); a server alone adds none. Until the
\* ssh connector guesses.
FewRegressions ==
    ~Guessed => \A i \in 1..Len(history) :
        history[i] \in Ended =>
            Cardinality({k \in i..Len(history) : history[k] \notin Ended})
                < Cardinality(Procs)

\* An end that its place can tell, and does not give up before it is asked, is
\* known in the end and for good, whatever stale or guessed answers were
\* recorded in between. (An end without a name is never recorded.)
EndIsRecorded ==
    \A state \in Ended :
        <>[](job = state) => <>[](history # <<>> /\ Latest = Told(state))

\* "unfinished calculations are not recorded as completed"
\* (docs/workflow-layer-design.md): a job that is completed on record is over.
CompletedHasEnded ==
    (\E i \in 1..Len(history) : history[i] = "completed") => job \in Over
=============================================================================
