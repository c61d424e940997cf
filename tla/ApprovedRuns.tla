---------------------------- MODULE ApprovedRuns ----------------------------
(***************************************************************************)
(* What the HPC server promises of the runs of a project: a job is started *)
(* for a run plan only after a user approved that very plan, one call      *)
(* starts at most one job, a call is reported at most once, and a report   *)
(* that says the job was submitted is about a job that exists.             *)
(*                                                                         *)
(* HpcSubmit is shown to implement this (property Abstract).               *)
(***************************************************************************)
EXTENDS Naturals, Sequences

VARIABLES
    decisions,    \* approvals and rejections, in the order they were recorded
    jobs,         \* the jobs that were started
    records       \* the run records of submits

rvars == <<decisions, jobs, records>>

\* The oldest decision with the reference is an approval of the plan.
Allowed(ref, plan) ==
    \E i \in 1..Len(decisions) :
        /\ decisions[i].ref = ref
        /\ decisions[i].plan = plan
        /\ decisions[i].approved
        /\ \A j \in 1..(i - 1) : decisions[j].ref # ref

RunsInit ==
    /\ decisions = <<>>
    /\ jobs = {}
    /\ records = <<>>

Decide ==
    /\ Len(decisions') = Len(decisions) + 1
    /\ decisions' = Append(decisions, decisions'[Len(decisions')])
    /\ UNCHANGED <<jobs, records>>

Start ==
    /\ jobs \subseteq jobs'
    /\ \A j \in jobs' \ jobs :
        /\ Allowed(j.ref, j.plan)
        /\ \A k \in jobs' : k.attempt = j.attempt => k = j
    /\ UNCHANGED <<decisions, records>>

Report ==
    /\ Len(records') = Len(records) + 1
    /\ LET r == records'[Len(records')]
       IN  /\ records' = Append(records, r)
           /\ Allowed(r.ref, r.plan)
           /\ \A i \in 1..Len(records) : records[i].attempt # r.attempt
           /\ r.submitted => \E j \in jobs : j.attempt = r.attempt /\ j.plan = r.plan
    /\ UNCHANGED <<decisions, jobs>>

RunsNext == Decide \/ Start \/ Report

RunsSpec == RunsInit /\ [][RunsNext]_rvars
=============================================================================
