--------------------------- MODULE Services_proofs ---------------------------
(***************************************************************************)
(* Proofs about the two parts of SimFlow that serve its tools: HpcSubmit,  *)
(* for any number of servers, plans, references, edits, decisions and      *)
(* crashes, and Literature, for any content of the providers, any requests *)
(* and any failures.                                                       *)
(*                                                                         *)
(* A submit is approved from its look at the approval on, because          *)
(* decisions are only appended (ApprovedInv), and its attempt is its own   *)
(* (AttemptsInv), with no job before it launches (JobsInv).                *)
(*                                                                         *)
(* The papers of a search are groups of observations of which no two match *)
(* (GroupsOK), which adding an observation keeps.  A snowball that was not *)
(* cut has every paper it reached in its queue, at hand, or asked of every *)
(* provider (AllPending), and what the paper at hand was not asked for is  *)
(* still to be asked (Turned): so when the queue is empty all was asked.   *)
(***************************************************************************)
EXTENDS HpcSubmit, Literature, SequenceTheorems, WellFoundedInduction, TLAPS

(* HpcSubmit: submits, plans and jobs.                                     *)

\* Where a process is inside a submit.
SubmitPCs == {"validate", "approval", "connector", "launch", "record"}

\* Past its look at the approval a submit is approved, and stays so: decisions
\* are only appended, and the first with a reference counts.
ApprovedInv ==
    \A p \in Procs : pc[p] \in {"connector", "launch", "record"} =>
        Approved(req[p].ref, req[p].plan)

\* Every submit has an attempt of its own ...
AttemptsInv ==
    /\ \A p \in Procs : pc[p] \in SubmitPCs => req[p].attempt <= submits
    /\ \A p, q \in Procs :
        /\ pc[p] \in SubmitPCs /\ pc[q] \in SubmitPCs
        /\ req[p].attempt = req[q].attempt
        => p = q

\* ... that has no job before it launches, and no record before it is done.
JobsInv ==
    /\ \A j \in jobs : j.attempt <= submits
    /\ \A j \in jobs, p \in Procs :
        pc[p] \in SubmitPCs \ {"record"} => j.attempt # req[p].attempt

RecordsInv ==
    /\ \A i \in 1..Len(records) : records[i].attempt <= submits
    /\ \A i \in 1..Len(records), p \in Procs :
        pc[p] \in SubmitPCs => records[i].attempt # req[p].attempt

\* What is about to be recorded as submitted was started.
OkInv ==
    \A p \in Procs :
        /\ pc[p] \in SubmitPCs \ {"record"} => ~req[p].ok
        /\ pc[p] = "record" /\ req[p].ok =>
            \E j \in jobs : j.attempt = req[p].attempt /\ j.plan = req[p].plan

Inv ==
    /\ TypeOK
    /\ ApprovedInv
    /\ AttemptsInv
    /\ JobsInv
    /\ RecordsInv
    /\ OkInv
    /\ JobsApproved
    /\ JobsOnRecord

-----------------------------------------------------------------------------
(* The handlers, by what they touch.                                       *)

PlanStep(p) ==
    \/ Plan(p) \/ DryRun(p) \/ Identify(p) \/ PlanExists(p) \/ PlanBroken(p)
    \/ PlanMissing(p) \/ OpenPlan(p) \/ WritePlan(p)

\* Steps of a submit that only move on, or back to idle.
PassStep(p) ==
    \/ Validate(p) \/ FindApproval(p) \/ Refuse(p) \/ Authorize(p) \/ NotAuthorized(p)
    \/ LaunchFails(p)

\* A plan call is no submit, and touches neither approvals nor runs.
LEMMA PlanStepOnly ==
    ASSUME TypeOK, NEW p \in Procs, PlanStep(p)
    PROVE  /\ UNCHANGED <<disk, decisions, records, jobs, submits, crashes>>
           /\ pc[p] \notin SubmitPCs
           /\ pc'[p] \notin SubmitPCs
           /\ \A q \in Procs : q # p => pc'[q] = pc[q] /\ req'[q] = req[q]
  <1> USE DEF SubmitPCs, Goto
  <1>1. pc \in [Procs -> PCs] /\ DOMAIN req = Procs
    BY DEF TypeOK
  <1>2. CASE Plan(p)
    BY <1>1, <1>2 DEF Plan, files
  <1>3. CASE DryRun(p)
    BY <1>1, <1>3 DEF DryRun, files, bounds
  <1>4. CASE Identify(p)
    BY <1>1, <1>4 DEF Identify, files, bounds
  <1>5. CASE PlanExists(p)
    BY <1>1, <1>5 DEF PlanExists, AnswerPlan, files, bounds
  <1>6. CASE PlanBroken(p)
    BY <1>1, <1>6 DEF PlanBroken, files, bounds
  <1>7. CASE PlanMissing(p)
    BY <1>1, <1>7 DEF PlanMissing, files, bounds
  <1>8. CASE OpenPlan(p)
    BY <1>1, <1>8 DEF OpenPlan, bounds
  <1>9. CASE WritePlan(p)
    BY <1>1, <1>9 DEF WritePlan, AnswerPlan, bounds
  <1> QED BY <1>2, <1>3, <1>4, <1>5, <1>6, <1>7, <1>8, <1>9 DEF PlanStep

\* A submit that moves on changes nothing but where it is; it comes to its
\* connector or past it only when it is approved.
LEMMA PassStepOnly ==
    ASSUME TypeOK, NEW p \in Procs, PassStep(p)
    PROVE  /\ UNCHANGED <<files, jobs, req, submits, crashes>>
           /\ pc[p] \in SubmitPCs \ {"record"}
           /\ pc'[p] \in SubmitPCs \cup {"idle"}
           /\ \A q \in Procs : q # p => pc'[q] = pc[q]
           /\ pc'[p] = "idle" \/ (pc'[p] = "approval" /\ pc[p] = "validate")
              \/ pc[p] \in {"connector", "launch"} \/ Approved(req[p].ref, req[p].plan)
           /\ pc'[p] = "launch" => Current(req[p].plan)
  <1> USE DEF SubmitPCs, Goto
  <1>1. pc \in [Procs -> PCs]
    BY DEF TypeOK
  <1>2. CASE Validate(p)
    BY <1>1, <1>2 DEF Validate, bounds
  <1>3. CASE FindApproval(p)
    BY <1>1, <1>3 DEF FindApproval, bounds
  <1>4. CASE Refuse(p)
    BY <1>1, <1>4 DEF Refuse, bounds
  <1>5. CASE Authorize(p)
    BY <1>1, <1>5 DEF Authorize, bounds
  <1>6. CASE NotAuthorized(p)
    BY <1>1, <1>6 DEF NotAuthorized, bounds
  <1>7. CASE LaunchFails(p)
    BY <1>1, <1>7 DEF LaunchFails, bounds
  <1> QED BY <1>2, <1>3, <1>4, <1>5, <1>6, <1>7 DEF PassStep

\* Every step is one of these.
LEMMA NextCases ==
    ASSUME [Next]_vars
    PROVE  \/ Edit
           \/ RecordDecision
           \/ \E p \in Procs : PlanStep(p)
           \/ \E p \in Procs : PassStep(p)
           \/ \E p \in Procs : Submit(p)
           \/ \E p \in Procs : Launch(p)
           \/ \E p \in Procs : RecordSubmit(p)
           \/ \E p \in Procs : Crash(p)
           \/ UNCHANGED vars
  BY DEF Next, Handle, PlanStep, PassStep, Rest
-----------------------------------------------------------------------------
(* The approval.                                                           *)

\* What the code looks up is what ApprovedRuns asks for.
LEMMA ApprovedIsAllowed ==
    \A ref \in Refs, plan \in Plans : Approved(ref, plan) <=> Abstract!Allowed(ref, plan)
  BY DEF Approved, Abstract!Allowed

\* No decision that comes in later takes an approval back.
LEMMA ApprovedStays ==
    ASSUME TypeOK, NEW d \in Decision, decisions' = Append(decisions, d),
           NEW ref \in Refs, NEW plan \in Plans, Approved(ref, plan)
    PROVE  Approved(ref, plan)'
  <1>1. decisions \in Seq(Decision)
    BY DEF TypeOK
  <1>2. /\ Len(decisions') = Len(decisions) + 1
        /\ \A i \in 1..Len(decisions) : decisions'[i] = decisions[i]
    BY <1>1
  <1>3. PICK i \in 1..Len(decisions) :
          /\ decisions[i].ref = ref
          /\ \A j \in 1..(i - 1) : decisions[j].ref # ref
          /\ decisions[i].approved
          /\ decisions[i].plan = plan
    BY DEF Approved
  <1>4. /\ i \in 1..Len(decisions')
        /\ 1..(i - 1) \subseteq 1..Len(decisions)
    BY <1>1, <1>2
  <1>5. /\ decisions'[i] = decisions[i]
        /\ \A j \in 1..(i - 1) : decisions'[j] = decisions[j]
    BY <1>2, <1>4
  <1> QED BY <1>3, <1>4, <1>5 DEF Approved

-----------------------------------------------------------------------------
(* Types.                                                                  *)

\* The initial state satisfies the invariant.
LEMMA InitInv == Init => Inv
  <1> SUFFICES ASSUME Init PROVE Inv
    OBVIOUS
  <1>1. /\ (CHOOSE h \in Plans : TRUE) \in Plans
        /\ (CHOOSE r \in Refs : TRUE) \in Refs
    BY ConstAssumption
  <1>2. TypeOK
    BY <1>1 DEF Init, TypeOK, PCs
  <1>3. ApprovedInv /\ AttemptsInv /\ JobsInv /\ RecordsInv /\ OkInv
    BY DEF Init, ApprovedInv, AttemptsInv, JobsInv, RecordsInv, OkInv, SubmitPCs
  <1>4. JobsApproved /\ JobsOnRecord
    BY DEF Init, JobsApproved, JobsOnRecord
  <1> QED BY <1>2, <1>3, <1>4 DEF Inv

\* The request of one process is replaced by another of its type.
LEMMA ReqType ==
    ASSUME TypeOK, NEW p \in Procs, NEW h \in Plans, NEW r \in Refs, NEW a \in Nat, NEW ok \in BOOLEAN,
           req' = [req EXCEPT ![p] = [plan |-> h, ref |-> r, attempt |-> a, ok |-> ok]]
    PROVE  req' \in [Procs -> [plan : Plans, ref : Refs, attempt : Nat, ok : BOOLEAN]]
  BY DEF TypeOK

\* One field of a request is replaced.
LEMMA CallField ==
    ASSUME NEW S, NEW T, NEW r \in [plan : S, ref : T, attempt : Nat, ok : BOOLEAN]
    PROVE  /\ \A ok \in BOOLEAN : [r EXCEPT !.ok = ok] \in [plan : S, ref : T, attempt : Nat, ok : BOOLEAN]
           /\ \A h \in S : [r EXCEPT !.plan = h] \in [plan : S, ref : T, attempt : Nat, ok : BOOLEAN]
  OBVIOUS

LEMMA ReqField ==
    ASSUME TypeOK, NEW p \in Procs
    PROVE  /\ \A ok \in BOOLEAN :
                req' = [req EXCEPT ![p].ok = ok] =>
                req' \in [Procs -> [plan : Plans, ref : Refs, attempt : Nat, ok : BOOLEAN]]
           /\ \A h \in Plans :
                req' = [req EXCEPT ![p].plan = h] =>
                req' \in [Procs -> [plan : Plans, ref : Refs, attempt : Nat, ok : BOOLEAN]]
  <1>1. req \in [Procs -> [plan : Plans, ref : Refs, attempt : Nat, ok : BOOLEAN]]
    BY DEF TypeOK
  <1>2. /\ \A ok \in BOOLEAN :
             [req[p] EXCEPT !.ok = ok] \in [plan : Plans, ref : Refs, attempt : Nat, ok : BOOLEAN]
        /\ \A h \in Plans :
             [req[p] EXCEPT !.plan = h] \in [plan : Plans, ref : Refs, attempt : Nat, ok : BOOLEAN]
    BY <1>1, CallField
  <1> QED BY <1>1, <1>2

\* The fields of a request.
LEMMA ReqFields ==
    ASSUME TypeOK, NEW p \in Procs
    PROVE  req[p].plan \in Plans /\ req[p].ref \in Refs /\ req[p].attempt \in Nat /\ req[p].ok \in BOOLEAN
  BY DEF TypeOK

\* No step takes a variable out of its type.
LEMMA NextType == TypeOK /\ [Next]_vars => TypeOK'
  <1> SUFFICES ASSUME TypeOK, [Next]_vars PROVE TypeOK'
    OBVIOUS
  <1> DEFINE Others == /\ disk' \in Plans
                       /\ planFile' \in [Plans -> {"none", "torn", "ready", "failed"}]
                       /\ decisions' \in Seq(Decision)
                       /\ records' \in Seq(RunRecord)
                       /\ jobs' \in SUBSET Job
                       /\ planned' \in SUBSET [plan : Plans, ready : BOOLEAN]
             Local  == /\ pc' \in [Procs -> PCs]
                       /\ req' \in [Procs -> [plan : Plans, ref : Refs, attempt : Nat, ok : BOOLEAN]]
             Counts == edits' \in Nat /\ plans' \in Nat /\ submits' \in Nat /\ crashes' \in Nat
  <1>0. Others /\ Local /\ Counts => TypeOK'
    BY DEF TypeOK
  <1> HIDE DEF Others, Local, Counts
  <1>1. ASSUME NEW p \in Procs, NEW at \in PCs, Goto(p, at) PROVE pc' \in [Procs -> PCs]
    BY <1>1 DEF Goto, TypeOK
  <1> USE DEF PCs, files, bounds, local
  <1>2. CASE Edit
    BY <1>0, <1>2 DEF Edit, TypeOK, Others, Local, Counts
  <1>3. CASE RecordDecision
    <2>1. decisions' \in Seq(Decision)
      BY <1>3 DEF RecordDecision, TypeOK
    <2> QED BY <1>0, <1>3, <2>1 DEF RecordDecision, TypeOK, Others, Local, Counts
  <1>4. ASSUME NEW p \in Procs, Plan(p) PROVE TypeOK'
    BY <1>0, <1>1, <1>4 DEF Plan, TypeOK, Others, Local, Counts
  <1>5. ASSUME NEW p \in Procs, DryRun(p) PROVE TypeOK'
    <2>1. req' \in [Procs -> [plan : Plans, ref : Refs, attempt : Nat, ok : BOOLEAN]]
      BY <1>5, ReqField DEF DryRun
    <2> QED BY <1>0, <1>1, <1>5, <2>1 DEF DryRun, TypeOK, Others, Local, Counts
  <1>6. ASSUME NEW p \in Procs, Identify(p) PROVE TypeOK'
    <2>1. disk \in Plans
      BY DEF TypeOK
    <2>2. req' \in [Procs -> [plan : Plans, ref : Refs, attempt : Nat, ok : BOOLEAN]]
      BY <1>6, <2>1, ReqField DEF Identify
    <2> QED BY <1>0, <1>1, <1>6, <2>2 DEF Identify, TypeOK, Others, Local, Counts
  <1>7. ASSUME NEW p \in Procs, AnswerPlan(p)
        PROVE  planned' \in SUBSET [plan : Plans, ready : BOOLEAN] /\ pc' \in [Procs -> PCs]
    <2>1. planned' = planned \cup {[plan |-> req[p].plan, ready |-> req[p].ok]}
      BY <1>7 DEF AnswerPlan
    <2>2. [plan |-> req[p].plan, ready |-> req[p].ok] \in [plan : Plans, ready : BOOLEAN]
      BY ReqFields
    <2> QED BY <1>1, <1>7, <2>1, <2>2 DEF AnswerPlan, TypeOK
  <1>8. ASSUME NEW p \in Procs, PlanExists(p) PROVE TypeOK'
    BY <1>0, <1>7, <1>8 DEF PlanExists, TypeOK, Others, Local, Counts
  <1>9. ASSUME NEW p \in Procs, PlanBroken(p) PROVE TypeOK'
    BY <1>0, <1>1, <1>9 DEF PlanBroken, TypeOK, Others, Local, Counts
  <1>10. ASSUME NEW p \in Procs, PlanMissing(p) PROVE TypeOK'
    BY <1>0, <1>1, <1>10 DEF PlanMissing, TypeOK, Others, Local, Counts
  <1>11. ASSUME NEW p \in Procs, OpenPlan(p) PROVE TypeOK'
    BY <1>0, <1>1, <1>11 DEF OpenPlan, TypeOK, Others, Local, Counts
  <1>12. ASSUME NEW p \in Procs, WritePlan(p) PROVE TypeOK'
    <2>1. planFile' \in [Plans -> {"none", "torn", "ready", "failed"}]
      BY <1>12 DEF WritePlan, TypeOK
    <2> QED BY <1>0, <1>7, <1>12, <2>1 DEF WritePlan, TypeOK, Others, Local, Counts
  <1>13. ASSUME NEW p \in Procs, PassStep(p) PROVE TypeOK'
    <2>1. pc' \in [Procs -> PCs]
      BY <1>1, <1>13
         DEF PassStep, Validate, FindApproval, Refuse, Authorize, NotAuthorized, LaunchFails
    <2>2. UNCHANGED <<disk, planFile, decisions, records, jobs, planned, req, edits, plans, submits, crashes>>
      BY <1>13 DEF PassStep, Validate, FindApproval, Refuse, Authorize, NotAuthorized, LaunchFails
    <2> QED BY <1>0, <2>1, <2>2 DEF TypeOK, Others, Local, Counts
  <1>14. ASSUME NEW p \in Procs, Submit(p) PROVE TypeOK'
    <2>1. submits' \in Nat
      BY <1>14 DEF Submit, TypeOK
    <2>2. PICK h \in Plans, r \in Refs :
            req' = [req EXCEPT ![p] = [plan |-> h, ref |-> r, attempt |-> submits', ok |-> FALSE]]
      BY <1>14 DEF Submit
    <2>3. req' \in [Procs -> [plan : Plans, ref : Refs, attempt : Nat, ok : BOOLEAN]]
      BY <2>1, <2>2, ReqType
    <2> QED BY <1>0, <1>1, <1>14, <2>1, <2>3 DEF Submit, TypeOK, Others, Local, Counts
  <1>15. ASSUME NEW p \in Procs, Launch(p) PROVE TypeOK'
    <2>1. req' \in [Procs -> [plan : Plans, ref : Refs, attempt : Nat, ok : BOOLEAN]]
      BY <1>15, ReqField DEF Launch
    <2>2. disk \in Plans
      BY DEF TypeOK
    <2>3. [attempt |-> req[p].attempt, plan |-> req[p].plan, ref |-> req[p].ref, ran |-> disk] \in Job
      BY <2>2, ReqFields DEF Job
    <2>4. jobs' \in SUBSET Job
      BY <1>15, <2>3 DEF Launch, TypeOK
    <2> QED BY <1>0, <1>1, <1>15, <2>1, <2>4 DEF Launch, TypeOK, Others, Local, Counts
  <1>16. ASSUME NEW p \in Procs, RecordSubmit(p) PROVE TypeOK'
    <2>1. [attempt |-> req[p].attempt, plan |-> req[p].plan, ref |-> req[p].ref,
           submitted |-> req[p].ok] \in RunRecord
      BY ReqFields DEF RunRecord
    <2>2. records' \in Seq(RunRecord)
      BY <1>16, <2>1 DEF RecordSubmit, TypeOK
    <2> QED BY <1>0, <1>1, <1>16, <2>2 DEF RecordSubmit, TypeOK, Others, Local, Counts
  <1>17. ASSUME NEW p \in Procs, Crash(p) PROVE TypeOK'
    BY <1>0, <1>1, <1>17 DEF Crash, TypeOK, Others, Local, Counts
  <1>18. CASE UNCHANGED vars
    BY <1>0, <1>18 DEF vars, TypeOK, Others, Local, Counts
  <1> QED
    BY <1>2, <1>3, <1>4, <1>5, <1>6, <1>8, <1>9, <1>10, <1>11, <1>12, <1>13, <1>14, <1>15, <1>16,
       <1>17, <1>18, NextCases DEF PlanStep
-----------------------------------------------------------------------------
(* The invariant, step by step.                                            *)

Preserved == ApprovedInv /\ AttemptsInv /\ JobsInv /\ RecordsInv /\ OkInv /\ JobsApproved /\ JobsOnRecord

\* The approvals say the same while no decision is added.
LEMMA ApprovedSame ==
    ASSUME UNCHANGED decisions
    PROVE  \A r \in Refs, h \in Plans : Approved(r, h)' <=> Approved(r, h)
  BY DEF Approved

\* JobsApproved in terms of what the code looks up.
LEMMA JobsApprovedIs ==
    ASSUME TypeOK
    PROVE  JobsApproved <=> \A j \in jobs : Approved(j.ref, j.plan)
  <1>1. \A j \in jobs : j.ref \in Refs /\ j.plan \in Plans
    BY DEF TypeOK, Job
  <1> QED BY <1>1, ApprovedIsAllowed DEF JobsApproved

\* Steps that add no job, record, decision or attempt, and take no process into
\* a submit, or past its look at the approval unless it is approved.
LEMMA QuietKeeps ==
    ASSUME Inv, TypeOK',
           UNCHANGED <<decisions, records, jobs, submits>>,
           \A q \in Procs : pc'[q] \in SubmitPCs =>
               /\ pc[q] \in SubmitPCs
               /\ req'[q] = req[q]
               /\ pc[q] = "record" => pc'[q] = "record",
           \A q \in Procs : pc'[q] \in {"connector", "launch", "record"} =>
               pc[q] \in {"connector", "launch", "record"} \/ Approved(req[q].ref, req[q].plan),
           crashes' = 0 =>
               /\ crashes = 0
               /\ \A q \in Procs : pc[q] = "record" => pc'[q] = "record" /\ req'[q] = req[q]
    PROVE  Preserved'
  <1> USE DEF SubmitPCs
  <1>1. TypeOK /\ ApprovedInv /\ AttemptsInv /\ JobsInv /\ RecordsInv /\ OkInv /\ JobsApproved /\ JobsOnRecord
    BY DEF Inv
  <1>2. ApprovedInv'
    <2>1. SUFFICES ASSUME NEW q \in Procs, pc'[q] \in {"connector", "launch", "record"}
                   PROVE  Approved(req[q].ref, req[q].plan)'
      BY DEF ApprovedInv
    <2>2. Approved(req[q].ref, req[q].plan) /\ req'[q] = req[q]
      BY <1>1, <2>1 DEF ApprovedInv
    <2> QED BY <2>2 DEF Approved
  <1>3. AttemptsInv'
    BY <1>1 DEF AttemptsInv
  <1>4. JobsInv'
    BY <1>1 DEF JobsInv
  <1>5. RecordsInv'
    BY <1>1 DEF RecordsInv
  <1>6. OkInv'
    BY <1>1 DEF OkInv
  <1>7. JobsApproved'
    BY <1>1 DEF JobsApproved, Abstract!Allowed
  <1>8. JobsOnRecord'
    BY <1>1 DEF JobsOnRecord
  <1> QED BY <1>2, <1>3, <1>4, <1>5, <1>6, <1>7, <1>8 DEF Preserved

\* A decision is added.
LEMMA DecisionKeeps == ASSUME Inv, TypeOK', RecordDecision PROVE Preserved'
  <1>1. TypeOK /\ ApprovedInv /\ AttemptsInv /\ JobsInv /\ RecordsInv /\ OkInv /\ JobsApproved /\ JobsOnRecord
    BY DEF Inv
  <1>2. /\ UNCHANGED <<records, jobs, pc, req, submits, crashes>>
        /\ \E d \in Decision : decisions' = Append(decisions, d)
    BY DEF RecordDecision, local, bounds
  <1>3. \A r \in Refs, h \in Plans : Approved(r, h) => Approved(r, h)'
    BY <1>1, <1>2, ApprovedStays
  <1>4. ApprovedInv'
    <2>1. SUFFICES ASSUME NEW q \in Procs, pc[q] \in {"connector", "launch", "record"}
                   PROVE  Approved(req[q].ref, req[q].plan)'
      BY <1>2 DEF ApprovedInv
    <2>2. Approved(req[q].ref, req[q].plan) /\ req[q].ref \in Refs /\ req[q].plan \in Plans
      BY <1>1, <2>1, ReqFields DEF ApprovedInv
    <2>3. PICK r \in Refs, h \in Plans : r = req[q].ref /\ h = req[q].plan
      BY <2>2
    <2>4. Approved(r, h)'
      BY <1>3, <2>2, <2>3
    <2> QED BY <1>2, <2>3, <2>4 DEF Approved
  <1>5. AttemptsInv' /\ JobsInv' /\ RecordsInv' /\ OkInv' /\ JobsOnRecord'
    BY <1>1, <1>2 DEF AttemptsInv, JobsInv, RecordsInv, OkInv, JobsOnRecord
  <1>6. JobsApproved'
    <2>1. \A j \in jobs : Approved(j.ref, j.plan) /\ j.ref \in Refs /\ j.plan \in Plans
      BY <1>1, JobsApprovedIs DEF TypeOK, Job
    <2>2. \A j \in jobs : Approved(j.ref, j.plan)'
      BY <1>3, <2>1
    <2> QED BY <1>2, <2>2 DEF JobsApproved, Abstract!Allowed, Approved
  <1> QED BY <1>4, <1>5, <1>6 DEF Preserved

\* A submit begins, with an attempt of its own.
LEMMA SubmitKeeps == ASSUME Inv, TypeOK', NEW p \in Procs, Submit(p) PROVE Preserved'
  <1> USE DEF SubmitPCs
  <1>1. TypeOK /\ ApprovedInv /\ AttemptsInv /\ JobsInv /\ RecordsInv /\ OkInv /\ JobsApproved /\ JobsOnRecord
    BY DEF Inv
  <1>2. /\ UNCHANGED <<decisions, records, jobs, crashes>>
        /\ submits' = submits + 1 /\ submits \in Nat
        /\ pc[p] = "idle" /\ pc' = [pc EXCEPT ![p] = "validate"]
    BY <1>1 DEF Submit, Goto, files, TypeOK
  <1>3. PICK h \in Plans, r \in Refs :
          req' = [req EXCEPT ![p] = [plan |-> h, ref |-> r, attempt |-> submits', ok |-> FALSE]]
    BY DEF Submit
  <1>4. /\ req'[p].attempt = submits + 1 /\ ~req'[p].ok /\ pc'[p] = "validate"
        /\ \A q \in Procs : q # p => req'[q] = req[q] /\ pc'[q] = pc[q]
    BY <1>1, <1>2, <1>3 DEF TypeOK
  <1>5. /\ \A q \in Procs : req[q].attempt \in Nat
        /\ \A j \in jobs : j.attempt \in Nat
        /\ \A i \in 1..Len(records) : records[i].attempt \in Nat
    <2>1. \A i \in 1..Len(records) : records[i] \in RunRecord
      BY <1>1 DEF TypeOK
    <2>2. \A i \in 1..Len(records) : records[i].attempt \in Nat
      BY <2>1 DEF RunRecord
    <2>3. \A j \in jobs : j.attempt \in Nat
      BY <1>1 DEF TypeOK, Job
    <2> QED BY <1>1, <2>2, <2>3, ReqFields
  <1>6. ApprovedInv'
    <2>1. SUFFICES ASSUME NEW q \in Procs, pc'[q] \in {"connector", "launch", "record"}
                   PROVE  Approved(req[q].ref, req[q].plan)'
      BY DEF ApprovedInv
    <2>2. Approved(req[q].ref, req[q].plan) /\ req'[q] = req[q]
      BY <1>1, <1>4, <2>1 DEF ApprovedInv
    <2> QED BY <1>2, <2>2 DEF Approved
  <1>7. AttemptsInv'
    BY <1>1, <1>2, <1>4, <1>5 DEF AttemptsInv
  <1>8. JobsInv'
    BY <1>1, <1>2, <1>4, <1>5 DEF JobsInv
  <1>9. RecordsInv'
    BY <1>1, <1>2, <1>4, <1>5 DEF RecordsInv
  <1>10. OkInv'
    BY <1>1, <1>2, <1>4 DEF OkInv
  <1>11. JobsApproved'
    BY <1>1, <1>2 DEF JobsApproved, Abstract!Allowed
  <1>12. JobsOnRecord'
    BY <1>1, <1>2, <1>4 DEF JobsOnRecord
  <1> QED BY <1>6, <1>7, <1>8, <1>9, <1>10, <1>11, <1>12 DEF Preserved

\* A job is started.
LEMMA LaunchKeeps == ASSUME Inv, TypeOK', NEW p \in Procs, Launch(p) PROVE Preserved'
  <1> USE DEF SubmitPCs
  <1>1. TypeOK /\ ApprovedInv /\ AttemptsInv /\ JobsInv /\ RecordsInv /\ OkInv /\ JobsApproved /\ JobsOnRecord
    BY DEF Inv
  <1>2. PICK j \in Job :
          /\ j = [attempt |-> req[p].attempt, plan |-> req[p].plan, ref |-> req[p].ref, ran |-> disk]
          /\ jobs' = jobs \cup {j}
    <2>1. disk \in Plans
      BY <1>1 DEF TypeOK
    <2>2. [attempt |-> req[p].attempt, plan |-> req[p].plan, ref |-> req[p].ref, ran |-> disk] \in Job
      BY <1>1, <2>1, ReqFields DEF Job
    <2> QED BY <2>2 DEF Launch
  <1>3. j.attempt = req[p].attempt /\ j.plan = req[p].plan /\ j.ref = req[p].ref
    BY <1>2
  <1>4. /\ UNCHANGED <<decisions, records, submits, crashes>>
        /\ pc[p] = "launch" /\ pc' = [pc EXCEPT ![p] = "record"]
        /\ \E ok \in BOOLEAN : req' = [req EXCEPT ![p].ok = ok]
    BY DEF Launch, Goto, files, bounds
  <1>5. /\ pc'[p] = "record"
        /\ \A q \in Procs : q # p => req'[q] = req[q] /\ pc'[q] = pc[q]
    BY <1>1, <1>4 DEF TypeOK
  <1>6. req'[p].attempt = req[p].attempt /\ req'[p].plan = req[p].plan /\ req'[p].ref = req[p].ref
    <2>1. PICK ok \in BOOLEAN : req' = [req EXCEPT ![p].ok = ok]
      BY <1>4
    <2>2. p \in DOMAIN req /\ req'[p] = [req[p] EXCEPT !.ok = ok]
      BY <1>1, <2>1 DEF TypeOK
    <2> QED BY <2>2
  <1>7. ApprovedInv'
    <2>1. SUFFICES ASSUME NEW q \in Procs, pc'[q] \in {"connector", "launch", "record"}
                   PROVE  Approved(req[q].ref, req[q].plan)'
      BY DEF ApprovedInv
    <2>2. /\ Approved(req[q].ref, req[q].plan)
          /\ req'[q].ref = req[q].ref /\ req'[q].plan = req[q].plan
      BY <1>1, <1>4, <1>5, <1>6, <2>1 DEF ApprovedInv
    <2> QED BY <1>4, <2>2 DEF Approved
  <1>8. AttemptsInv'
    BY <1>1, <1>4, <1>5, <1>6 DEF AttemptsInv
  <1>9. JobsInv'
    <2>1. \A q \in Procs : q # p /\ pc[q] \in SubmitPCs => req[q].attempt # req[p].attempt
      BY <1>1, <1>4 DEF AttemptsInv
    <2> QED BY <1>1, <1>2, <1>3, <1>4, <1>5, <2>1 DEF JobsInv, AttemptsInv
  <1>10. RecordsInv'
    BY <1>1, <1>4, <1>5, <1>6 DEF RecordsInv
  <1>11. OkInv'
    BY <1>1, <1>2, <1>3, <1>5, <1>6 DEF OkInv
  <1>12. JobsApproved'
    <2>1. Approved(j.ref, j.plan)
      BY <1>1, <1>3, <1>4 DEF ApprovedInv
    <2>2. \A k \in jobs' : Approved(k.ref, k.plan)
      BY <1>1, <1>2, <2>1, JobsApprovedIs
    <2> QED BY <1>4, <2>2 DEF JobsApproved, Abstract!Allowed, Approved
  <1>13. JobsOnRecord'
    <2>1. \A k \in jobs : crashes = 0 =>
            \/ \E q \in Procs : pc'[q] = "record" /\ req'[q].attempt = k.attempt
            \/ \E i \in 1..Len(records) : records[i].attempt = k.attempt
      BY <1>1, <1>4, <1>5, <1>6 DEF JobsOnRecord
    <2>2. pc'[p] = "record" /\ req'[p].attempt = j.attempt
      BY <1>3, <1>5, <1>6
    <2> QED BY <1>2, <1>4, <2>1, <2>2 DEF JobsOnRecord
  <1> QED BY <1>7, <1>8, <1>9, <1>10, <1>11, <1>12, <1>13 DEF Preserved

\* The record of a submit is appended.
LEMMA RecordKeeps == ASSUME Inv, TypeOK', NEW p \in Procs, RecordSubmit(p) PROVE Preserved'
  <1> USE DEF SubmitPCs
  <1>1. TypeOK /\ ApprovedInv /\ AttemptsInv /\ JobsInv /\ RecordsInv /\ OkInv /\ JobsApproved /\ JobsOnRecord
    BY DEF Inv
  <1>2. PICK r \in RunRecord : r.attempt = req[p].attempt /\ records' = Append(records, r)
    <2>1. [attempt |-> req[p].attempt, plan |-> req[p].plan, ref |-> req[p].ref,
           submitted |-> req[p].ok] \in RunRecord
      BY <1>1, ReqFields DEF RunRecord
    <2> QED BY <2>1 DEF RecordSubmit
  <1>3. /\ UNCHANGED <<decisions, jobs, req, submits, crashes>>
        /\ pc[p] = "record" /\ pc' = [pc EXCEPT ![p] = "idle"]
    BY DEF RecordSubmit, Goto, bounds
  <1>4. pc'[p] = "idle" /\ \A q \in Procs : q # p => pc'[q] = pc[q]
    BY <1>1, <1>3 DEF TypeOK
  <1>5. /\ Len(records') = Len(records) + 1 /\ Len(records) \in Nat
        /\ records'[Len(records) + 1] = r
        /\ \A i \in 1..Len(records) : records'[i] = records[i]
        /\ \A i \in 1..Len(records') : i \in 1..Len(records) \/ i = Len(records) + 1
    <2>1. records \in Seq(RunRecord)
      BY <1>1 DEF TypeOK
    <2> QED BY <1>2, <2>1
  <1>6. ApprovedInv'
    <2>1. SUFFICES ASSUME NEW q \in Procs, pc'[q] \in {"connector", "launch", "record"}
                   PROVE  Approved(req[q].ref, req[q].plan)'
      BY <1>3 DEF ApprovedInv
    <2>2. Approved(req[q].ref, req[q].plan)
      BY <1>1, <1>4, <2>1 DEF ApprovedInv
    <2> QED BY <1>3, <2>2 DEF Approved
  <1>7. AttemptsInv' /\ JobsInv'
    BY <1>1, <1>3, <1>4 DEF AttemptsInv, JobsInv
  <1>8. RecordsInv'
    <2>1. req[p].attempt <= submits
          /\ \A q \in Procs : q # p /\ pc[q] \in SubmitPCs => req[q].attempt # req[p].attempt
      BY <1>1, <1>3 DEF AttemptsInv
    <2>2. \A i \in 1..Len(records') : records'[i].attempt = req[p].attempt
            \/ (i \in 1..Len(records) /\ records'[i] = records[i])
      BY <1>2, <1>5
    <2> QED BY <1>1, <1>3, <1>4, <2>1, <2>2 DEF RecordsInv
  <1>9. OkInv'
    BY <1>1, <1>3, <1>4 DEF OkInv
  <1>10. JobsApproved'
    BY <1>1, <1>3 DEF JobsApproved, Abstract!Allowed
  <1>11. JobsOnRecord'
    <2>1. SUFFICES ASSUME NEW j \in jobs, crashes = 0
                   PROVE  \/ \E q \in Procs : pc'[q] = "record" /\ req[q].attempt = j.attempt
                          \/ \E i \in 1..Len(records') : records'[i].attempt = j.attempt
      BY <1>3 DEF JobsOnRecord
    <2>2. CASE req[p].attempt = j.attempt
      <3>1. Len(records) + 1 \in 1..Len(records')
        BY <1>5
      <3> QED BY <1>2, <1>5, <2>2, <3>1
    <2>3. CASE req[p].attempt # j.attempt
      <3>1. \/ \E q \in Procs : pc[q] = "record" /\ req[q].attempt = j.attempt
            \/ \E i \in 1..Len(records) : records[i].attempt = j.attempt
        BY <1>1, <2>1 DEF JobsOnRecord
      <3>2. 1..Len(records) \subseteq 1..Len(records')
        BY <1>5
      <3> QED BY <1>4, <1>5, <2>3, <3>1, <3>2
    <2> QED BY <2>2, <2>3
  <1> QED BY <1>6, <1>7, <1>8, <1>9, <1>10, <1>11 DEF Preserved

\* No step breaks the invariant.
LEMMA NextInv == Inv /\ [Next]_vars => Inv'
  <1> SUFFICES ASSUME Inv, [Next]_vars PROVE Inv'
    OBVIOUS
  <1> USE DEF SubmitPCs
  <1>1. TypeOK /\ TypeOK'
    BY NextType DEF Inv
  <1>2. SUFFICES Preserved'
    BY <1>1 DEF Preserved, Inv
  <1>3. CASE Edit
    <2>1. UNCHANGED <<decisions, records, jobs, pc, req, submits, crashes>>
      BY <1>3 DEF Edit, local
    <2> QED BY <1>1, <2>1, QuietKeeps
  <1>4. CASE RecordDecision
    BY <1>1, <1>4, DecisionKeeps
  <1>5. ASSUME NEW p \in Procs, PlanStep(p) PROVE Preserved'
    <2>1. /\ UNCHANGED <<decisions, records, jobs, submits, crashes>>
          /\ pc[p] \notin SubmitPCs /\ pc'[p] \notin SubmitPCs
          /\ \A q \in Procs : q # p => pc'[q] = pc[q] /\ req'[q] = req[q]
      BY <1>1, <1>5, PlanStepOnly
    <2>2. \A q \in Procs : pc'[q] \in SubmitPCs \/ pc[q] \in SubmitPCs => pc'[q] = pc[q] /\ req'[q] = req[q]
      BY <2>1
    <2> QED BY <1>1, <2>1, <2>2, QuietKeeps
  <1>6. ASSUME NEW p \in Procs, PassStep(p) PROVE Preserved'
    <2>1. /\ UNCHANGED <<decisions, records, jobs, req, submits, crashes>>
          /\ pc[p] \in SubmitPCs \ {"record"}
          /\ \A q \in Procs : q # p => pc'[q] = pc[q]
          /\ \/ pc'[p] = "idle" \/ (pc'[p] = "approval" /\ pc[p] = "validate")
             \/ pc[p] \in {"connector", "launch"} \/ Approved(req[p].ref, req[p].plan)
      BY <1>1, <1>6, PassStepOnly DEF files
    <2>2. \A q \in Procs : pc'[q] \in {"connector", "launch", "record"} =>
            pc[q] \in {"connector", "launch", "record"} \/ Approved(req[q].ref, req[q].plan)
      BY <2>1
    <2>3. \A q \in Procs : pc[q] = "record" => pc'[q] = "record"
      BY <2>1
    <2>4. \A q \in Procs : pc'[q] \in SubmitPCs => pc[q] \in SubmitPCs
      BY <2>1
    <2> QED BY <1>1, <2>1, <2>2, <2>3, <2>4, QuietKeeps
  <1>7. ASSUME NEW p \in Procs, Submit(p) PROVE Preserved'
    BY <1>1, <1>7, SubmitKeeps
  <1>8. ASSUME NEW p \in Procs, Launch(p) PROVE Preserved'
    BY <1>1, <1>8, LaunchKeeps
  <1>9. ASSUME NEW p \in Procs, RecordSubmit(p) PROVE Preserved'
    BY <1>1, <1>9, RecordKeeps
  <1>10. ASSUME NEW p \in Procs, Crash(p) PROVE Preserved'
    <2>1. /\ UNCHANGED <<decisions, records, jobs, req, submits>>
          /\ crashes' = crashes + 1 /\ crashes \in Nat
          /\ pc' = [pc EXCEPT ![p] = "idle"]
      BY <1>1, <1>10 DEF Crash, Goto, files, TypeOK
    <2>2. \A q \in Procs : pc'[q] \in SubmitPCs => pc'[q] = pc[q]
      BY <1>1, <2>1 DEF TypeOK
    <2>3. crashes' # 0
      BY <2>1
    <2> QED BY <1>1, <2>1, <2>2, <2>3, QuietKeeps
  <1>11. CASE UNCHANGED vars
    <2>1. UNCHANGED <<decisions, records, jobs, pc, req, submits, crashes>>
      BY <1>11 DEF vars, files, local, bounds
    <2> QED BY <1>1, <2>1, QuietKeeps
  <1> QED BY <1>3, <1>4, <1>5, <1>6, <1>7, <1>8, <1>9, <1>10, <1>11, NextCases
\* The invariant holds in every behaviour.
LEMMA AlwaysInv == Spec => []Inv
  <1>1. Init => Inv
    BY InitInv
  <1>2. Inv /\ [Next]_vars => Inv'
    BY NextInv
  <1> QED BY <1>1, <1>2, PTL DEF Spec

-----------------------------------------------------------------------------
(* What runs, where files are edited between the calls only.               *)

\* A stored verdict is true of the content it is stored for, and what is about
\* to be launched is on disk as it was validated.
PlanInv ==
    /\ \A h \in Plans : planFile[h] = "ready" => h \in Good
    /\ \A p \in Procs :
        /\ pc[p] = "identity" /\ req[p].ok => disk \in Good
        /\ pc[p] \in {"exists", "open", "write"} /\ req[p].ok => req[p].plan \in Good
        /\ pc[p] = "launch" => req[p].plan = disk /\ disk \in Good

QuietInv == TypeOK /\ PlanInv /\ JobRunsItsPlan

\* The initial state satisfies it.
LEMMA InitQuiet == Init => QuietInv
  <1> SUFFICES ASSUME Init PROVE QuietInv
    OBVIOUS
  <1>1. TypeOK
    BY InitInv DEF Inv
  <1>2. PlanInv /\ JobRunsItsPlan
    BY DEF Init, PlanInv, JobRunsItsPlan
  <1> QED BY <1>1, <1>2 DEF QuietInv

\* Steps that leave the files alone and bring no process nearer to a launch.
LEMMA QuietSame ==
    ASSUME QuietInv, UNCHANGED <<disk, planFile, jobs>>,
           \A q \in Procs :
               pc'[q] \in {"identity", "exists", "open", "write", "launch"} =>
               pc'[q] = pc[q] /\ req'[q] = req[q]
    PROVE  PlanInv' /\ JobRunsItsPlan'
  <1>1. PlanInv /\ JobRunsItsPlan
    BY DEF QuietInv
  <1>2. PlanInv'
    BY <1>1 DEF PlanInv
  <1>3. JobRunsItsPlan'
    BY <1>1 DEF JobRunsItsPlan
  <1> QED BY <1>2, <1>3

\* A plan call stores the verdict of the content it hashed.
LEMMA PlanStepQuiet ==
    ASSUME QuietInv, TypeOK', NEW p \in Procs, PlanStep(p)
    PROVE  PlanInv' /\ JobRunsItsPlan'
  <1>1. TypeOK /\ PlanInv /\ JobRunsItsPlan
    BY DEF QuietInv
  <1>2. /\ UNCHANGED <<disk, jobs>>
        /\ pc'[p] \notin SubmitPCs
        /\ \A q \in Procs : q # p => pc'[q] = pc[q] /\ req'[q] = req[q]
    <2>1. UNCHANGED jobs
      BY DEF PlanStep, Plan, DryRun, Identify, PlanExists, PlanBroken, PlanMissing, OpenPlan, WritePlan
    <2> QED BY <1>1, <2>1, PlanStepOnly
  <1>3. JobRunsItsPlan'
    BY <1>1, <1>2 DEF JobRunsItsPlan
  <1>4. pc'[p] # "launch"
    BY <1>2 DEF SubmitPCs
  <1>5. p \in DOMAIN pc /\ p \in DOMAIN req /\ planFile \in [Plans -> {"none", "torn", "ready", "failed"}]
    BY <1>1 DEF TypeOK
  <1>6. \/ planFile' = planFile
        \/ /\ pc[p] \in {"open", "write"}
           /\ \A h \in Plans : planFile'[h] = "ready" =>
                planFile[h] = "ready" \/ (h = req[p].plan /\ pc[p] = "write" /\ req[p].ok)
    <2>1. CASE OpenPlan(p)
      BY <1>5, <2>1 DEF OpenPlan
    <2>2. CASE WritePlan(p)
      BY <1>5, <2>2 DEF WritePlan
    <2>3. CASE Plan(p) \/ DryRun(p) \/ Identify(p) \/ PlanExists(p) \/ PlanBroken(p) \/ PlanMissing(p)
      BY <2>3 DEF Plan, DryRun, Identify, PlanExists, PlanBroken, PlanMissing, files
    <2> QED BY <2>1, <2>2, <2>3 DEF PlanStep
  <1>7. \A h \in Plans : planFile'[h] = "ready" => h \in Good
    BY <1>1, <1>6 DEF PlanInv
  <1>8. /\ pc'[p] = "identity" /\ req'[p].ok => disk \in Good
        /\ pc'[p] \in {"exists", "open", "write"} /\ req'[p].ok => req'[p].plan \in Good
    <2> USE DEF Goto
    <2>1. CASE Plan(p)
      BY <1>5, <2>1 DEF Plan
    <2>2. CASE DryRun(p)
      <3>1. PICK ok \in BOOLEAN : (ok => disk \in Good) /\ req' = [req EXCEPT ![p].ok = ok]
        BY <2>2 DEF DryRun
      <3>2. req[p] \in [plan : Plans, ref : Refs, attempt : Nat, ok : BOOLEAN]
        BY <1>1 DEF TypeOK
      <3>3. req'[p] = [req[p] EXCEPT !.ok = ok]
        BY <1>5, <3>1
      <3>4. req'[p].ok = ok
        BY <3>2, <3>3
      <3>5. pc'[p] = "identity"
        BY <1>5, <2>2 DEF DryRun
      <3> QED BY <3>1, <3>4, <3>5
    <2>3. CASE Identify(p)
      <3>1. req[p] \in [plan : Plans, ref : Refs, attempt : Nat, ok : BOOLEAN]
        BY <1>1 DEF TypeOK
      <3>2. req'[p] = [req[p] EXCEPT !.plan = disk]
        BY <1>5, <2>3 DEF Identify
      <3>3. req'[p].plan = disk /\ req'[p].ok = req[p].ok
        BY <3>1, <3>2
      <3>4. pc[p] = "identity" /\ pc'[p] = "exists"
        BY <1>5, <2>3 DEF Identify
      <3> QED BY <1>1, <3>3, <3>4 DEF PlanInv
    <2>4. CASE PlanExists(p)
      BY <1>5, <2>4 DEF PlanExists, AnswerPlan
    <2>5. CASE PlanBroken(p)
      BY <1>5, <2>5 DEF PlanBroken
    <2>6. CASE PlanMissing(p)
      <3>1. pc[p] = "exists" /\ req' = req /\ pc'[p] = "open"
        BY <1>5, <2>6 DEF PlanMissing
      <3> QED BY <1>1, <3>1 DEF PlanInv
    <2>7. CASE OpenPlan(p)
      <3>1. pc[p] = "open" /\ req' = req /\ pc'[p] = "write"
        BY <1>5, <2>7 DEF OpenPlan
      <3> QED BY <1>1, <3>1 DEF PlanInv
    <2>8. CASE WritePlan(p)
      BY <1>5, <2>8 DEF WritePlan, AnswerPlan
    <2> QED BY <2>1, <2>2, <2>3, <2>4, <2>5, <2>6, <2>7, <2>8 DEF PlanStep
  <1>9. PlanInv'
    BY <1>1, <1>2, <1>4, <1>7, <1>8 DEF PlanInv
  <1> QED BY <1>3, <1>9

\* No step breaks it, where an edit waits until no call is running.
LEMMA NextQuiet == QuietEdits => (QuietInv /\ [Next]_vars => QuietInv')
  <1> SUFFICES ASSUME QuietEdits, QuietInv, [Next]_vars PROVE QuietInv'
    OBVIOUS
  <1>1. TypeOK /\ TypeOK' /\ PlanInv /\ JobRunsItsPlan
    BY NextType DEF QuietInv
  <1>2. SUFFICES PlanInv' /\ JobRunsItsPlan'
    BY <1>1 DEF QuietInv
  <1>3. CASE Edit
    <2>1. /\ \A q \in Procs : pc'[q] = "idle"
          /\ UNCHANGED <<planFile, jobs>>
      BY <1>3 DEF Edit, Idle, local
    <2> QED BY <1>1, <2>1 DEF PlanInv, JobRunsItsPlan
  <1>4. CASE RecordDecision
    BY <1>4, QuietSame DEF RecordDecision, local
  <1>5. ASSUME NEW p \in Procs, PlanStep(p) PROVE PlanInv' /\ JobRunsItsPlan'
    BY <1>1, <1>5, PlanStepQuiet
  <1>6. ASSUME NEW p \in Procs, PassStep(p) PROVE PlanInv' /\ JobRunsItsPlan'
    <2>1. /\ UNCHANGED <<disk, planFile, jobs, req>>
          /\ pc'[p] \in SubmitPCs \cup {"idle"}
          /\ \A q \in Procs : q # p => pc'[q] = pc[q]
          /\ pc'[p] = "launch" => Current(req[p].plan)
      BY <1>1, <1>6, PassStepOnly DEF files
    <2>2. pc'[p] \notin {"identity", "exists", "open", "write"}
      BY <2>1 DEF SubmitPCs
    <2>3. pc'[p] = "launch" => req[p].plan = disk /\ disk \in Good
      BY <1>1, <2>1, ReqFields DEF Current, PlanInv
    <2>4. PlanInv'
      BY <1>1, <2>1, <2>2, <2>3 DEF PlanInv
    <2> QED BY <1>1, <2>1, <2>4 DEF JobRunsItsPlan
  <1>7. ASSUME NEW p \in Procs, Submit(p) PROVE PlanInv' /\ JobRunsItsPlan'
    <2>1. UNCHANGED <<disk, planFile, jobs>> /\ pc' = [pc EXCEPT ![p] = "validate"]
      BY <1>7 DEF Submit, Goto, files
    <2>2. \A q \in Procs : q # p => pc'[q] = pc[q] /\ req'[q] = req[q]
      BY <1>1, <1>7, <2>1 DEF Submit, TypeOK
    <2>3. pc'[p] = "validate"
      BY <1>1, <2>1 DEF TypeOK
    <2> QED BY <2>1, <2>2, <2>3, QuietSame
  <1>8. ASSUME NEW p \in Procs, Launch(p) PROVE PlanInv' /\ JobRunsItsPlan'
    <2>1. UNCHANGED <<disk, planFile>> /\ pc' = [pc EXCEPT ![p] = "record"] /\ pc[p] = "launch"
      BY <1>8 DEF Launch, Goto, files
    <2>2. \A q \in Procs : q # p => pc'[q] = pc[q] /\ req'[q] = req[q]
      BY <1>1, <1>8, <2>1 DEF Launch, TypeOK
    <2>3. pc'[p] = "record"
      BY <1>1, <2>1 DEF TypeOK
    <2>4. PlanInv'
      BY <1>1, <2>1, <2>2, <2>3 DEF PlanInv
    <2>5. req[p].plan = disk /\ disk \in Good
      BY <1>1, <2>1 DEF PlanInv
    <2>6. \A j \in jobs' : j \in jobs \/ (j.plan = req[p].plan /\ j.ran = disk)
      BY <1>8 DEF Launch
    <2> QED BY <1>1, <2>4, <2>5, <2>6 DEF JobRunsItsPlan
  <1>9. ASSUME NEW p \in Procs, RecordSubmit(p) PROVE PlanInv' /\ JobRunsItsPlan'
    <2>1. UNCHANGED <<disk, planFile, jobs, req>> /\ pc' = [pc EXCEPT ![p] = "idle"]
      BY <1>9 DEF RecordSubmit, Goto
    <2> QED BY <1>1, <2>1, QuietSame DEF TypeOK
  <1>10. ASSUME NEW p \in Procs, Crash(p) PROVE PlanInv' /\ JobRunsItsPlan'
    <2>1. UNCHANGED <<disk, planFile, jobs, req>> /\ pc' = [pc EXCEPT ![p] = "idle"]
      BY <1>10 DEF Crash, Goto, files
    <2> QED BY <1>1, <2>1, QuietSame DEF TypeOK
  <1>11. CASE UNCHANGED vars
    BY <1>11, QuietSame DEF vars, files, local
  <1> QED BY <1>3, <1>4, <1>5, <1>6, <1>7, <1>8, <1>9, <1>10, <1>11, NextCases

-----------------------------------------------------------------------------
(* Theorems.                                                               *)

\* Every variable keeps its type in every behaviour.
THEOREM SubmitTypeOK == Spec => []TypeOK
  <1>1. Inv => TypeOK
    BY DEF Inv
  <1> QED BY <1>1, AlwaysInv, PTL

\* handle_submit and validate_submit_authorization: no job is started for a
\* plan that the reference of the call does not approve.
THEOREM SubmitJobsApproved == Spec => []JobsApproved
  <1>1. Inv => JobsApproved
    BY DEF Inv
  <1> QED BY <1>1, AlwaysInv, PTL

\* record_submit_job never refuses the record of a job that was started.
THEOREM SubmitRecordNotRefused == Spec => []RecordNotRefused
  <1>1. Inv => RecordNotRefused
    BY DEF Inv, ApprovedInv, RecordNotRefused
  <1> QED BY <1>1, AlwaysInv, PTL

\* Until a server dies, a job that was started is on record or about to be.
THEOREM SubmitJobsOnRecord == Spec => []JobsOnRecord
  <1>1. Inv => JobsOnRecord
    BY DEF Inv
  <1> QED BY <1>1, AlwaysInv, PTL

\* Where files are edited between the calls only, what runs is what was
\* planned, passed the dry run and was approved under its hash.
THEOREM SubmitRunsItsPlan == QuietEdits => (Spec => []JobRunsItsPlan)
  <1> SUFFICES ASSUME QuietEdits PROVE Spec => []JobRunsItsPlan
    OBVIOUS
  <1>1. Init => QuietInv
    BY InitQuiet
  <1>2. QuietInv /\ [Next]_vars => QuietInv'
    BY NextQuiet
  <1>3. QuietInv => JobRunsItsPlan
    BY DEF QuietInv
  <1> QED BY <1>1, <1>2, <1>3, PTL DEF Spec

-----------------------------------------------------------------------------
(* Submission implements ApprovedRuns.                                     *)

\* A launch is the start of one approved job.
LEMMA LaunchStarts ==
    ASSUME Inv, NEW p \in Procs, Launch(p)
    PROVE  Abstract!Start
  <1> DEFINE j == [attempt |-> req[p].attempt, plan |-> req[p].plan, ref |-> req[p].ref, ran |-> disk]
  <1>1. /\ jobs' = jobs \cup {j}
        /\ UNCHANGED <<decisions, records>>
        /\ pc[p] = "launch"
    BY DEF Launch, files
  <1>2. j.attempt = req[p].attempt /\ j.plan = req[p].plan /\ j.ref = req[p].ref
    OBVIOUS
  <1> HIDE DEF j
  <1>3. Abstract!Allowed(j.ref, j.plan)
    <2>1. Approved(req[p].ref, req[p].plan) /\ req[p].ref \in Refs /\ req[p].plan \in Plans
      BY <1>1, ReqFields DEF Inv, ApprovedInv
    <2> QED BY <1>2, <2>1, ApprovedIsAllowed
  <1>4. \A k \in jobs : k.attempt # j.attempt
    BY <1>1, <1>2 DEF Inv, JobsInv, SubmitPCs
  <1>5. \A k \in jobs' : k.attempt = j.attempt => k = j
    BY <1>1, <1>4
  <1> QED BY <1>1, <1>3, <1>5 DEF Abstract!Start

\* The record of a submit is its one report.
LEMMA RecordReports ==
    ASSUME Inv, NEW p \in Procs, RecordSubmit(p)
    PROVE  Abstract!Report
  <1> DEFINE r == [attempt |-> req[p].attempt, plan |-> req[p].plan, ref |-> req[p].ref,
                   submitted |-> req[p].ok]
  <1>1. /\ records' = Append(records, r)
        /\ UNCHANGED <<decisions, jobs>>
        /\ pc[p] = "record"
        /\ Approved(req[p].ref, req[p].plan)
    BY DEF RecordSubmit
  <1>2. /\ r.attempt = req[p].attempt /\ r.plan = req[p].plan /\ r.ref = req[p].ref
        /\ r.submitted = req[p].ok
        /\ r \in RunRecord
    BY ReqFields DEF Inv, RunRecord
  <1> HIDE DEF r
  <1>3. Len(records') = Len(records) + 1 /\ records'[Len(records')] = r
    <2>1. records \in Seq(RunRecord)
      BY DEF Inv, TypeOK
    <2> QED BY <1>1, <1>2, <2>1
  <1>4. Abstract!Allowed(r.ref, r.plan)
    BY <1>1, <1>2, ReqFields, ApprovedIsAllowed DEF Inv
  <1>5. \A i \in 1..Len(records) : records[i].attempt # r.attempt
    BY <1>1, <1>2 DEF Inv, RecordsInv, SubmitPCs
  <1>6. r.submitted => \E j \in jobs : j.attempt = r.attempt /\ j.plan = r.plan
    BY <1>1, <1>2 DEF Inv, OkInv
  <1> QED BY <1>1, <1>3, <1>4, <1>5, <1>6 DEF Abstract!Report

\* Every step of the servers, the editor and the host is a step of the promise,
\* or leaves it alone.
LEMMA StepRefines == Inv /\ [Next]_vars => [Abstract!RunsNext]_(Abstract!rvars)
  <1> SUFFICES ASSUME Inv, [Next]_vars PROVE Abstract!RunsNext \/ UNCHANGED Abstract!rvars
    OBVIOUS
  <1>1. TypeOK
    BY DEF Inv
  <1>2. CASE Edit
    BY <1>2 DEF Edit, Abstract!rvars
  <1>3. CASE RecordDecision
    <2>1. PICK d \in Decision : decisions' = Append(decisions, d)
      BY <1>3 DEF RecordDecision
    <2>2. Len(decisions') = Len(decisions) + 1 /\ decisions'[Len(decisions')] = d
      BY <1>1, <2>1 DEF TypeOK
    <2> QED BY <1>3, <2>1, <2>2 DEF RecordDecision, Abstract!RunsNext, Abstract!Decide
  <1>4. ASSUME NEW p \in Procs, PlanStep(p) PROVE UNCHANGED Abstract!rvars
    <2>1. UNCHANGED jobs
      BY <1>4 DEF PlanStep, Plan, DryRun, Identify, PlanExists, PlanBroken, PlanMissing, OpenPlan, WritePlan
    <2> QED BY <1>1, <1>4, <2>1, PlanStepOnly DEF Abstract!rvars
  <1>5. ASSUME NEW p \in Procs, PassStep(p) PROVE UNCHANGED Abstract!rvars
    BY <1>1, <1>5, PassStepOnly DEF files, Abstract!rvars
  <1>6. ASSUME NEW p \in Procs, Submit(p) PROVE UNCHANGED Abstract!rvars
    BY <1>6 DEF Submit, files, Abstract!rvars
  <1>7. ASSUME NEW p \in Procs, Launch(p) PROVE Abstract!RunsNext
    BY <1>7, LaunchStarts DEF Abstract!RunsNext
  <1>8. ASSUME NEW p \in Procs, RecordSubmit(p) PROVE Abstract!RunsNext
    BY <1>8, RecordReports DEF Abstract!RunsNext
  <1>9. ASSUME NEW p \in Procs, Crash(p) PROVE UNCHANGED Abstract!rvars
    BY <1>9 DEF Crash, files, Abstract!rvars
  <1>10. CASE UNCHANGED vars
    BY <1>10 DEF vars, files, Abstract!rvars
  <1> QED BY <1>2, <1>3, <1>4, <1>5, <1>6, <1>7, <1>8, <1>9, <1>10, NextCases

\* One submit starts at most one job and is reported at most once, only under
\* an approval of its plan, and what is reported as submitted was started.
THEOREM SubmitImplementsRuns == Spec => AbstractRuns
  <1>1. Init => Abstract!RunsInit
    BY DEF Init, Abstract!RunsInit
  <1>2. Inv /\ [Next]_vars => [Abstract!RunsNext]_(Abstract!rvars)
    BY StepRefines
  <1>3. Spec => Abstract!RunsSpec
    BY <1>1, <1>2, AlwaysInv, PTL DEF Spec, Abstract!RunsSpec
  <1> QED BY <1>3 DEF AbstractRuns

-----------------------------------------------------------------------------
(* Literature: searches, snowballs and the papers they answer with.        *)

(* Sequences.                                                              *)

\* A set of naturals that is not empty has a least one.
LEMMA LeastNatural ==
    ASSUME NEW T, T \subseteq Nat, T # {}
    PROVE  \E n \in T : \A m \in T : n <= m
  <1> DEFINE R == {ss \in Nat \X Nat : ss[1] < ss[2]}
  <1>1. IsWellFoundedOn(R, Nat)
    BY NatLessThanWellFounded DEF OpToRel
  <1>2. \A m, n \in Nat : m < n => <<m, n>> \in R
    OBVIOUS
  <1> HIDE DEF R
  <1>3. \E n \in T : \A m \in T : ~(<<m, n>> \in R)
    BY <1>1, WFMin
  <1>4. PICK n \in T : \A m \in T : <<m, n>> \notin R
    BY <1>3
  <1>5. \A m \in T : ~(m < n)
    BY <1>2, <1>4
  <1> QED BY <1>5

\* Induction over the naturals, for a set of them.
LEMMA AllNaturals ==
    ASSUME NEW S, 0 \in S, \A n \in Nat : n \in S => n + 1 \in S
    PROVE  \A n \in Nat : n \in S
  <1> DEFINE T == Nat \ S
  <1> SUFFICES ASSUME T # {} PROVE FALSE
    OBVIOUS
  <1>1. \A n \in Nat : n - 1 \in Nat /\ n - 1 \in S => n \in S
    OBVIOUS
  <1>2. T \subseteq Nat
    OBVIOUS
  <1>3. PICK n \in T : \A m \in T : n <= m
    <2> HIDE DEF T
    <2> QED BY <1>2, LeastNatural
  <1>4. n \in Nat /\ n # 0 /\ n - 1 \in Nat /\ n - 1 \in S
    BY <1>3
  <1> QED BY <1>1, <1>3, <1>4

\* ... which Least returns.
LEMMA LeastIs ==
    ASSUME NEW T, T \subseteq Nat, T # {}
    PROVE  Least(T) \in T /\ \A y \in T : Least(T) <= y
  BY LeastNatural DEF Least

\* What Seq has is a sequence, of what it holds.
LEMMA SeqIs ==
    ASSUME NEW X, NEW s \in Seq(X)
    PROVE  IsSequence(s) /\ Len(s) \in Nat /\ DOMAIN s = 1 .. Len(s)
  <1>1. \A i \in 1 .. Len(s) : s[i] \in ToSet(s)
    BY DEF ToSet
  <1> QED BY <1>1 DEF IsSequence

\* A sequence is one over what it holds, at 1 .. its length.
LEMMA SeqHas ==
    ASSUME NEW s, IsSequence(s)
    PROVE  s \in Seq(ToSet(s)) /\ Len(s) \in Nat /\ DOMAIN s = 1 .. Len(s)
  BY DEF IsSequence

\* ... and is one over every set that has what it holds.
LEMMA SeqIn ==
    ASSUME NEW X, NEW s, IsSequence(s), \A i \in 1 .. Len(s) : s[i] \in X
    PROVE  s \in Seq(X)
  BY SeqHas

\* Nothing is a sequence.
LEMMA SeqEmpty == IsSequence(<<>>) /\ Len(<<>>) = 0
  BY SeqIs, <<>> \in Seq({})

\* A function over 1 .. n is a sequence of n.
LEMMA SeqFn ==
    ASSUME NEW n \in Nat, NEW s, s = [i \in 1 .. n |-> s[i]]
    PROVE  IsSequence(s) /\ Len(s) = n
  <1>1. s \in Seq(ToSet(s))
    BY DEF ToSet
  <1> QED BY <1>1 DEF IsSequence

\* One element is a sequence.
LEMMA SeqOne ==
    ASSUME NEW e
    PROVE  IsSequence(<<e>>) /\ Len(<<e>>) = 1 /\ <<e>>[1] = e
  BY SeqIs, <<e>> \in Seq({e})

\* Append puts one more at the end.
LEMMA SeqAppend ==
    ASSUME NEW s, NEW e, IsSequence(s)
    PROVE  /\ IsSequence(Append(s, e)) /\ Len(Append(s, e)) = Len(s) + 1
           /\ \A i \in 1 .. Len(s) : Append(s, e)[i] = s[i]
           /\ Append(s, e)[Len(s) + 1] = e
  <1>1. PICK X : X = ToSet(s) \cup {e}
    OBVIOUS
  <1>2. \A i \in 1 .. Len(s) : s[i] \in X
    BY <1>1, SeqHas DEF ToSet
  <1>3. s \in Seq(X) /\ e \in X
    BY <1>1, <1>2, SeqIn
  <1>4. /\ Append(s, e) \in Seq(X) /\ Len(Append(s, e)) = Len(s) + 1
        /\ \A i \in 1 .. Len(s) + 1 : Append(s, e)[i] = IF i <= Len(s) THEN s[i] ELSE e
    BY <1>3
  <1>5. Len(s) \in Nat
    BY SeqHas
  <1>6. IsSequence(Append(s, e))
    BY <1>4, SeqIs
  <1>7. Append(s, e)[Len(s) + 1] = e
    BY <1>4, <1>5
  <1>8. \A i \in 1 .. Len(s) : Append(s, e)[i] = s[i]
    BY <1>4, <1>5
  <1> QED BY <1>4, <1>6, <1>7, <1>8

\* One sequence after another: the places of the first, then those of the second.
LEMMA SeqConcat ==
    ASSUME NEW s, NEW t, IsSequence(s), IsSequence(t)
    PROVE  /\ IsSequence(s \o t) /\ Len(s \o t) = Len(s) + Len(t)
           /\ \A i \in 1 .. Len(s) : (s \o t)[i] = s[i]
           /\ \A i \in 1 .. Len(t) : (s \o t)[Len(s) + i] = t[i]
  <1>1. PICK X : X = ToSet(s) \cup ToSet(t)
    OBVIOUS
  <1>2. Len(s) \in Nat /\ Len(t) \in Nat
    BY SeqHas
  <1>3. s \in Seq(X)
    <2>1. \A i \in 1 .. Len(s) : s[i] \in X
      BY <1>1, SeqHas DEF ToSet
    <2> QED BY <2>1, SeqIn
  <1>4. t \in Seq(X)
    <2>1. \A i \in 1 .. Len(t) : t[i] \in X
      BY <1>1, SeqHas DEF ToSet
    <2> QED BY <2>1, SeqIn
  <1>5. /\ s \o t \in Seq(X) /\ Len(s \o t) = Len(s) + Len(t)
        /\ \A i \in 1 .. Len(s) + Len(t) : (s \o t)[i] = IF i <= Len(s) THEN s[i] ELSE t[i - Len(s)]
    BY <1>3, <1>4, ConcatProperties
  <1>6. IsSequence(s \o t)
    BY <1>5, SeqIs
  <1>7. \A i \in 1 .. Len(s) : (s \o t)[i] = s[i]
    BY <1>2, <1>5
  <1>8. \A i \in 1 .. Len(t) : (s \o t)[Len(s) + i] = t[i]
    <2> TAKE i \in 1 .. Len(t)
    <2>1. Len(s) + i \in 1 .. Len(s) + Len(t) /\ ~(Len(s) + i <= Len(s)) /\ (Len(s) + i) - Len(s) = i
      BY <1>2
    <2> QED BY <1>5, <2>1
  <1> QED BY <1>5, <1>6, <1>7, <1>8

\* Tail leaves out the first place.
LEMMA SeqTail ==
    ASSUME NEW s, IsSequence(s), s # <<>>
    PROVE  /\ IsSequence(Tail(s)) /\ Len(Tail(s)) = Len(s) - 1 /\ Len(s) > 0
           /\ Head(s) = s[1]
           /\ \A i \in 1 .. Len(s) - 1 : Tail(s)[i] = s[i + 1]
  <1>1. s \in Seq(ToSet(s)) /\ Len(s) \in Nat /\ Len(s) # 0
    BY SeqHas, EmptySeq
  <1>2. /\ Tail(s) \in Seq(ToSet(s)) /\ Len(Tail(s)) = Len(s) - 1
        /\ \A i \in 1 .. Len(Tail(s)) : Tail(s)[i] = s[i + 1]
    BY <1>1, HeadTailProperties
  <1>3. Head(s) = s[1]
    BY <1>1
  <1>4. IsSequence(Tail(s))
    BY <1>2, SeqIs
  <1>5. \A i \in 1 .. Len(s) - 1 : Tail(s)[i] = s[i + 1]
    BY <1>2
  <1> QED BY <1>1, <1>2, <1>3, <1>4, <1>5

\* Joined, prefix by prefix.
LEMMA JoinedSteps ==
    ASSUME NEW s, NEW S, Len(s) \in Nat
    PROVE  \E f : /\ f[0] = <<>> /\ f[Len(s)] = Joined(s, S)
                  /\ \A n \in 1 .. Len(s) : f[n] = IF n \in S THEN f[n - 1] \o s[n] ELSE f[n - 1]
  <1> DEFINE Step(n, x) == IF n \in S THEN x \o s[n] ELSE x
             Is(f, k) == f = [n \in 0 .. k |-> IF n = 0 THEN <<>> ELSE Step(n, f[n - 1])]
             K == {k \in Nat : \E f : Is(f, k)}
  <1>1. 0 \in K
    <2>1. Is([n \in 0 .. 0 |-> <<>>], 0)
      OBVIOUS
    <2> HIDE DEF Is
    <2> QED BY <2>1
  <1>2. ASSUME NEW k \in Nat, k \in K PROVE k + 1 \in K
    <2>1. PICK f : Is(f, k)
      BY <1>2
    <2>2. PICK g : g = [n \in 0 .. k + 1 |-> IF n = k + 1 THEN Step(k + 1, f[k]) ELSE f[n]]
      OBVIOUS
    <2> HIDE DEF Step
    <2>3. \A n \in 0 .. k : f[n] = IF n = 0 THEN <<>> ELSE Step(n, f[n - 1])
      BY <2>1
    <2>4. \A n \in 0 .. k + 1 : g[n] = IF n = 0 THEN <<>> ELSE Step(n, g[n - 1])
      <3> TAKE n \in 0 .. k + 1
      <3>1. CASE n = k + 1
        <4>1. k \in 0 .. k + 1 /\ k # k + 1 /\ n # 0 /\ n - 1 = k
          BY <3>1
        <4>2. g[k] = f[k] /\ g[n] = Step(k + 1, f[k])
          BY <2>2, <3>1, <4>1
        <4> QED BY <3>1, <4>1, <4>2
      <3>2. CASE n \in 1 .. k
        <4>1. n \in 0 .. k /\ n # 0 /\ n # k + 1 /\ n - 1 \in 0 .. k + 1 /\ n - 1 # k + 1
          BY <3>2
        <4>2. g[n - 1] = f[n - 1] /\ g[n] = f[n]
          BY <2>2, <4>1
        <4> QED BY <2>3, <4>1, <4>2
      <3>3. CASE n = 0
        <4>1. g[0] = f[0] /\ f[0] = <<>>
          BY <2>2, <2>3
        <4> QED BY <3>3, <4>1
      <3> QED BY <3>1, <3>2, <3>3
    <2>5. g = [n \in 0 .. k + 1 |-> g[n]]
      BY <2>2
    <2>6. Is(g, k + 1)
      BY <2>4, <2>5
    <2> HIDE DEF Is
    <2> QED BY <2>6
  <1>3. \E f : Is(f, Len(s))
    <2> HIDE DEF Is
    <2>1. \A n \in Nat : n \in K
      <3> HIDE DEF K
      <3> QED BY <1>1, <1>2, AllNaturals
    <2> QED BY <2>1
  <1>4. Is(CHOOSE f : Is(f, Len(s)), Len(s))
    <2> HIDE DEF Is
    <2> QED BY <1>3
  <1>5. PICK f : Is(f, Len(s)) /\ Joined(s, S) = f[Len(s)]
    BY <1>4 DEF Joined
  <1>6. \A n \in 0 .. Len(s) : f[n] = IF n = 0 THEN <<>> ELSE Step(n, f[n - 1])
    <2> HIDE DEF Step
    <2> QED BY <1>5
  <1>7. \A n \in 1 .. Len(s) : f[n] = Step(n, f[n - 1])
    BY <1>6
  <1> QED BY <1>5, <1>6, <1>7

\* The m-th element of j is the b[m]-th of s[a[m]]: all those of s at S up to
\* k, in order, and each once.
Laid(j, s, S, k, a, b) ==
    /\ \A m \in 1 .. Len(j) : /\ a[m] \in S /\ a[m] \in 1 .. k
                              /\ b[m] \in 1 .. Len(s[a[m]]) /\ j[m] = s[a[m]][b[m]]
    /\ \A m, q \in 1 .. Len(j) : m < q => a[m] < a[q] \/ (a[m] = a[q] /\ b[m] < b[q])
    /\ \A n \in 1 .. k : n \in S =>
         \A q \in 1 .. Len(s[n]) : \E m \in 1 .. Len(j) : a[m] = n /\ b[m] = q

\* Laid out up to k, the sequence after k is put at the end,
LEMMA LaidMore ==
    ASSUME NEW j, NEW s, NEW S, NEW k \in Nat, NEW a, NEW b, Laid(j, s, S, k, a, b),
           IsSequence(j), k + 1 \in S, IsSequence(s[k + 1])
    PROVE  \E c, d : Laid(j \o s[k + 1], s, S, k + 1, c, d)
  <1> DEFINE t == s[k + 1]  J == j \o t
  <1>1. /\ IsSequence(J) /\ Len(J) = Len(j) + Len(t) /\ Len(j) \in Nat /\ Len(t) \in Nat
        /\ \A i \in 1 .. Len(j) : J[i] = j[i]
        /\ \A i \in 1 .. Len(t) : J[Len(j) + i] = t[i]
    BY SeqConcat, SeqHas
  <1>2. PICK c : c = [m \in 1 .. Len(J) |-> IF m <= Len(j) THEN a[m] ELSE k + 1]
    OBVIOUS
  <1>3. PICK d : d = [m \in 1 .. Len(J) |-> IF m <= Len(j) THEN b[m] ELSE m - Len(j)]
    OBVIOUS
  <1>4. PICK l \in Nat, r \in Nat : l = Len(j) /\ r = Len(t) /\ Len(J) = l + r
    BY <1>1
  <1>5. \A m \in 1 .. l : m \in 1 .. Len(J) /\ c[m] = a[m] /\ d[m] = b[m] /\ J[m] = j[m]
    BY <1>1, <1>2, <1>3, <1>4
  <1>6. \A m \in 1 .. Len(J) : ~(m \in 1 .. l) =>
           c[m] = k + 1 /\ d[m] = m - l /\ m - l \in 1 .. r /\ J[m] = t[m - l]
    <2> TAKE m \in 1 .. Len(J)
    <2> HAVE ~(m \in 1 .. l)
    <2>1. m \in l + 1 .. l + r /\ m - l \in 1 .. r /\ l + (m - l) = m /\ ~(m <= l)
      BY <1>4
    <2>2. c[m] = k + 1 /\ d[m] = m - l
      BY <1>2, <1>3, <1>4, <2>1
    <2>3. J[l + (m - l)] = t[m - l]
      BY <1>1, <1>4, <2>1
    <2> QED BY <2>1, <2>2, <2>3
  <1>7. /\ \A m \in 1 .. l : /\ a[m] \in S /\ a[m] \in 1 .. k
                             /\ b[m] \in 1 .. Len(s[a[m]]) /\ j[m] = s[a[m]][b[m]]
        /\ \A m, q \in 1 .. l : m < q => a[m] < a[q] \/ (a[m] = a[q] /\ b[m] < b[q])
        /\ \A n \in 1 .. k : n \in S =>
             \A q \in 1 .. Len(s[n]) : \E m \in 1 .. l : a[m] = n /\ b[m] = q
    BY <1>4 DEF Laid
  <1> HIDE DEF J, t
  <1>8. ASSUME NEW m \in 1 .. Len(J)
        PROVE  /\ c[m] \in S /\ c[m] \in 1 .. k + 1
               /\ d[m] \in 1 .. Len(s[c[m]]) /\ J[m] = s[c[m]][d[m]]
    <2>1. CASE m \in 1 .. l
      <3>1. c[m] = a[m] /\ d[m] = b[m] /\ J[m] = j[m]
        BY <1>5, <2>1
      <3>2. /\ a[m] \in S /\ a[m] \in 1 .. k
            /\ b[m] \in 1 .. Len(s[a[m]]) /\ j[m] = s[a[m]][b[m]]
        BY <1>7, <2>1
      <3>3. a[m] \in 1 .. k + 1
        BY <3>2
      <3> QED BY <3>1, <3>2, <3>3
    <2>2. CASE ~(m \in 1 .. l)
      <3>1. c[m] = k + 1 /\ d[m] = m - l /\ m - l \in 1 .. r /\ J[m] = t[m - l]
        BY <1>6, <2>2
      <3>2. k + 1 \in 1 .. k + 1
        OBVIOUS
      <3> QED BY <1>4, <3>1, <3>2 DEF t
    <2> QED BY <2>1, <2>2
  <1>9. ASSUME NEW m \in 1 .. Len(J), NEW q \in 1 .. Len(J), m < q
        PROVE  c[m] < c[q] \/ (c[m] = c[q] /\ d[m] < d[q])
    <2>1. CASE q \in 1 .. l
      <3>1. m \in 1 .. l
        BY <1>9, <2>1, <1>4
      <3> QED BY <1>5, <1>7, <1>9, <2>1, <3>1
    <2>2. CASE ~(q \in 1 .. l) /\ m \in 1 .. l
      <3>1. c[m] \in 1 .. k /\ c[q] = k + 1
        BY <1>5, <1>6, <1>7, <2>2
      <3> QED BY <3>1
    <2>3. CASE ~(q \in 1 .. l) /\ ~(m \in 1 .. l)
      <3>1. c[m] = k + 1 /\ c[q] = k + 1 /\ d[m] = m - l /\ d[q] = q - l
        BY <1>6, <2>3
      <3> QED BY <1>4, <1>9, <3>1
    <2> QED BY <2>1, <2>2, <2>3
  <1>10. ASSUME NEW n \in 1 .. k + 1, n \in S, NEW q \in 1 .. Len(s[n])
         PROVE  \E m \in 1 .. Len(J) : c[m] = n /\ d[m] = q
    <2>1. CASE n \in 1 .. k
      <3>1. PICK m \in 1 .. l : a[m] = n /\ b[m] = q
        BY <1>7, <1>10, <2>1
      <3> QED BY <1>5, <3>1
    <2>2. CASE n = k + 1
      <3>1. q \in 1 .. r
        BY <1>4, <2>2 DEF t
      <3>2. l + q \in 1 .. Len(J) /\ ~(l + q \in 1 .. l) /\ (l + q) - l = q
        BY <1>4, <3>1
      <3>3. c[l + q] = k + 1 /\ d[l + q] = q
        BY <1>6, <3>2
      <3> QED BY <2>2, <3>2, <3>3
    <2> QED BY <2>1, <2>2
  <1>11. Laid(J, s, S, k + 1, c, d)
    BY <1>8, <1>9, <1>10 DEF Laid
  <1> QED BY <1>11 DEF J, t

\* or left out, when it is not one of S.
LEMMA LaidSame ==
    ASSUME NEW j, NEW s, NEW S, NEW k \in Nat, NEW a, NEW b, Laid(j, s, S, k, a, b), k + 1 \notin S
    PROVE  Laid(j, s, S, k + 1, a, b)
  <1>1. \A n \in 1 .. k + 1 : n \in S => n \in 1 .. k
    OBVIOUS
  <1>2. \A n \in 1 .. k : n \in 1 .. k + 1
    OBVIOUS
  <1> QED BY <1>1, <1>2 DEF Laid

\* What Joined makes of sequences.
LEMMA JoinedIs ==
    ASSUME NEW s, NEW S, Len(s) \in Nat, \A n \in 1 .. Len(s) : n \in S => IsSequence(s[n])
    PROVE  /\ IsSequence(Joined(s, S))
           /\ \E a, b : Laid(Joined(s, S), s, S, Len(s), a, b)
  <1>1. PICK f : /\ f[0] = <<>> /\ f[Len(s)] = Joined(s, S)
                 /\ \A n \in 1 .. Len(s) : f[n] = IF n \in S THEN f[n - 1] \o s[n] ELSE f[n - 1]
    BY JoinedSteps
  <1> DEFINE Fine(k) == IsSequence(f[k]) /\ \E a, b : Laid(f[k], s, S, k, a, b)
             K == {k \in Nat : k <= Len(s) => Fine(k)}
  <1>2. 0 \in K
    <2>1. f[0] = <<>> /\ IsSequence(<<>>) /\ Len(<<>>) = 0
      BY <1>1, SeqEmpty
    <2>2. Laid(<<>>, s, S, 0, <<>>, <<>>)
      BY <2>1 DEF Laid
    <2> QED BY <2>1, <2>2
  <1>3. ASSUME NEW k \in Nat, k \in K PROVE k + 1 \in K
    <2> SUFFICES ASSUME k + 1 <= Len(s) PROVE Fine(k + 1)
      OBVIOUS
    <2>1. Fine(k) /\ k + 1 \in 1 .. Len(s) /\ (k + 1) - 1 = k
      BY <1>3
    <2>2. PICK a, b : Laid(f[k], s, S, k, a, b)
      BY <2>1
    <2>3. f[k + 1] = IF k + 1 \in S THEN f[k] \o s[k + 1] ELSE f[k]
      BY <1>1, <2>1
    <2>4. CASE k + 1 \in S
      <3>1. IsSequence(f[k]) /\ IsSequence(s[k + 1])
        BY <2>1, <2>4
      <3>2. IsSequence(f[k + 1])
        BY <2>3, <2>4, <3>1, SeqConcat
      <3>3. \E c, d : Laid(f[k] \o s[k + 1], s, S, k + 1, c, d)
        BY <2>2, <2>4, <3>1, LaidMore
      <3> QED BY <2>3, <2>4, <3>2, <3>3
    <2>5. CASE k + 1 \notin S
      BY <2>1, <2>2, <2>3, <2>5, LaidSame
    <2> QED BY <2>4, <2>5
  <1>4. Fine(Len(s))
    <2>1. \A k \in Nat : k \in K
      <3> HIDE DEF K
      <3> QED BY <1>2, <1>3, AllNaturals
    <2> QED BY <2>1
  <1> QED BY <1>1, <1>4

\* What Picked makes of a sequence.
LEMMA PickedIs ==
    ASSUME NEW s, NEW S, IsSequence(s)
    PROVE  /\ IsSequence(Picked(s, S))
           /\ \E a : /\ \A m \in 1 .. Len(Picked(s, S)) :
                          a[m] \in S /\ a[m] \in 1 .. Len(s) /\ Picked(s, S)[m] = s[a[m]]
                     /\ \A m, q \in 1 .. Len(Picked(s, S)) : m < q => a[m] < a[q]
                     /\ \A n \in 1 .. Len(s) : n \in S => \E m \in 1 .. Len(Picked(s, S)) : a[m] = n
  <1>1. PICK u : u = [i \in DOMAIN s |-> <<s[i]>>]
    OBVIOUS
  <1>2. DOMAIN s = 1 .. Len(s) /\ Len(s) \in Nat
    BY SeqHas
  <1>3. Len(u) = Len(s)
    <2>1. u = [i \in 1 .. Len(s) |-> u[i]]
      BY <1>1, <1>2
    <2> QED BY <1>2, <2>1, SeqFn
  <1>4. \A n \in 1 .. Len(u) : u[n] = <<s[n]>> /\ IsSequence(u[n]) /\ Len(u[n]) = 1 /\ u[n][1] = s[n]
    BY <1>1, <1>2, <1>3, SeqOne
  <1>5. Picked(s, S) = Joined(u, S)
    BY <1>1 DEF Picked
  <1>6. IsSequence(Joined(u, S)) /\ \E a, b : Laid(Joined(u, S), u, S, Len(u), a, b)
    BY <1>2, <1>3, <1>4, JoinedIs
  <1>7. PICK j, a, b : j = Picked(s, S) /\ Laid(j, u, S, Len(s), a, b)
    BY <1>3, <1>5, <1>6
  <1>8. ASSUME NEW m \in 1 .. Len(j)
        PROVE  a[m] \in S /\ a[m] \in 1 .. Len(s) /\ j[m] = s[a[m]] /\ b[m] = 1
    <2>1. a[m] \in S /\ a[m] \in 1 .. Len(s) /\ b[m] \in 1 .. Len(u[a[m]]) /\ j[m] = u[a[m]][b[m]]
      BY <1>7 DEF Laid
    <2>2. b[m] = 1
      BY <1>3, <1>4, <2>1
    <2> QED BY <1>3, <1>4, <2>1, <2>2
  <1>9. ASSUME NEW m \in 1 .. Len(j), NEW q \in 1 .. Len(j), m < q PROVE a[m] < a[q]
    <2>1. a[m] < a[q] \/ (a[m] = a[q] /\ b[m] < b[q])
      BY <1>7, <1>9 DEF Laid
    <2> QED BY <1>8, <2>1
  <1>10. ASSUME NEW n \in 1 .. Len(s), n \in S PROVE \E m \in 1 .. Len(j) : a[m] = n
    <2>1. 1 \in 1 .. Len(u[n])
      BY <1>3, <1>4
    <2> QED BY <1>7, <1>10, <2>1 DEF Laid
  <1>11. /\ \A m \in 1 .. Len(j) : a[m] \in S /\ a[m] \in 1 .. Len(s) /\ j[m] = s[a[m]]
         /\ \A m, q \in 1 .. Len(j) : m < q => a[m] < a[q]
         /\ \A n \in 1 .. Len(s) : n \in S => \E m \in 1 .. Len(j) : a[m] = n
    BY <1>8, <1>9, <1>10
  <1>12. j = Picked(s, S) /\ IsSequence(Picked(s, S))
    BY <1>5, <1>6, <1>7
  <1> HIDE <1>7
  <1> QED BY <1>11, <1>12

-----------------------------------------------------------------------------
(* What is merged, and what is not.                                        *)

\* What two records match by are identifiers.
LEMMA KeysAre == {"doi", "arxiv"} \subseteq IdNames
  <1>1. 1 \in DOMAIN IdKeys /\ 2 \in DOMAIN IdKeys
    BY DEF IdKeys
  <1>2. IdKeys[1] = "doi" /\ IdKeys[2] = "arxiv"
    BY DEF IdKeys
  <1> QED BY <1>1, <1>2 DEF IdNames, ToSet

\* The first identifier of a kind stays.
FirstKnown(known, obs, k) ==
    \/ known = None /\ \A i \in 1 .. Len(obs) : Identifiers(obs[i])[k] = None
    \/ /\ known # None
       /\ \E i \in 1 .. Len(obs) : /\ known = Identifiers(obs[i])[k]
                                   /\ \A j \in 1 .. i - 1 : Identifiers(obs[j])[k] = None

\* A group has, of each kind, the first identifier its observations know,
LEMMA IdsOfIs ==
    ASSUME NEW obs, IsSequence(obs), NEW k \in IdNames
    PROVE  FirstKnown(IdsOf(obs)[k], obs, k)
  <1> DEFINE known == {i \in DOMAIN obs : Identifiers(obs[i])[k] # None}
  <1>1. DOMAIN obs = 1 .. Len(obs) /\ Len(obs) \in Nat
    BY SeqHas
  <1>2. IdsOf(obs)[k] = IF known = {} THEN None ELSE Identifiers(obs[Least(known)])[k]
    BY DEF IdsOf
  <1>3. CASE known = {}
    BY <1>1, <1>2, <1>3 DEF FirstKnown
  <1>4. CASE known # {}
    <2>0. known \subseteq Nat
      BY <1>1
    <2>1. PICK i : i = Least(known) /\ i \in known /\ \A j \in known : i <= j
      <3> HIDE DEF known
      <3> QED BY <2>0, <1>4, LeastIs
    <2>2. i \in 1 .. Len(obs) /\ Identifiers(obs[i])[k] # None
      BY <1>1, <2>1
    <2>3. ASSUME NEW j \in 1 .. i - 1 PROVE Identifiers(obs[j])[k] = None
      <3>1. j \in 1 .. Len(obs) /\ ~(i <= j)
        BY <1>1, <2>2
      <3>2. j \notin known
        BY <2>1, <3>1
      <3> QED BY <1>1, <3>1, <3>2
    <2>4. IdsOf(obs)[k] = Identifiers(obs[i])[k]
      BY <1>2, <1>4, <2>1
    <2> HIDE DEF known
    <2> QED BY <2>2, <2>3, <2>4 DEF FirstKnown
  <1> QED BY <1>3, <1>4

\* and no other is the first.
LEMMA FirstKnownIs ==
    ASSUME NEW obs, IsSequence(obs), NEW k \in IdNames, NEW x, FirstKnown(x, obs, k)
    PROVE  IdsOf(obs)[k] = x
  <1>1. Len(obs) \in Nat
    BY SeqHas
  <1>2. FirstKnown(IdsOf(obs)[k], obs, k)
    BY IdsOfIs
  <1>3. CASE x = None
    BY <1>2, <1>3 DEF FirstKnown
  <1>4. CASE x # None
    <2>1. PICK i \in 1 .. Len(obs) : /\ x = Identifiers(obs[i])[k]
                                     /\ \A j \in 1 .. i - 1 : Identifiers(obs[j])[k] = None
      BY <1>4 DEF FirstKnown
    <2>2. IdsOf(obs)[k] # None
      BY <1>2, <1>4, <2>1 DEF FirstKnown
    <2>3. PICK n \in 1 .. Len(obs) : /\ IdsOf(obs)[k] = Identifiers(obs[n])[k]
                                     /\ \A j \in 1 .. n - 1 : Identifiers(obs[j])[k] = None
      BY <1>2, <2>2 DEF FirstKnown
    <2>4. ~(i < n)
      <3> SUFFICES ASSUME i < n PROVE FALSE
        OBVIOUS
      <3>1. i \in 1 .. n - 1
        BY <1>1
      <3> QED BY <1>4, <2>1, <2>3, <3>1
    <2>5. ~(n < i)
      <3> SUFFICES ASSUME n < i PROVE FALSE
        OBVIOUS
      <3>1. n \in 1 .. i - 1
        BY <1>1
      <3> QED BY <2>1, <2>2, <2>3, <3>1
    <2>6. i = n
      BY <1>1, <2>4, <2>5
    <2> QED BY <2>1, <2>3, <2>6
  <1> QED BY <1>3, <1>4

\* One more observation adds what the group does not know.
LEMMA IdsOfAppend ==
    ASSUME NEW obs, NEW o, IsSequence(obs), NEW k \in IdNames
    PROVE  IdsOf(Append(obs, o))[k] = IF IdsOf(obs)[k] # None THEN IdsOf(obs)[k] ELSE Identifiers(o)[k]
  <1>1. PICK both : both = Append(obs, o)
    OBVIOUS
  <1>2. PICK l \in Nat : l = Len(obs)
    BY SeqHas
  <1>3. /\ IsSequence(both) /\ Len(both) = l + 1 /\ both[l + 1] = o
        /\ \A i \in 1 .. l : both[i] = obs[i]
    BY <1>1, <1>2, SeqAppend
  <1>4. FirstKnown(IdsOf(obs)[k], obs, k)
    BY IdsOfIs
  <1>5. CASE IdsOf(obs)[k] # None
    <2>1. PICK i \in 1 .. l : /\ IdsOf(obs)[k] = Identifiers(obs[i])[k]
                              /\ \A j \in 1 .. i - 1 : Identifiers(obs[j])[k] = None
      BY <1>2, <1>4, <1>5 DEF FirstKnown
    <2>2. i \in 1 .. l + 1 /\ both[i] = obs[i] /\ \A j \in 1 .. i - 1 : both[j] = obs[j]
      BY <1>3
    <2>3. FirstKnown(IdsOf(obs)[k], both, k)
      BY <1>3, <1>5, <2>1, <2>2 DEF FirstKnown
    <2> QED BY <1>1, <1>3, <1>5, <2>3, FirstKnownIs
  <1>6. CASE IdsOf(obs)[k] = None
    <2>1. \A i \in 1 .. l : Identifiers(both[i])[k] = None
      BY <1>2, <1>3, <1>4, <1>6 DEF FirstKnown
    <2>2. FirstKnown(Identifiers(o)[k], both, k)
      <3>1. CASE Identifiers(o)[k] = None
        <4>1. \A i \in 1 .. l + 1 : i \in 1 .. l \/ i = l + 1
          OBVIOUS
        <4> QED BY <1>3, <2>1, <3>1, <4>1 DEF FirstKnown
      <3>2. CASE Identifiers(o)[k] # None
        <4>1. l + 1 \in 1 .. l + 1 /\ (l + 1) - 1 = l
          OBVIOUS
        <4> QED BY <1>3, <2>1, <3>2, <4>1 DEF FirstKnown
      <3> QED BY <3>1, <3>2
    <2> QED BY <1>1, <1>3, <1>6, <2>2, FirstKnownIs
  <1> QED BY <1>5, <1>6

\* Of several papers, the first that has one.
FirstPaper(x, groups, S, k) ==
    \/ x = None /\ \A n \in S : IdsOf(groups[n])[k] = None
    \/ /\ x # None
       /\ \E n \in S : /\ x = IdsOf(groups[n])[k]
                       /\ \A m \in S : m < n => IdsOf(groups[m])[k] = None

\* Groups that are joined have what the first of them to know it has.
LEMMA IdsOfJoined ==
    ASSUME NEW groups, NEW S, IsSequence(groups), S \subseteq 1 .. Len(groups),
           \A n \in 1 .. Len(groups) : IsSequence(groups[n]), NEW k \in IdNames
    PROVE  FirstPaper(IdsOf(Joined(groups, S))[k], groups, S, k)
  <1>1. PICK j : j = Joined(groups, S)
    OBVIOUS
  <1>2. Len(groups) \in Nat
    BY SeqHas
  <1>3. PICK a, b : Laid(j, groups, S, Len(groups), a, b)
    BY <1>1, <1>2, JoinedIs
  <1>4. IsSequence(j) /\ Len(j) \in Nat
    BY <1>1, <1>2, JoinedIs, SeqHas
  <1>5. /\ \A m \in 1 .. Len(j) : /\ a[m] \in S /\ a[m] \in 1 .. Len(groups)
                                  /\ b[m] \in 1 .. Len(groups[a[m]]) /\ j[m] = groups[a[m]][b[m]]
        /\ \A m, q \in 1 .. Len(j) : m < q => a[m] < a[q] \/ (a[m] = a[q] /\ b[m] < b[q])
        /\ \A n \in 1 .. Len(groups) : n \in S =>
             \A q \in 1 .. Len(groups[n]) : \E m \in 1 .. Len(j) : a[m] = n /\ b[m] = q
    BY <1>3 DEF Laid
  <1>6. FirstKnown(IdsOf(j)[k], j, k)
    BY <1>4, IdsOfIs
  <1>7. CASE IdsOf(j)[k] = None
    <2>1. \A m \in 1 .. Len(j) : Identifiers(j[m])[k] = None
      BY <1>6, <1>7 DEF FirstKnown
    <2>2. ASSUME NEW n \in S PROVE IdsOf(groups[n])[k] = None
      <3>1. \A q \in 1 .. Len(groups[n]) : Identifiers(groups[n][q])[k] = None
        BY <1>5, <2>1
      <3>2. FirstKnown(None, groups[n], k)
        BY <3>1 DEF FirstKnown
      <3> QED BY <3>2, FirstKnownIs
    <2> QED BY <1>1, <1>7, <2>2 DEF FirstPaper
  <1>8. CASE IdsOf(j)[k] # None
    <2>1. PICK m \in 1 .. Len(j) : /\ IdsOf(j)[k] = Identifiers(j[m])[k]
                                   /\ \A q \in 1 .. m - 1 : Identifiers(j[q])[k] = None
      BY <1>6, <1>8 DEF FirstKnown
    <2>2. PICK n, i : /\ n \in S /\ n = a[m] /\ i = b[m] /\ i \in 1 .. Len(groups[n])
                /\ n \in 1 .. Len(groups) /\ j[m] = groups[n][i]
      BY <1>5
    <2>3. Len(groups[n]) \in Nat
      BY <2>2, SeqHas
    <2>4. ASSUME NEW r \in S, NEW q \in 1 .. Len(groups[r]), r < n \/ (r = n /\ q < i)
          PROVE  Identifiers(groups[r][q])[k] = None
      <3>1. PICK p \in 1 .. Len(j) : a[p] = r /\ b[p] = q
        <4>1. r \in 1 .. Len(groups)
          OBVIOUS
        <4>2. \A x \in 1 .. Len(groups[r]) : \E y \in 1 .. Len(j) : a[y] = r /\ b[y] = x
          BY <1>5, <4>1
        <4> QED BY <4>2
      <3>2. j[p] = groups[r][q]
        BY <1>5, <3>1
      <3>3. r \in Int /\ q \in Int /\ n \in Int /\ i \in Int /\ p \in Int /\ m \in Int
        <4>1. r \in 1 .. Len(groups)
          OBVIOUS
        <4>2. Len(groups[r]) \in Nat
          BY <4>1, SeqHas
        <4> QED BY <1>2, <1>4, <2>2, <2>3, <4>1, <4>2
      <3>4. ~(m < p)
        <4> SUFFICES ASSUME m < p PROVE FALSE
          OBVIOUS
        <4>1. n < r \/ (n = r /\ i < q)
          BY <1>5, <2>2, <3>1
        <4> QED BY <2>4, <3>3, <4>1
      <3>5. m # p
        BY <2>2, <2>4, <3>1, <3>3
      <3>6. p \in 1 .. m - 1
        BY <1>4, <3>3, <3>4, <3>5
      <3> QED BY <2>1, <3>2, <3>6
    <2>5. IdsOf(groups[n])[k] = IdsOf(j)[k]
      <3>1. \A q \in 1 .. i - 1 : q \in 1 .. Len(groups[n]) /\ q < i
        BY <2>2, <2>3
      <3>2. FirstKnown(IdsOf(j)[k], groups[n], k)
        BY <1>8, <2>1, <2>2, <2>4, <3>1 DEF FirstKnown
      <3> QED BY <2>2, <3>2, FirstKnownIs
    <2>6. ASSUME NEW r \in S, r < n PROVE IdsOf(groups[r])[k] = None
      <3>1. FirstKnown(None, groups[r], k)
        BY <2>4, <2>6 DEF FirstKnown
      <3> QED BY <3>1, FirstKnownIs
    <2> QED BY <1>1, <1>8, <2>2, <2>5, <2>6 DEF FirstPaper
  <1> QED BY <1>7, <1>8

\* Matching is symmetric.
LEMMA MatchBothWays == ASSUME NEW a, NEW b, Match(a, b) PROVE Match(b, a)
  BY DEF Match, Apart

\* M has the identifiers of the papers at S, which match I, and of I.
Merges(groups, S, I, M, C, F) ==
    /\ S \subseteq Int
    /\ \A n \in S : Match(IdsOf(groups[n]), I) /\ ~Match(IdsOf(groups[n]), C)
    /\ ~Match(C, I)
    /\ \A k \in IdNames : FirstPaper(F[k], groups, S, k)
    /\ \A k \in IdNames : M[k] = IF F[k] # None THEN F[k] ELSE I[k]

\* A paper that does not match a record does not match what the record joins.
\* It could only through identifiers of two of the papers joined; those are
\* apart from it by another DOI or arXiv number, and of the two kinds, the
\* earlier paper would have given its own.
LEMMA MergedApart ==
    ASSUME NEW groups, NEW S, NEW I, NEW M, NEW C, NEW F, Merges(groups, S, I, M, C, F)
    PROVE  ~Match(M, C)
  <1> SUFFICES ASSUME Match(M, C) PROVE FALSE
    OBVIOUS
  <1>0. /\ S \subseteq Int
        /\ \A n \in S : Match(IdsOf(groups[n]), I) /\ ~Match(IdsOf(groups[n]), C)
        /\ ~Match(C, I)
        /\ \A k \in IdNames : FirstPaper(F[k], groups, S, k)
        /\ \A k \in IdNames : M[k] = IF F[k] # None THEN F[k] ELSE I[k]
    BY DEF Merges
  <1> USE <1>0
  <1> DEFINE Ids(n) == IdsOf(groups[n])
  <1>1. PICK k \in IdNames : M[k] # None /\ M[k] = C[k]
    BY DEF Match
  <1>2. \A d \in {"doi", "arxiv"} : d \in IdNames
    BY KeysAre
  <1>3. \A d \in {"doi", "arxiv"} : (M[d] # None /\ C[d] # None) => M[d] = C[d]
    BY DEF Match, Apart
  <1>4. \A n \in S, d \in {"doi", "arxiv"} : (Ids(n)[d] # None /\ I[d] # None) => Ids(n)[d] = I[d]
    BY DEF Match, Apart
  <1>5. ASSUME NEW n \in S, NEW c \in IdNames, Ids(n)[c] # None, Ids(n)[c] = C[c]
        PROVE  \E d \in {"doi", "arxiv"} : Ids(n)[d] # None /\ C[d] # None /\ Ids(n)[d] # C[d]
    BY <1>5 DEF Match, Apart
  \* At a DOI or arXiv number where one of them differs from C, an earlier one has that of C.
  <1>6. ASSUME NEW n \in S, NEW d \in {"doi", "arxiv"}, Ids(n)[d] # None, C[d] # None, Ids(n)[d] # C[d]
        PROVE  \E m \in S : /\ m < n /\ Ids(m)[d] # None /\ Ids(m)[d] = C[d]
                            /\ \A r \in S : r < m => Ids(r)[d] = None
    <2>1. F[d] # None
      BY <1>2, <1>6 DEF FirstPaper
    <2>2. F[d] = C[d]
      BY <1>2, <1>3, <1>6, <2>1
    <2>3. PICK m \in S : F[d] = Ids(m)[d] /\ \A r \in S : r < m => Ids(r)[d] = None
      BY <1>2, <2>1 DEF FirstPaper
    <2>4. m # n /\ ~(n < m)
      BY <1>6, <2>2, <2>3
    <2>5. m < n
      <3>1. m \in Int /\ n \in Int
        BY <1>0
      <3> HIDE <1>0
      <3> QED BY <2>4, <3>1
    <2> QED BY <2>1, <2>2, <2>3, <2>5
  <1>7. ASSUME NEW n \in S, Ids(n)[k] # None, Ids(n)[k] = C[k] PROVE FALSE
    <2>1. PICK d \in {"doi", "arxiv"} : Ids(n)[d] # None /\ C[d] # None /\ Ids(n)[d] # C[d]
      BY <1>5, <1>7
    <2>2. PICK m \in S : /\ m < n /\ Ids(m)[d] # None /\ Ids(m)[d] = C[d]
                         /\ \A r \in S : r < m => Ids(r)[d] = None
      BY <1>6, <2>1
    <2>3. PICK e \in {"doi", "arxiv"} : Ids(m)[e] # None /\ C[e] # None /\ Ids(m)[e] # C[e]
      BY <1>2, <1>5, <2>2
    <2>4. PICK w \in S : /\ w < m /\ Ids(w)[e] # None /\ Ids(w)[e] = C[e]
      BY <1>6, <2>3
    <2>5. PICK f \in {"doi", "arxiv"} : Ids(w)[f] # None /\ C[f] # None /\ Ids(w)[f] # C[f]
      BY <1>2, <1>5, <2>4
    <2>6. e # d /\ f # e
      BY <2>2, <2>3, <2>4, <2>5
    <2>7. f = d
      BY <2>6
    <2> QED BY <2>2, <2>4, <2>5, <2>7
  <1>8. F[k] = None /\ I[k] = C[k] /\ I[k] # None
    <2>1. CASE F[k] # None
      <3>1. PICK n \in S : F[k] = Ids(n)[k]
        BY <2>1 DEF FirstPaper
      <3> QED BY <1>1, <1>7, <2>1, <3>1
    <2> QED BY <1>1, <2>1
  <1>9. PICK d \in {"doi", "arxiv"} : C[d] # None /\ I[d] # None /\ C[d] # I[d]
    BY <1>8 DEF Match, Apart
  <1>10. M[d] = C[d] /\ F[d] # None
    BY <1>2, <1>3, <1>9
  <1>11. PICK n \in S : F[d] = Ids(n)[d]
    BY <1>2, <1>10 DEF FirstPaper
  <1> QED BY <1>2, <1>4, <1>9, <1>10, <1>11

\* The papers of a list are apart.
AllApart(groups) ==
    \A i, j \in 1 .. Len(groups) : i # j => ~Match(IdsOf(groups[i]), IdsOf(groups[j]))

\* What AddRecord keeps: groups of observations, no two of which match.
GroupsOK(groups) ==
    /\ IsSequence(groups)
    /\ \A i \in 1 .. Len(groups) : IsSequence(groups[i])
    /\ AllApart(groups)

\* A record that joins the groups it matches leaves no two that match.
LEMMA AddRecordKeeps ==
    ASSUME NEW groups, NEW o, GroupsOK(groups)
    PROVE  GroupsOK(AddRecord(groups, o))
  <1> DEFINE I == Identifiers(o)
             found == Matching(groups, o)
             first == Least(found)
             merged == Append(Joined(groups, found), o)
             placed == [groups EXCEPT ![first] = merged]
             rest == (DOMAIN groups \ found) \cup {first}
  <1>1. PICK N \in Nat : N = Len(groups) /\ DOMAIN groups = 1 .. N
    BY SeqHas DEF GroupsOK
  <1>2. found = {i \in 1 .. N : Match(IdsOf(groups[i]), I)}
    BY <1>1 DEF Matching
  <1>3. \A i \in 1 .. N : IsSequence(groups[i])
    BY <1>1 DEF GroupsOK
  <1>4. \A i, j \in 1 .. N : i # j => ~Match(IdsOf(groups[i]), IdsOf(groups[j]))
    BY <1>1 DEF GroupsOK, AllApart
  <1>5. AddRecord(groups, o) = IF found = {} THEN Append(groups, <<o>>) ELSE Picked(placed, rest)
    BY DEF AddRecord
  <1>6. I = [k \in IdNames |-> I[k]]
    BY DEF Identifiers
  <1>7. CASE found = {}
    <2>1. PICK g : g = Append(groups, <<o>>)
      OBVIOUS
    <2>2. /\ IsSequence(g) /\ Len(g) = N + 1 /\ g[N + 1] = <<o>>
          /\ \A i \in 1 .. N : g[i] = groups[i]
      BY <1>1, <2>1, SeqAppend DEF GroupsOK
    <2>3. IsSequence(<<o>>)
      BY SeqOne
    <2>4. IdsOf(<<o>>) = I
      <3>1. \A k \in IdNames : IdsOf(<<o>>)[k] = I[k]
        <4> TAKE k \in IdNames
        <4>1. <<o>>[1] = o /\ Len(<<o>>) = 1
          OBVIOUS
        <4>2. FirstKnown(I[k], <<o>>, k)
          BY <4>1 DEF FirstKnown
        <4> QED BY <2>3, <4>2, FirstKnownIs
      <3>2. IdsOf(<<o>>) = [k \in IdNames |-> IdsOf(<<o>>)[k]]
        BY DEF IdsOf
      <3> HIDE DEF I
      <3> QED BY <1>6, <3>1, <3>2
    <2>5. \A i \in 1 .. N + 1 : i \in 1 .. N \/ i = N + 1
      OBVIOUS
    <2>6. \A i \in 1 .. N : ~Match(IdsOf(groups[i]), I) /\ ~Match(I, IdsOf(groups[i]))
      BY <1>2, <1>7, MatchBothWays
    <2>7. AllApart(g)
      <3> HIDE DEF I
      <3> QED BY <1>4, <2>2, <2>4, <2>5, <2>6 DEF AllApart
    <2> QED BY <1>3, <1>5, <1>7, <2>1, <2>2, <2>3, <2>5, <2>7 DEF GroupsOK
  <1>8. CASE found # {}
    <2>1. first \in found /\ first \in 1 .. N /\ found \subseteq 1 .. N
      <3>1. found \subseteq Nat
        BY <1>2
      <3> HIDE DEF found
      <3>2. first \in found
        BY <3>1, <1>8, LeastIs
      <3> QED BY <1>2, <3>2
    <2> HIDE DEF found, first
    <2>2. IsSequence(Joined(groups, found))
      BY <1>1, <1>3, JoinedIs
    <2>3. IsSequence(merged)
      BY <2>2, SeqAppend
    <2>4. \A k \in IdNames : FirstPaper(IdsOf(Joined(groups, found))[k], groups, found, k)
      BY <1>1, <1>3, <2>1, IdsOfJoined DEF GroupsOK
    <2>5. \A k \in IdNames : IdsOf(merged)[k] = IF IdsOf(Joined(groups, found))[k] # None
                                                THEN IdsOf(Joined(groups, found))[k] ELSE I[k]
      BY <2>2, IdsOfAppend
    <2> HIDE DEF merged
    <2>6. ASSUME NEW c \in 1 .. N, c \notin found PROVE ~Match(IdsOf(merged), IdsOf(groups[c]))
      <3>1. \A n \in found : Match(IdsOf(groups[n]), I) /\ ~Match(IdsOf(groups[n]), IdsOf(groups[c]))
        BY <1>2, <1>4, <2>1, <2>6
      <3>2. ~Match(IdsOf(groups[c]), I)
        BY <1>2, <2>6
      <3>3. found \subseteq Int
        BY <2>1
      <3> HIDE DEF I
      <3>4. PICK F : F = IdsOf(Joined(groups, found))
        OBVIOUS
      <3>5. PICK M, C, J : M = IdsOf(merged) /\ C = IdsOf(groups[c]) /\ J = I
        OBVIOUS
      <3>6. \A k \in IdNames : FirstPaper(F[k], groups, found, k)
        BY <2>4, <3>4
      <3>7. \A k \in IdNames : M[k] = IF F[k] # None THEN F[k] ELSE J[k]
        BY <2>5, <3>4, <3>5
      <3>8. \A n \in found : Match(IdsOf(groups[n]), J) /\ ~Match(IdsOf(groups[n]), C)
        BY <3>1, <3>5
      <3>9. ~Match(C, J)
        BY <3>2, <3>5
      <3>10. Merges(groups, found, J, M, C, F)
        BY <3>3, <3>6, <3>7, <3>8, <3>9 DEF Merges
      <3>11. ~Match(M, C)
        BY <3>10, MergedApart
      <3> QED BY <3>5, <3>11
    <2>7. /\ placed = [i \in 1 .. N |-> placed[i]]
          /\ \A i \in 1 .. N : placed[i] = IF i = first THEN merged ELSE groups[i]
      <3>1. groups = [i \in 1 .. N |-> groups[i]]
        <4>1. groups \in Seq(ToSet(groups))
          BY SeqHas DEF GroupsOK
        <4> QED BY <1>1, <4>1
      <3> QED BY <1>1, <2>1, <3>1
    <2>8. IsSequence(placed) /\ Len(placed) = N
      <3> HIDE DEF placed
      <3> QED BY <2>7, SeqFn
    <2> HIDE DEF placed
    <2>9. PICK g, a : /\ g = Picked(placed, rest) /\ IsSequence(g)
                      /\ \A m \in 1 .. Len(g) : a[m] \in rest /\ a[m] \in 1 .. N /\ g[m] = placed[a[m]]
                      /\ \A m, q \in 1 .. Len(g) : m < q => a[m] < a[q]
      <3> HIDE DEF rest
      <3>1. PICK S : S = rest
        OBVIOUS
      <3> QED BY <2>8, <3>1, PickedIs
    <2>10. Len(g) \in Nat
      BY <2>9, SeqHas
    <2>11. \A m \in 1 .. Len(g) : a[m] = first \/ a[m] \notin found
      BY <2>9 DEF rest
    <2>12. ASSUME NEW m \in 1 .. Len(g) PROVE IsSequence(g[m])
      <3>1. PICK i \in 1 .. N : g[m] = placed[i]
        BY <2>9
      <3>2. placed[i] = IF i = first THEN merged ELSE groups[i]
        BY <2>7
      <3> QED BY <1>3, <2>3, <3>1, <3>2
    <2>13. ASSUME NEW m \in 1 .. Len(g), NEW q \in 1 .. Len(g), m # q
           PROVE  ~Match(IdsOf(g[m]), IdsOf(g[q]))
      <3>1. a[m] # a[q] /\ a[m] \in 1 .. N /\ a[q] \in 1 .. N
        <4>1. m < q \/ q < m
          BY <2>10, <2>13
        <4>2. a[m] < a[q] \/ a[q] < a[m]
          BY <2>9, <4>1
        <4>3. a[m] \in 1 .. N /\ a[q] \in 1 .. N
          BY <2>9
        <4> QED BY <4>2, <4>3
      <3>2. CASE a[m] # first /\ a[q] # first
        <4>1. g[m] = groups[a[m]] /\ g[q] = groups[a[q]]
          BY <2>7, <2>9, <3>1, <3>2
        <4> QED BY <1>4, <3>1, <4>1
      <3>3. CASE a[m] = first
        <4>1. a[q] \notin found /\ g[m] = merged /\ g[q] = groups[a[q]]
          BY <2>7, <2>9, <2>11, <3>1, <3>3
        <4> QED BY <2>6, <3>1, <4>1
      <3>4. CASE a[q] = first
        <4>1. a[m] \notin found /\ g[q] = merged /\ g[m] = groups[a[m]]
          BY <2>7, <2>9, <2>11, <3>1, <3>4
        <4> QED BY <2>6, <3>1, <4>1, MatchBothWays
      <3> QED BY <3>2, <3>3, <3>4
    <2>14. GroupsOK(g)
      BY <2>9, <2>12, <2>13 DEF GroupsOK, AllApart
    <2> QED BY <1>5, <1>8, <2>9, <2>14
  <1> QED BY <1>7, <1>8

\* Groups, record by record.
LEMMA GroupsSteps ==
    ASSUME NEW s, Len(s) \in Nat
    PROVE  \E f : /\ f[0] = <<>> /\ f[Len(s)] = Groups(s)
                  /\ \A n \in 1 .. Len(s) :
                       f[n] = IF HasIdentity(s[n]) THEN AddRecord(f[n - 1], [s[n] EXCEPT !.rank = n])
                              ELSE f[n - 1]
  <1> DEFINE Step(n, x) == IF HasIdentity(s[n]) THEN AddRecord(x, [s[n] EXCEPT !.rank = n]) ELSE x
             Is(f, k) == f = [n \in 0 .. k |-> IF n = 0 THEN <<>> ELSE Step(n, f[n - 1])]
             K == {k \in Nat : \E f : Is(f, k)}
  <1>1. 0 \in K
    <2>1. Is([n \in 0 .. 0 |-> <<>>], 0)
      OBVIOUS
    <2> HIDE DEF Is
    <2> QED BY <2>1
  <1>2. ASSUME NEW k \in Nat, k \in K PROVE k + 1 \in K
    <2>1. PICK f : Is(f, k)
      BY <1>2
    <2>2. PICK g : g = [n \in 0 .. k + 1 |-> IF n = k + 1 THEN Step(k + 1, f[k]) ELSE f[n]]
      OBVIOUS
    <2> HIDE DEF Step
    <2>3. \A n \in 0 .. k : f[n] = IF n = 0 THEN <<>> ELSE Step(n, f[n - 1])
      BY <2>1
    <2>4. \A n \in 0 .. k + 1 : g[n] = IF n = 0 THEN <<>> ELSE Step(n, g[n - 1])
      <3> TAKE n \in 0 .. k + 1
      <3>1. CASE n = k + 1
        <4>1. k \in 0 .. k + 1 /\ k # k + 1 /\ n # 0 /\ n - 1 = k
          BY <3>1
        <4>2. g[k] = f[k] /\ g[n] = Step(k + 1, f[k])
          BY <2>2, <3>1, <4>1
        <4> QED BY <3>1, <4>1, <4>2
      <3>2. CASE n \in 1 .. k
        <4>1. n \in 0 .. k /\ n # 0 /\ n # k + 1 /\ n - 1 \in 0 .. k + 1 /\ n - 1 # k + 1
          BY <3>2
        <4>2. g[n - 1] = f[n - 1] /\ g[n] = f[n]
          BY <2>2, <4>1
        <4> QED BY <2>3, <4>1, <4>2
      <3>3. CASE n = 0
        <4>1. g[0] = f[0] /\ f[0] = <<>>
          BY <2>2, <2>3
        <4> QED BY <3>3, <4>1
      <3> QED BY <3>1, <3>2, <3>3
    <2>5. g = [n \in 0 .. k + 1 |-> g[n]]
      BY <2>2
    <2>6. Is(g, k + 1)
      BY <2>4, <2>5
    <2> HIDE DEF Is
    <2> QED BY <2>6
  <1>3. \E f : Is(f, Len(s))
    <2> HIDE DEF Is
    <2>1. \A n \in Nat : n \in K
      <3> HIDE DEF K
      <3> QED BY <1>1, <1>2, AllNaturals
    <2> QED BY <2>1
  <1>4. Is(CHOOSE f : Is(f, Len(s)), Len(s))
    <2> HIDE DEF Is
    <2> QED BY <1>3
  <1>5. PICK f : Is(f, Len(s)) /\ Groups(s) = f[Len(s)]
    BY <1>4 DEF Groups
  <1>6. \A n \in 0 .. Len(s) : f[n] = IF n = 0 THEN <<>> ELSE Step(n, f[n - 1])
    <2> HIDE DEF Step
    <2> QED BY <1>5
  <1>7. \A n \in 1 .. Len(s) : f[n] = Step(n, f[n - 1])
    BY <1>6
  <1>9. \A n \in 1 .. Len(s) :
           f[n] = IF HasIdentity(s[n]) THEN AddRecord(f[n - 1], [s[n] EXCEPT !.rank = n])
                  ELSE f[n - 1]
    BY <1>7, Zenon
  <1> HIDE DEF Step
  <1>8. f[0] = <<>>
    BY <1>6
  <1>10. f[Len(s)] = Groups(s)
    BY <1>5
  <1> HIDE DEF Is
  <1> QED BY <1>8, <1>9, <1>10

\* So no two groups of any list of observations match,
LEMMA GroupsAre ==
    ASSUME NEW s, Len(s) \in Nat
    PROVE  GroupsOK(Groups(s))
  <1>1. PICK f : /\ f[0] = <<>> /\ f[Len(s)] = Groups(s)
                 /\ \A n \in 1 .. Len(s) :
                      f[n] = IF HasIdentity(s[n]) THEN AddRecord(f[n - 1], [s[n] EXCEPT !.rank = n])
                             ELSE f[n - 1]
    BY GroupsSteps
  <1> DEFINE K == {k \in Nat : k <= Len(s) => GroupsOK(f[k])}
  <1>2. 0 \in K
    BY <1>1, SeqEmpty DEF GroupsOK, AllApart
  <1>3. ASSUME NEW k \in Nat, k \in K PROVE k + 1 \in K
    <2> SUFFICES ASSUME k + 1 <= Len(s) PROVE GroupsOK(f[k + 1])
      OBVIOUS
    <2>1. GroupsOK(f[k]) /\ k + 1 \in 1 .. Len(s) /\ (k + 1) - 1 = k
      BY <1>3
    <2>2. f[k + 1] = f[k] \/ \E o : f[k + 1] = AddRecord(f[k], o)
      BY <1>1, <2>1
    <2> QED BY <2>1, <2>2, AddRecordKeeps
  <1>4. \A k \in Nat : k \in K
    <2> HIDE DEF K
    <2> QED BY <1>2, <1>3, AllNaturals
  <1> QED BY <1>1, <1>4

\* The papers of a list of which no two match.
PapersOK(papers) ==
    /\ IsSequence(papers)
    /\ \A i \in 1 .. Len(papers) : IsSequence(papers[i].obs)
    /\ \A i, j \in 1 .. Len(papers) : i # j => ~Match(papers[i].ids, papers[j].ids)

\* nor two of the papers they become,
LEMMA MergedPapers ==
    ASSUME NEW recs, Len(recs) \in Nat
    PROVE  PapersOK(MergePaperRecords(recs))
  <1>1. PICK g : g = Groups(recs) /\ GroupsOK(g)
    BY GroupsAre
  <1>2. PICK p : p = MergePaperRecords(recs)
    OBVIOUS
  <1>3. Len(g) \in Nat /\ DOMAIN g = 1 .. Len(g)
    BY <1>1, SeqHas DEF GroupsOK
  <1>4. p = [i \in 1 .. Len(g) |-> Paper(g[i])]
    BY <1>1, <1>2, <1>3 DEF MergePaperRecords
  <1>5. IsSequence(p) /\ Len(p) = Len(g)
    <2>1. p = [i \in 1 .. Len(g) |-> p[i]]
      BY <1>4
    <2> QED BY <1>3, <2>1, SeqFn
  <1>6. \A i \in 1 .. Len(g) : p[i].obs = g[i] /\ p[i].ids = IdsOf(g[i])
    BY <1>4 DEF Paper
  <1> QED BY <1>1, <1>2, <1>5, <1>6 DEF GroupsOK, AllApart, PapersOK

\* Different places of t have what different places of s have.
Among(t, s) ==
    /\ IsSequence(t)
    /\ \A m \in 1 .. Len(t) : \E i \in 1 .. Len(s) : t[m] = s[i]
    /\ \A m, q \in 1 .. Len(t) : m # q =>
         \E i, j \in 1 .. Len(s) : i # j /\ t[m] = s[i] /\ t[q] = s[j]

\* and what is left of papers that are apart is apart:
LEMMA AmongOK ==
    ASSUME NEW t, NEW s, Among(t, s), PapersOK(s)
    PROVE  PapersOK(t)
  <1>1. \A m \in 1 .. Len(t) : IsSequence(t[m].obs)
    BY DEF Among, PapersOK
  <1>2. ASSUME NEW m \in 1 .. Len(t), NEW q \in 1 .. Len(t), m # q
        PROVE  ~Match(t[m].ids, t[q].ids)
    <2>1. PICK i \in 1 .. Len(s), j \in 1 .. Len(s) : i # j /\ t[m] = s[i] /\ t[q] = s[j]
      BY <1>2 DEF Among
    <2> QED BY <2>1 DEF PapersOK
  <1> QED BY <1>1, <1>2 DEF Among, PapersOK

\* picking some of them leaves different ones,
LEMMA PickedAmong ==
    ASSUME NEW s, NEW S, IsSequence(s)
    PROVE  Among(Picked(s, S), s)
  <1>1. PICK t, a : /\ t = Picked(s, S) /\ IsSequence(t)
                    /\ \A m \in 1 .. Len(t) : a[m] \in S /\ a[m] \in 1 .. Len(s) /\ t[m] = s[a[m]]
                    /\ \A m, q \in 1 .. Len(t) : m < q => a[m] < a[q]
    BY PickedIs
  <1>2. Len(t) \in Nat /\ Len(s) \in Nat
    BY <1>1, SeqHas
  <1>3. ASSUME NEW m \in 1 .. Len(t), NEW q \in 1 .. Len(t), m # q
        PROVE  \E i, j \in 1 .. Len(s) : i # j /\ t[m] = s[i] /\ t[q] = s[j]
    <2>1. m < q \/ q < m
      BY <1>2, <1>3
    <2>2. a[m] < a[q] \/ a[q] < a[m]
      BY <1>1, <2>1
    <2>3. /\ a[m] \in 1 .. Len(s) /\ a[q] \in 1 .. Len(s)
          /\ t[m] = s[a[m]] /\ t[q] = s[a[q]]
      BY <1>1
    <2>4. a[m] # a[q]
      BY <1>2, <2>2, <2>3
    <2> QED BY <2>3, <2>4
  <1>4. \A m \in 1 .. Len(t) : \E i \in 1 .. Len(s) : t[m] = s[i]
    BY <1>1
  <1>5. Among(t, s)
    BY <1>1, <1>3, <1>4 DEF Among
  <1> QED BY <1>1, <1>5

\* and so does sorting them.
LEMMA SortedAmong ==
    ASSUME NEW recs, IsSequence(recs)
    PROVE  Among(Sorted(recs), MergePaperRecords(recs))
  <1>1. PICK N \in Nat : N = Len(recs) /\ DOMAIN recs = 1 .. N
    BY SeqHas
  <1>2. PICK p : p = MergePaperRecords(recs) /\ IsSequence(p)
    BY <1>1, MergedPapers DEF PapersOK
  <1> DEFINE ranked(n) == {i \in DOMAIN p : BestRank(p[i]) = n}
  <1>3. PICK u : u = [n \in 1 .. N |-> Picked(p, ranked(n))]
    OBVIOUS
  <1>4. PICK t : t = Sorted(recs)
    OBVIOUS
  <1>5. t = Joined(u, DOMAIN u)
    BY <1>1, <1>2, <1>3, <1>4 DEF Sorted, All
  <1>6. Len(u) = N /\ DOMAIN u = 1 .. N
    <2>1. u = [n \in 1 .. N |-> u[n]]
      BY <1>3
    <2> HIDE DEF ranked
    <2>2. Len(u) = N
      BY <2>1, SeqFn
    <2> QED BY <1>3, <2>2
  <1>7. \A n \in 1 .. N : u[n] = Picked(p, ranked(n))
    BY <1>3
  <1>8. ASSUME NEW n \in 1 .. N
        PROVE  /\ IsSequence(u[n]) /\ Among(u[n], p)
               /\ \A q \in 1 .. Len(u[n]) : \E i \in 1 .. Len(p) : u[n][q] = p[i] /\ BestRank(p[i]) = n
    <2>1. PICK S : S = ranked(n)
      OBVIOUS
    <2>2. u[n] = Picked(p, S)
      BY <1>7, <2>1
    <2>3. PICK a : \A q \in 1 .. Len(u[n]) : a[q] \in S /\ a[q] \in 1 .. Len(p) /\ u[n][q] = p[a[q]]
      BY <1>2, <2>2, PickedIs
    <2>4. Among(u[n], p)
      BY <1>2, <2>2, PickedAmong
    <2>5. \A i \in S : BestRank(p[i]) = n
      BY <2>1
    <2> QED BY <2>3, <2>4, <2>5 DEF Among
  <1> HIDE DEF ranked
  <1>9. PICK a, b : IsSequence(t) /\ Laid(t, u, DOMAIN u, N, a, b)
    BY <1>5, <1>6, <1>8, JoinedIs
  <1>10. \A m \in 1 .. Len(t) : a[m] \in 1 .. N /\ b[m] \in 1 .. Len(u[a[m]]) /\ t[m] = u[a[m]][b[m]]
    BY <1>9 DEF Laid
  <1>11. ASSUME NEW m \in 1 .. Len(t)
         PROVE  \E i \in 1 .. Len(p) : t[m] = p[i] /\ BestRank(p[i]) = a[m]
    <2>1. PICK n, q : n \in 1 .. N /\ n = a[m] /\ q \in 1 .. Len(u[n]) /\ t[m] = u[n][q]
      BY <1>10
    <2>2. \E i \in 1 .. Len(p) : u[n][q] = p[i] /\ BestRank(p[i]) = n
      BY <1>8, <2>1
    <2> QED BY <2>1, <2>2
  <1>12. ASSUME NEW m \in 1 .. Len(t), NEW q \in 1 .. Len(t), m # q
         PROVE  \E i, j \in 1 .. Len(p) : i # j /\ t[m] = p[i] /\ t[q] = p[j]
    <2>1. CASE a[m] # a[q]
      <3>1. PICK i \in 1 .. Len(p) : t[m] = p[i] /\ BestRank(p[i]) = a[m]
        BY <1>11
      <3>2. PICK j \in 1 .. Len(p) : t[q] = p[j] /\ BestRank(p[j]) = a[q]
        BY <1>11
      <3> QED BY <2>1, <3>1, <3>2
    <2>2. CASE a[m] = a[q]
      <3>1. PICK n \in 1 .. N : n = a[m]
        BY <1>10
      <3>2. /\ b[m] \in 1 .. Len(u[n]) /\ b[q] \in 1 .. Len(u[n])
            /\ t[m] = u[n][b[m]] /\ t[q] = u[n][b[q]]
        BY <1>10, <2>2, <3>1
      <3>3. Len(t) \in Nat /\ Len(u[n]) \in Nat
        BY <1>8, <1>9, SeqHas
      <3>4. m < q \/ q < m
        BY <1>12, <3>3
      <3>5. \/ a[m] < a[q] \/ b[m] < b[q] \/ a[q] < a[m] \/ b[q] < b[m]
        BY <1>9, <3>4 DEF Laid
      <3>6. b[m] # b[q]
        BY <1>10, <2>2, <3>2, <3>3, <3>5
      <3>7. Among(u[n], p)
        BY <1>8
      <3>8. PICK x, y : /\ x = b[m] /\ y = b[q] /\ x # y /\ x \in 1 .. Len(u[n]) /\ y \in 1 .. Len(u[n])
                        /\ t[m] = u[n][x] /\ t[q] = u[n][y]
        BY <3>2, <3>6
      <3>9. \E i, j \in 1 .. Len(p) : i # j /\ u[n][x] = p[i] /\ u[n][y] = p[j]
        BY <3>7, <3>8 DEF Among
      <3> QED BY <3>8, <3>9
    <2> QED BY <2>1, <2>2
  <1>13. Among(t, p)
    BY <1>9, <1>11, <1>12 DEF Among
  <1> QED BY <1>2, <1>4, <1>13

\* What an operation answers with: papers of which no two match.
LEMMA ShownPapers ==
    ASSUME NEW recs, NEW n, IsSequence(recs)
    PROVE  /\ PapersOK(MergePaperRecords(recs))
           /\ PapersOK(FirstOf(Sorted(recs), n))
  <1>1. PapersOK(MergePaperRecords(recs))
    BY SeqHas, MergedPapers
  <1>2. PapersOK(Sorted(recs))
    BY <1>1, SortedAmong, AmongOK
  <1>3. Among(FirstOf(Sorted(recs), n), Sorted(recs))
    BY <1>2, PickedAmong DEF FirstOf, PapersOK
  <1> QED BY <1>1, <1>2, <1>3, AmongOK

-----------------------------------------------------------------------------
(* The operation that runs.                                                *)

\* What a provider is asked for.
Operations == {"search", "metadata", "references", "citations"}

\* A request that was not asked yet.
Fresh(call) ==
    /\ call = Call(call.c, call.operation, call.id, call.limit, call.paper)
    /\ call.c \in Providers /\ call.operation \in Operations

\* A request under way: what OpenAlex walks it has found, and has left.
Running(call) ==
    /\ call = [c |-> call.c, operation |-> call.operation, id |-> call.id, limit |-> call.limit,
               paper |-> call.paper, seed |-> call.seed, left |-> call.left, got |-> call.got,
               count |-> call.count, attempts |-> call.attempts, failed |-> call.failed]
    /\ call.c \in Providers /\ call.operation \in Operations
    /\ call.seed \in BOOLEAN /\ call.count \in Nat
    /\ IsSequence(call.left) /\ IsSequence(call.got)
    /\ ~Unsupported(call)
    /\ call.seed => Walks(call) /\ call.id \in DOMAIN world.held[call.c]
    /\ (call.seed /\ call.operation = "references") => call.left # <<>>

\* A request of a provider,
IsRequest(call) == call.c \in Providers /\ call.operation \in Operations

\* and a result that answers it.
ResultOf(call, result) ==
    /\ result.provider = call.c /\ result.operation = call.operation /\ result.paper = call.paper
    /\ IsSequence(result.records) /\ result.count \in Nat

\* What every operation has: results that are counted, observations, and requests to come.
OpBase(o) ==
    /\ {"kind", "req", "call", "results", "todo", "observations"} \subseteq DOMAIN o
    /\ IsSequence(o.results) /\ \A i \in 1 .. Len(o.results) : o.results[i].count \in Nat
    /\ IsSequence(o.observations)
    /\ IsSequence(o.todo) /\ \A i \in 1 .. Len(o.todo) : Fresh(o.todo[i])

\* The caches hold lists of records; a DOI that Crossref answered is one it has.
CacheOK ==
    /\ DOMAIN cache = Providers
    /\ \A p \in Providers : \A e \in cache[p] :
          /\ IsSequence(e.value)
          /\ (p = "crossref" /\ e.key[1] = "meta" /\ e.value # <<>>)
               => e.key[2] \in DOMAIN world.held.crossref

-----------------------------------------------------------------------------
(* The snowball.                                                           *)

\* A paper of which a provider was asked for a direction,
Asked(o, id, p, d) ==
    \E i \in 1 .. Len(o.results) :
       o.results[i].paper = id /\ o.results[i].provider = p /\ o.results[i].operation = d

\* or is to be asked for it.
ToAsk(o, id, p, d) ==
    \E i \in 1 .. Len(o.todo) : o.todo[i].paper = id /\ o.todo[i].c = p /\ o.todo[i].operation = d

\* What every provider was asked for, or what is not gone on from.
Done(o, node) ==
    \/ node.depth >= o.req.depth
    \/ BestIdentifier(node.record) = None
    \/ \A p \in Providers, d \in ToSet(o.req.directions) : Asked(o, node.id, p, d)

\* A reached paper is queued, the one it is at, or done.
Pending(o, node) ==
    \/ \E i \in 1 .. Len(o.queue) : o.queue[i] = node
    \/ o.current = node
    \/ Done(o, node)

\* The paper the snowball starts from, and that of the i-th edge.
SeedNode(o) == [record |-> o.req.seed, id |-> CanonicalId(o.req.seed), depth |-> 0]
NodeAt(o, i) == [record |-> o.observations[i], id |-> Child(o.edges[i]), depth |-> o.edges[i].depth]

\* Nothing was cut so far, and no budget is used up.
Uncut(o) ==
    /\ o.reasons = {} /\ Len(o.edges) < o.req.maxEdges
    /\ Len(o.results) < o.req.maxOperations /\ Spent(o) < o.req.maxQueries

\* The papers reached, each where it was reached first, are pending or done.
AllPending(o) ==
    /\ Pending(o, SeedNode(o))
    /\ \A i \in 1 .. Len(o.edges) :
          (FirstReached(o.edges, i) /\ Child(o.edges[i]) # CanonicalId(o.req.seed))
            => Pending(o, NodeAt(o, i))

\* What the paper it is at was not asked for is still to be asked; call is
\* the request under way.
Turned(o, call) ==
    o.current # NoPaper =>
      \A p \in Providers, d \in ToSet(o.req.directions) :
         \/ Asked(o, o.current.id, p, d)
         \/ ToAsk(o, o.current.id, p, d)
         \/ call # NoCall /\ call.paper = o.current.id /\ call.c = p /\ call.operation = d

\* An observation per edge, and no paper reached that is not pending or done.
Reaches(o) ==
    /\ Len(o.observations) = Len(o.edges)
    /\ o.visited = {CanonicalId(o.req.seed)} \cup {Child(o.edges[i]) : i \in 1 .. Len(o.edges)}
    /\ AllPending(o)

\* The types of a snowball.
SnowTypes(o) ==
    /\ {"queue", "visited", "current", "edges", "reasons"} \subseteq DOMAIN o
    /\ o.req \in Requests /\ o.req.kind = "snowball" /\ Allowed(o.req)
    /\ IsSequence(o.queue) /\ \A i \in 1 .. Len(o.queue) : o.queue[i].depth \in Nat
    /\ o.current = NoPaper \/ o.current.depth \in Nat
    /\ IsSequence(o.edges) /\ \A i \in 1 .. Len(o.edges) : o.edges[i].depth \in Nat

\* Until it is cut, a snowball loses no paper and no request of the one it is at.
SnowBody(o, call) ==
    /\ SnowTypes(o)
    /\ call # NoCall => o.current # NoPaper
    /\ Uncut(o) => Reaches(o) /\ Turned(o, call)

\* Between two requests of a paper there is a request left.
SnowInv(o) ==
    /\ SnowBody(o, o.call)
    /\ (o.call = NoCall /\ o.current # NoPaper) => o.todo # <<>>

\* The operation that runs is in order,
OpOK(o) ==
    /\ OpBase(o)
    /\ o.call # NoCall => Running(o.call)
    /\ o.kind = "snowball" => SnowInv(o)

\* and so is the state it runs in.
LitTypes ==
    /\ world \in Worlds /\ order \in Orders
    /\ CacheOK
    /\ op # None => OpOK(op)

\* The inductive invariant.
LitInv == LitTypes /\ PapersApart /\ UncutIsComplete

-----------------------------------------------------------------------------
(* Requests and what they return.                                          *)

\* The providers are asked in an order of all four.
LEMMA OrderIs ==
    ASSUME order \in Orders
    PROVE  /\ IsSequence(order) /\ Len(order) = 4
           /\ \A i \in 1 .. Len(order) : order[i] \in Providers
           /\ \A p \in Providers : \E i \in 1 .. Len(order) : order[i] = p
  <1>1. order \in Seq(Providers) /\ Len(order) = 4
    <2>1. ASSUME NEW a \in Providers, NEW b \in Providers, NEW c \in Providers, NEW d \in Providers
          PROVE  <<a, b, c, d>> \in Seq(Providers) /\ Len(<<a, b, c, d>>) = 4
      OBVIOUS
    <2>2. {"openalex", "crossref", "arxiv", "semantic_scholar"} \subseteq Providers
      BY DEF Providers
    <2>3. \E a, b, c, d \in Providers : order = <<a, b, c, d>>
      BY <2>2 DEF Orders
    <2> QED BY <2>1, <2>3
  <1>2. \A i \in 1 .. 4 : order[i] \in Providers
    BY <1>1
  <1>3. ASSUME NEW p \in Providers PROVE \E i \in 1 .. 4 : order[i] = p
    <2>1. 1 \in 1 .. 4 /\ 2 \in 1 .. 4 /\ 3 \in 1 .. 4 /\ 4 \in 1 .. 4
      OBVIOUS
    <2>2. \/ order[1] = p \/ order[2] = p \/ order[3] = p \/ order[4] = p
      BY DEF Orders, Providers
    <2> QED BY <2>1, <2>2
  <1> QED BY <1>1, <1>2, <1>3, SeqIs

\* Call makes a request that was not asked yet,
LEMMA CallFresh ==
    ASSUME NEW c \in Providers, NEW operation \in Operations, NEW id, NEW limit, NEW paper
    PROVE  /\ Fresh(Call(c, operation, id, limit, paper))
           /\ Call(c, operation, id, limit, paper).paper = paper
           /\ Call(c, operation, id, limit, paper).c = c
           /\ Call(c, operation, id, limit, paper).operation = operation
  BY DEF Fresh, Call

\* which runs, unless its provider does not support it.
LEMMA FreshIs ==
    ASSUME NEW call, Fresh(call)
    PROVE  /\ IsRequest(call) /\ ~call.seed /\ call.seed \in BOOLEAN /\ call.count \in Nat
           /\ ~Unsupported(call) => Running(call)
           /\ call # NoCall
  <1>1. /\ call.seed = FALSE /\ call.left = <<>> /\ call.got = <<>> /\ call.count = 1
        /\ call.attempts = 0 /\ call.failed = FALSE
        /\ call.c \in Providers /\ call.operation \in Operations
    BY DEF Fresh, Call
  <1>2. call = [c |-> call.c, operation |-> call.operation, id |-> call.id, limit |-> call.limit,
               paper |-> call.paper, seed |-> call.seed, left |-> call.left, got |-> call.got,
               count |-> call.count, attempts |-> call.attempts, failed |-> call.failed]
    BY <1>1 DEF Fresh, Call
  <1>3. call # NoCall
    <2>1. NoCall.c = None
      BY DEF NoCall
    <2>2. call.c # None
      BY <1>1, NoneAssumption
    <2> QED BY <2>1, <2>2
  <1>4. IsSequence(call.left) /\ IsSequence(call.got)
    BY <1>1, SeqEmpty
  <1>5. ~call.seed /\ call.seed \in BOOLEAN
    BY <1>1
  <1>6. call.count \in Nat
    BY <1>1
  <1>7. ASSUME ~Unsupported(call) PROVE Running(call)
    <2> QED BY <1>1, <1>2, <1>4, <1>5, <1>6, <1>7 DEF Running
  <1> QED BY <1>1, <1>3, <1>5, <1>6, <1>7 DEF IsRequest

\* A page is a sequence.
LEMMA FirstOfIs ==
    ASSUME NEW s, NEW n, IsSequence(s)
    PROVE  IsSequence(FirstOf(s, n))
  BY PickedIs DEF FirstOf

\* A request under way is one of a provider.
LEMMA RunningIs ==
    ASSUME NEW call, Running(call)
    PROVE  IsRequest(call) /\ call # NoCall
  <1>1. NoCall.c = None
    BY DEF NoCall
  <1> QED BY <1>1, NoneAssumption DEF Running, IsRequest

\* What a provider replies is a list.
LEMMA ReplyIs ==
    ASSUME LitTypes, NEW call, Running(call), Known(call), ~AtReference(call)
    PROVE  /\ IsSequence(Reply(call))
           /\ (call.c = "crossref" /\ OfMetadata(call)) => call.id \in DOMAIN world.held.crossref
  <1>1. /\ world \in Worlds /\ call.c \in Providers /\ call.operation \in Operations
        /\ ~Unsupported(call) /\ call.seed \in BOOLEAN
    BY DEF LitTypes, Running
  <1>2. /\ IsSequence(world.found[call.c])
        /\ \A id \in DOMAIN world.held[call.c] :
              /\ call.c # "arxiv" => IsSequence(world.refs[call.c][id])
              /\ call.c \in {"openalex", "semantic_scholar"} => IsSequence(world.cites[call.c][id])
    BY <1>1, WorldsAssumption
  <1>3. (call.operation # "search" /\ call.c # "arxiv") => call.id \in DOMAIN world.held[call.c]
    BY DEF Known, Running
  <1>4. CASE call.operation = "search"
    <2>1. Reply(call) = FirstOf(world.found[call.c], call.limit)
      BY <1>4 DEF Reply, OfMetadata
    <2> QED BY <1>2, <1>4, <2>1, FirstOfIs DEF OfMetadata
  <1>5. CASE OfMetadata(call)
    <2>1. call.operation # "search" /\ (call.operation # "references" \/ call.c = "crossref")
           /\ call.operation # "citations"
      BY <1>5 DEF OfMetadata
    <2>2. Reply(call) = IF call.id \in DOMAIN world.held[call.c]
                        THEN <<world.held[call.c][call.id]>> ELSE <<>>
      BY <1>5, <2>1 DEF Reply
    <2>3. IsSequence(Reply(call))
      BY <2>2, SeqEmpty, SeqOne
    <2> QED BY <1>3, <2>1, <2>3
  <1>6. CASE call.operation = "references" /\ call.c # "crossref"
    <2>1. call.c # "arxiv" /\ ~OfMetadata(call)
      BY <1>1, <1>6 DEF Unsupported, OfMetadata, Graph
    <2>2. Reply(call) = FirstOf(world.refs[call.c][call.id], call.limit)
      BY <1>6, <2>1 DEF Reply
    <2> QED BY <1>2, <1>3, <1>6, <2>1, <2>2, FirstOfIs
  <1>7. CASE call.operation = "citations"
    <2>1. call.c \in {"openalex", "semantic_scholar"} /\ ~OfMetadata(call)
      BY <1>1, <1>7 DEF Unsupported, OfMetadata, Graph, Providers
    <2>2. Reply(call) = FirstOf(world.cites[call.c][call.id], call.limit)
      BY <1>7, <2>1 DEF Reply
    <2> QED BY <1>2, <1>3, <1>7, <2>1, <2>2, FirstOfIs
  <1> QED BY <1>1, <1>4, <1>5, <1>6, <1>7 DEF Operations, OfMetadata

\* What a caller gets of an answer is a list of records.
LEMMA ShownIs ==
    ASSUME LitTypes, NEW call, NEW recs, IsSequence(recs),
           (call.c = "crossref" /\ OfMetadata(call) /\ recs # <<>>)
             => call.id \in DOMAIN world.held.crossref
    PROVE  IsSequence(Shown(call, recs))
  <1>1. CASE call.c = "crossref" /\ call.operation = "references" /\ recs # <<>>
    <2>1. call.id \in DOMAIN world.held.crossref
      BY <1>1 DEF OfMetadata
    <2>2. IsSequence(world.refs.crossref[call.id])
      <3>1. "crossref" \in Providers /\ "crossref" # "arxiv" /\ world \in Worlds
        BY DEF Providers, LitTypes
      <3> QED BY <2>1, <3>1, WorldsAssumption
    <2> QED BY <1>1, <2>2, FirstOfIs DEF Shown
  <1> QED BY <1>1 DEF Shown

\* A result is that of the request it answers,
LEMMA FoundIs ==
    ASSUME NEW call, NEW recs, NEW count \in Nat, IsSequence(recs)
    PROVE  ResultOf(call, Found(call, recs, count))
  BY DEF ResultOf, Found, Result

\* also when the provider is not asked for it.
LEMMA AtOnceIs ==
    ASSUME LitTypes, NEW call, Fresh(call), Immediate(call)
    PROVE  ResultOf(call, AtOnce(call))
  <1>1. call.c \in Providers
    BY DEF Fresh
  <1>2. CASE Unsupported(call)
    BY <1>2, SeqEmpty DEF AtOnce, Result, ResultOf
  <1>3. CASE ~Unsupported(call) /\ Refused(call)
    BY <1>3, SeqEmpty, FoundIs DEF AtOnce
  <1>4. CASE ~Unsupported(call) /\ ~Refused(call)
    <2>1. Kept(call) # {}
      BY <1>4 DEF Immediate, Cached
    <2>2. PICK e : e = (CHOOSE x \in Kept(call) : TRUE) /\ e \in Kept(call)
      BY <2>1
    <2>3. e \in cache[call.c] /\ e.key = Key(call)
      BY <2>2 DEF Kept
    <2>4. IsSequence(e.value)
      BY <1>1, <2>3 DEF LitTypes, CacheOK
    <2>5. (call.c = "crossref" /\ OfMetadata(call) /\ e.value # <<>>)
            => call.id \in DOMAIN world.held.crossref
      <3> HAVE call.c = "crossref" /\ OfMetadata(call) /\ e.value # <<>>
      <3>1. e.key = <<"meta", call.id>>
        BY <2>3 DEF Key
      <3>2. e.key[1] = "meta" /\ e.key[2] = call.id
        BY <3>1
      <3> QED BY <1>1, <2>3, <3>2 DEF LitTypes, CacheOK
    <2>6. IsSequence(Shown(call, e.value))
      BY <2>4, <2>5, ShownIs
    <2>7. AtOnce(call) = Found(call, Shown(call, e.value), 0)
      BY <1>4, <2>2 DEF AtOnce
    <2> QED BY <2>6, <2>7, FoundIs
  <1> QED BY <1>2, <1>3, <1>4

-----------------------------------------------------------------------------
(* What the queries cost.                                                  *)

\* What a result counts for.
Cost(result, operations) == IF result.operation \in operations THEN result.count ELSE 0

\* Queries, prefix by prefix.
LEMMA QueriesSteps ==
    ASSUME NEW s, NEW S, Len(s) \in Nat
    PROVE  \E f : /\ f[0] = 0 /\ f[Len(s)] = Queries(s, S)
                  /\ \A n \in 1 .. Len(s) : f[n] = f[n - 1] + Cost(s[n], S)
  <1> DEFINE Step(n, x) == x + Cost(s[n], S)
             Is(f, k) == f = [n \in 0 .. k |-> IF n = 0 THEN 0 ELSE Step(n, f[n - 1])]
             K == {k \in Nat : \E f : Is(f, k)}
  <1>1. 0 \in K
    <2>1. Is([n \in 0 .. 0 |-> 0], 0)
      OBVIOUS
    <2> HIDE DEF Is
    <2> QED BY <2>1
  <1>2. ASSUME NEW k \in Nat, k \in K PROVE k + 1 \in K
    <2>1. PICK f : Is(f, k)
      BY <1>2
    <2>2. PICK g : g = [n \in 0 .. k + 1 |-> IF n = k + 1 THEN Step(k + 1, f[k]) ELSE f[n]]
      OBVIOUS
    <2> HIDE DEF Step
    <2>3. \A n \in 0 .. k : f[n] = IF n = 0 THEN 0 ELSE Step(n, f[n - 1])
      BY <2>1
    <2>4. \A n \in 0 .. k + 1 : g[n] = IF n = 0 THEN 0 ELSE Step(n, g[n - 1])
      <3> TAKE n \in 0 .. k + 1
      <3>1. CASE n = k + 1
        <4>1. k \in 0 .. k + 1 /\ k # k + 1 /\ n # 0 /\ n - 1 = k
          BY <3>1
        <4>2. g[k] = f[k] /\ g[n] = Step(k + 1, f[k])
          BY <2>2, <3>1, <4>1
        <4> QED BY <3>1, <4>1, <4>2
      <3>2. CASE n \in 1 .. k
        <4>1. n \in 0 .. k /\ n # 0 /\ n # k + 1 /\ n - 1 \in 0 .. k + 1 /\ n - 1 # k + 1
          BY <3>2
        <4>2. g[n - 1] = f[n - 1] /\ g[n] = f[n]
          BY <2>2, <4>1
        <4> QED BY <2>3, <4>1, <4>2
      <3>3. CASE n = 0
        <4>1. g[0] = f[0] /\ f[0] = 0
          BY <2>2, <2>3
        <4> QED BY <3>3, <4>1
      <3> QED BY <3>1, <3>2, <3>3
    <2>5. g = [n \in 0 .. k + 1 |-> g[n]]
      BY <2>2
    <2>6. Is(g, k + 1)
      BY <2>4, <2>5
    <2> HIDE DEF Is
    <2> QED BY <2>6
  <1>3. \E f : Is(f, Len(s))
    <2> HIDE DEF Is
    <2>1. \A n \in Nat : n \in K
      <3> HIDE DEF K
      <3> QED BY <1>1, <1>2, AllNaturals
    <2> QED BY <2>1
  <1>4. Is(CHOOSE f : Is(f, Len(s)), Len(s))
    <2> HIDE DEF Is
    <2> QED BY <1>3
  <1>5. PICK f : Is(f, Len(s)) /\ Queries(s, S) = f[Len(s)]
    BY <1>4 DEF Queries, Cost
  <1>6. \A n \in 0 .. Len(s) : f[n] = IF n = 0 THEN 0 ELSE Step(n, f[n - 1])
    <2> HIDE DEF Step
    <2> QED BY <1>5
  <1>7. \A n \in 1 .. Len(s) : f[n] = Step(n, f[n - 1])
    BY <1>6
  <1> QED BY <1>5, <1>6, <1>7

\* Results that are counted.
Counted(results) == IsSequence(results) /\ \A i \in 1 .. Len(results) : results[i].count \in Nat

\* The queries they cost are a natural number.
LEMMA QueriesNatural ==
    ASSUME NEW s, NEW S, Counted(s)
    PROVE  Queries(s, S) \in Nat
  <1>1. PICK N \in Nat : N = Len(s)
    BY SeqHas DEF Counted
  <1>2. PICK f : /\ f[0] = 0 /\ f[N] = Queries(s, S)
                 /\ \A n \in 1 .. N : f[n] = f[n - 1] + Cost(s[n], S)
    BY <1>1, QueriesSteps
  <1>3. \A n \in 1 .. N : Cost(s[n], S) \in Nat
    BY <1>1 DEF Cost, Counted
  <1> DEFINE K == {n \in Nat : n <= N => f[n] \in Nat}
  <1>4. 0 \in K
    BY <1>2
  <1>5. ASSUME NEW n \in Nat, n \in K PROVE n + 1 \in K
    <2> SUFFICES ASSUME n + 1 <= N PROVE f[n + 1] \in Nat
      OBVIOUS
    <2>1. n + 1 \in 1 .. N /\ (n + 1) - 1 = n /\ n <= N
      BY <1>1
    <2>2. f[n + 1] = f[n] + Cost(s[n + 1], S) /\ Cost(s[n + 1], S) \in Nat
      BY <1>2, <1>3, <2>1
    <2> QED BY <1>5, <2>1, <2>2
  <1>6. f[N] \in Nat
    <2>1. \A n \in Nat : n \in K
      <3> HIDE DEF K
      <3> QED BY <1>4, <1>5, AllNaturals
    <2> QED BY <2>1
  <1> QED BY <1>2, <1>6

\* One result more costs no less.
LEMMA QueriesGrow ==
    ASSUME NEW s, NEW r, NEW S, Counted(s), r.count \in Nat
    PROVE  /\ Counted(Append(s, r))
           /\ Queries(s, S) \in Nat /\ Queries(Append(s, r), S) \in Nat
           /\ Queries(s, S) <= Queries(Append(s, r), S)
  <1>1. PICK N \in Nat : N = Len(s)
    BY SeqHas DEF Counted
  <1>2. PICK t : t = Append(s, r) /\ IsSequence(t) /\ Len(t) = N + 1 /\ t[N + 1] = r
                 /\ \A i \in 1 .. N : t[i] = s[i]
    <2>1. IsSequence(s)
      BY DEF Counted
    <2>2. PICK t : t = Append(s, r)
      OBVIOUS
    <2>3. /\ IsSequence(t) /\ Len(t) = Len(s) + 1 /\ t[Len(s) + 1] = r
          /\ \A i \in 1 .. Len(s) : t[i] = s[i]
      BY <2>1, <2>2, SeqAppend
    <2> QED BY <1>1, <2>2, <2>3
  <1>3. \A i \in 1 .. N + 1 : t[i].count \in Nat
    <2> TAKE i \in 1 .. N + 1
    <2>1. i = N + 1 \/ i \in 1 .. N
      OBVIOUS
    <2> QED BY <1>1, <1>2, <2>1 DEF Counted
  <1>4. PICK f : /\ f[0] = 0 /\ f[N] = Queries(s, S)
                 /\ \A n \in 1 .. N : f[n] = f[n - 1] + Cost(s[n], S)
    BY <1>1, QueriesSteps
  <1>5. PICK g : /\ g[0] = 0 /\ g[N + 1] = Queries(t, S)
                 /\ \A n \in 1 .. N + 1 : g[n] = g[n - 1] + Cost(t[n], S)
    <2>1. Len(t) \in Nat
      BY <1>2
    <2>2. \E g : /\ g[0] = 0 /\ g[Len(t)] = Queries(t, S)
                 /\ \A n \in 1 .. Len(t) : g[n] = g[n - 1] + Cost(t[n], S)
      BY <2>1, QueriesSteps
    <2> QED BY <1>2, <2>2
  <1>6. \A n \in 1 .. N + 1 : Cost(t[n], S) \in Nat
    BY <1>3 DEF Cost
  <1> DEFINE K == {n \in Nat : n <= N => f[n] \in Nat /\ g[n] = f[n]}
  <1>7. 0 \in K
    BY <1>4, <1>5
  <1>8. ASSUME NEW n \in Nat, n \in K PROVE n + 1 \in K
    <2> SUFFICES ASSUME n + 1 <= N PROVE f[n + 1] \in Nat /\ g[n + 1] = f[n + 1]
      OBVIOUS
    <2>1. n + 1 \in 1 .. N /\ n + 1 \in 1 .. N + 1 /\ (n + 1) - 1 = n /\ n <= N
      BY <1>1
    <2>2. f[n + 1] = f[n] + Cost(s[n + 1], S) /\ g[n + 1] = g[n] + Cost(t[n + 1], S)
      BY <1>4, <1>5, <2>1
    <2>3. t[n + 1] = s[n + 1] /\ Cost(t[n + 1], S) \in Nat
      BY <1>2, <1>6, <2>1
    <2>4. f[n] \in Nat /\ g[n] = f[n]
      BY <1>8, <2>1
    <2> QED BY <2>2, <2>3, <2>4
  <1>9. f[N] \in Nat /\ g[N] = f[N]
    <2>1. \A n \in Nat : n \in K
      <3> HIDE DEF K
      <3> QED BY <1>7, <1>8, AllNaturals
    <2> QED BY <2>1
  <1>10. g[N + 1] = g[N] + Cost(t[N + 1], S) /\ Cost(t[N + 1], S) \in Nat
    <2>1. N + 1 \in 1 .. N + 1 /\ (N + 1) - 1 = N
      OBVIOUS
    <2> QED BY <1>5, <1>6, <2>1
  <1>11. Queries(s, S) \in Nat /\ Queries(t, S) \in Nat /\ Queries(s, S) <= Queries(t, S)
    BY <1>4, <1>5, <1>9, <1>10
  <1>12. Counted(t)
    BY <1>2, <1>3 DEF Counted
  <1> QED BY <1>2, <1>11, <1>12

\* ReachAll, prefix by prefix.
LEMMA ReachSteps ==
    ASSUME NEW call, NEW o, NEW s, Len(s) \in Nat
    PROVE  \E f : /\ f[0] = o /\ f[Len(s)] = ReachAll(call, o, s)
                  /\ \A n \in 1 .. Len(s) : f[n] = Reach(call, f[n - 1], s[n])
  <1> DEFINE Step(n, x) == Reach(call, x, s[n])
             Is(f, k) == f = [n \in 0 .. k |-> IF n = 0 THEN o ELSE Step(n, f[n - 1])]
             K == {k \in Nat : \E f : Is(f, k)}
  <1>1. 0 \in K
    <2>1. Is([n \in 0 .. 0 |-> o], 0)
      <3> HIDE DEF Step
      <3> QED OBVIOUS
    <2> HIDE DEF Is
    <2> QED BY <2>1
  <1>2. ASSUME NEW k \in Nat, k \in K PROVE k + 1 \in K
    <2>1. PICK f : Is(f, k)
      BY <1>2
    <2> HIDE DEF Step
    <2>2. PICK g : g = [n \in 0 .. k + 1 |-> IF n = k + 1 THEN Step(k + 1, f[k]) ELSE f[n]]
      OBVIOUS
    <2>3. \A n \in 0 .. k : f[n] = IF n = 0 THEN o ELSE Step(n, f[n - 1])
      BY <2>1
    <2>4. \A n \in 0 .. k + 1 : g[n] = IF n = 0 THEN o ELSE Step(n, g[n - 1])
      <3> TAKE n \in 0 .. k + 1
      <3>1. CASE n = k + 1
        <4>1. k \in 0 .. k + 1 /\ k # k + 1 /\ n # 0 /\ n - 1 = k
          BY <3>1
        <4>2. g[k] = f[k] /\ g[n] = Step(k + 1, f[k])
          BY <2>2, <3>1, <4>1
        <4> QED BY <3>1, <4>1, <4>2
      <3>2. CASE n \in 1 .. k
        <4>1. n \in 0 .. k /\ n # 0 /\ n # k + 1 /\ n - 1 \in 0 .. k + 1 /\ n - 1 # k + 1
          BY <3>2
        <4>2. g[n - 1] = f[n - 1] /\ g[n] = f[n]
          BY <2>2, <4>1
        <4> QED BY <2>3, <4>1, <4>2
      <3>3. CASE n = 0
        <4>1. g[0] = f[0] /\ f[0] = o
          BY <2>2, <2>3
        <4> QED BY <3>3, <4>1
      <3> QED BY <3>1, <3>2, <3>3
    <2>5. g = [n \in 0 .. k + 1 |-> g[n]]
      BY <2>2
    <2>6. Is(g, k + 1)
      BY <2>4, <2>5
    <2> HIDE DEF Is
    <2> QED BY <2>6
  <1>3. \E f : Is(f, Len(s))
    <2> HIDE DEF Is
    <2>1. \A n \in Nat : n \in K
      <3> HIDE DEF K
      <3> QED BY <1>1, <1>2, AllNaturals
    <2> QED BY <2>1
  <1>4. Is(CHOOSE f : Is(f, Len(s)), Len(s))
    <2> HIDE DEF Is
    <2> QED BY <1>3
  <1>5. PICK f : Is(f, Len(s)) /\ ReachAll(call, o, s) = f[Len(s)]
    BY <1>4 DEF ReachAll
  <1>6. \A n \in 0 .. Len(s) : f[n] = IF n = 0 THEN o ELSE Step(n, f[n - 1])
    <2> HIDE DEF Step
    <2> QED BY <1>5
  <1>7. \A n \in 1 .. Len(s) : f[n] = Step(n, f[n - 1])
    BY <1>6
  <1> QED BY <1>5, <1>6, <1>7

-----------------------------------------------------------------------------
(* What the snowball reaches.                                              *)

\* An edge leads to the paper of the record, one step further.
LEMMA EdgeIs ==
    ASSUME NEW o, NEW call, NEW record
    PROVE  /\ Child(Edge(o, call, record)) = CanonicalId(record)
           /\ Edge(o, call, record).depth = o.current.depth + 1
  BY DEF Child, Edge

\* What is not touched.
Steady(n, o) ==
    /\ DOMAIN n = DOMAIN o
    /\ n.kind = o.kind /\ n.req = o.req /\ n.call = o.call
    /\ n.results = o.results /\ n.todo = o.todo /\ n.current = o.current

\* The paper of a record that was reached from the current one.
NodeOf(o, record) ==
    [record |-> record, id |-> CanonicalId(record), depth |-> o.current.depth + 1]

\* What a record adds: nothing is cut.
Grown(n, o, call, record) ==
    /\ n.reasons = o.reasons
    /\ n.edges = Append(o.edges, Edge(o, call, record))
    /\ n.observations = Append(o.observations, record)
    /\ \/ /\ CanonicalId(record) \in o.visited
          /\ n.visited = o.visited /\ n.queue = o.queue
       \/ /\ CanonicalId(record) \notin o.visited
          /\ n.visited = o.visited \cup {CanonicalId(record)}
          /\ n.queue = Append(o.queue, NodeOf(o, record))

\* Reach cuts the snowball, or adds the edge, and queues the paper when it is new.
LEMMA ReachIs ==
    ASSUME NEW o, NEW call, NEW record, OpBase(o), SnowTypes(o), NEW n, n = Reach(call, o, record)
    PROVE  /\ Steady(n, o)
           /\ \/ n.edges = o.edges /\ n.observations = o.observations
              \/ /\ n.edges = Append(o.edges, Edge(o, call, record))
                 /\ n.observations = Append(o.observations, record)
           /\ n.queue = o.queue \/ n.queue = Append(o.queue, NodeOf(o, record))
           /\ n.reasons # {} \/ Grown(n, o, call, record)
  <1>1. /\ "kind" \in DOMAIN o /\ "req" \in DOMAIN o /\ "call" \in DOMAIN o
        /\ "results" \in DOMAIN o /\ "todo" \in DOMAIN o /\ "observations" \in DOMAIN o
        /\ "queue" \in DOMAIN o /\ "visited" \in DOMAIN o /\ "current" \in DOMAIN o
        /\ "edges" \in DOMAIN o /\ "reasons" \in DOMAIN o
    BY DEF OpBase, SnowTypes
  <1>2. PICK e, node, id : e = Edge(o, call, record) /\ node = NodeOf(o, record) /\ id = CanonicalId(record)
    OBVIOUS
  <1> DEFINE seen == [o EXCEPT !.edges = Append(@, e), !.observations = Append(@, record)]
  <1>3. CASE EdgesUsed(o)
    <2>1. n = [o EXCEPT !.reasons = @ \cup {"edge_budget"}]
      BY <1>3 DEF Reach
    <2>2. n.reasons = o.reasons \cup {"edge_budget"}
      BY <1>1, <2>1
    <2>3. /\ Steady(n, o) /\ n.edges = o.edges /\ n.observations = o.observations
          /\ n.queue = o.queue
      BY <1>1, <2>1 DEF Steady
    <2> QED BY <2>2, <2>3
  <1>4. CASE ~EdgesUsed(o) /\ id \in o.visited
    <2>1. n = seen
      BY <1>2, <1>4 DEF Reach
    <2>2. /\ Steady(n, o) /\ n.edges = Append(o.edges, e)
          /\ n.observations = Append(o.observations, record)
          /\ n.queue = o.queue /\ n.visited = o.visited /\ n.reasons = o.reasons
      BY <1>1, <2>1 DEF Steady
    <2> QED BY <1>2, <1>4, <2>2 DEF Grown
  <1>5. CASE /\ ~EdgesUsed(o) /\ id \notin o.visited
             /\ ~(Cardinality(o.visited) - 1 < o.req.maxPapers)
    <2>1. n = [seen EXCEPT !.reasons = @ \cup {"paper_budget"}]
      BY <1>2, <1>5 DEF Reach
    <2>2. n.reasons = o.reasons \cup {"paper_budget"}
      BY <1>1, <2>1
    <2>3. /\ Steady(n, o) /\ n.edges = Append(o.edges, e)
          /\ n.observations = Append(o.observations, record) /\ n.queue = o.queue
      BY <1>1, <2>1 DEF Steady
    <2> QED BY <1>2, <2>2, <2>3
  <1>6. CASE /\ ~EdgesUsed(o) /\ id \notin o.visited
             /\ Cardinality(o.visited) - 1 < o.req.maxPapers
    <2>1. PICK place : place = (Len(o.queue) < o.req.maxFrontier)
      OBVIOUS
    <2>2. n = [seen EXCEPT !.visited = @ \cup {id},
                           !.queue = IF place THEN Append(@, node) ELSE @,
                           !.reasons = IF place THEN @ ELSE @ \cup {"frontier_budget"}]
      BY <1>2, <1>6, <2>1 DEF Reach, NodeOf
    <2>3. /\ Steady(n, o) /\ n.edges = Append(o.edges, e)
          /\ n.observations = Append(o.observations, record)
          /\ n.visited = o.visited \cup {id}
          /\ n.queue = IF place THEN Append(o.queue, node) ELSE o.queue
          /\ n.reasons = IF place THEN o.reasons ELSE o.reasons \cup {"frontier_budget"}
      BY <1>1, <2>2 DEF Steady
    <2>4. CASE place
      BY <1>2, <1>6, <2>3, <2>4 DEF Grown
    <2>5. CASE ~place
      <3>1. n.reasons # {}
        BY <2>3, <2>5
      <3> QED BY <1>2, <2>3, <2>5, <3>1
    <2> QED BY <2>4, <2>5
  <1> QED BY <1>3, <1>4, <1>5, <1>6

\* What was pending is.
LEMMA PendingKept ==
    ASSUME NEW o, NEW n, NEW node, Pending(o, node), n.req = o.req, n.current = o.current,
           IsSequence(o.results), IsSequence(o.queue),
           n.queue = o.queue \/ \E x : n.queue = Append(o.queue, x),
           n.results = o.results \/ \E r : n.results = Append(o.results, r)
    PROVE  Pending(n, node)
  <1>1. \A i \in 1 .. Len(o.queue) : i \in 1 .. Len(n.queue) /\ n.queue[i] = o.queue[i]
    <2>1. CASE n.queue = o.queue
      BY <2>1
    <2>2. CASE \E x : n.queue = Append(o.queue, x)
      <3>1. PICK x : n.queue = Append(o.queue, x)
        BY <2>2
      <3>2. Len(n.queue) = Len(o.queue) + 1 /\ Len(o.queue) \in Nat
            /\ \A i \in 1 .. Len(o.queue) : n.queue[i] = o.queue[i]
        BY <3>1, SeqAppend, SeqHas
      <3> QED BY <3>2
    <2> QED BY <2>1, <2>2
  <1>2. \A i \in 1 .. Len(o.results) : i \in 1 .. Len(n.results) /\ n.results[i] = o.results[i]
    <2>1. CASE n.results = o.results
      BY <2>1
    <2>2. CASE \E r : n.results = Append(o.results, r)
      <3>1. PICK r : n.results = Append(o.results, r)
        BY <2>2
      <3>2. Len(n.results) = Len(o.results) + 1 /\ Len(o.results) \in Nat
            /\ \A i \in 1 .. Len(o.results) : n.results[i] = o.results[i]
        BY <3>1, SeqAppend, SeqHas
      <3> QED BY <3>2
    <2> QED BY <2>1, <2>2
  <1>3. ASSUME NEW id, NEW p, NEW d, Asked(o, id, p, d) PROVE Asked(n, id, p, d)
    BY <1>2, <1>3 DEF Asked
  <1>4. Done(o, node) => Done(n, node)
    BY <1>3 DEF Done
  <1> QED BY <1>1, <1>4 DEF Pending

\* A paper is reached first where it is reached first so far.
LEMMA FirstReachedKept ==
    ASSUME NEW edges, NEW e, IsSequence(edges)
    PROVE  \A i \in 1 .. Len(edges) : FirstReached(Append(edges, e), i) <=> FirstReached(edges, i)
  <1>1. PICK g : g = Append(edges, e)
    OBVIOUS
  <1>4. \A i \in 1 .. Len(edges) : g[i] = edges[i]
    BY <1>1, SeqAppend
  <1>2. Len(edges) \in Nat
    BY SeqHas
  <1> TAKE i \in 1 .. Len(edges)
  <1>3. \A j \in 1 .. i - 1 : j \in 1 .. Len(edges)
    BY <1>2
  <1> QED BY <1>1, <1>3, <1>4 DEF FirstReached

\* An edge that is added keeps what the snowball has reached pending,
LEMMA ReachKeepsReaches ==
    ASSUME NEW o, NEW n, NEW call, NEW record, OpBase(o), SnowTypes(o), Reaches(o),
           Steady(n, o), Grown(n, o, call, record)
    PROVE  Reaches(n)
  <1> PICK N \in Nat : N = Len(o.edges)
    BY SeqHas DEF SnowTypes
  <1>1. PICK e, id : e = Edge(o, call, record) /\ id = CanonicalId(record)
    OBVIOUS
  <1>2. Child(e) = id /\ e.depth = o.current.depth + 1
    BY <1>1, EdgeIs
  <1>3. /\ IsSequence(o.edges) /\ IsSequence(o.observations) /\ IsSequence(o.results)
        /\ IsSequence(o.queue) /\ Len(o.observations) = N
    BY <1>1 DEF OpBase, SnowTypes, Reaches
  <1>4. /\ n.edges = Append(o.edges, e) /\ n.observations = Append(o.observations, record)
        /\ n.req = o.req /\ n.current = o.current /\ n.results = o.results
    BY <1>1 DEF Grown, Steady
  <1>5. /\ Len(n.edges) = N + 1 /\ n.edges[N + 1] = e
        /\ \A i \in 1 .. N : n.edges[i] = o.edges[i]
    BY <1>1, <1>3, <1>4, SeqAppend
  <1>6. /\ Len(n.observations) = N + 1 /\ n.observations[N + 1] = record
        /\ \A i \in 1 .. N : n.observations[i] = o.observations[i]
    BY <1>3, <1>4, SeqAppend
  <1>7. \A i \in 1 .. N + 1 : i \in 1 .. N \/ i = N + 1
    OBVIOUS
  <1>8. o.visited = {CanonicalId(o.req.seed)} \cup {Child(o.edges[i]) : i \in 1 .. N}
    BY <1>1 DEF Reaches
  <1>9. n.visited = o.visited \cup {id}
    BY <1>1 DEF Grown
  <1>10. n.visited = {CanonicalId(n.req.seed)} \cup {Child(n.edges[i]) : i \in 1 .. N + 1}
    <2>1. {Child(n.edges[i]) : i \in 1 .. N + 1} = {Child(o.edges[i]) : i \in 1 .. N} \cup {id}
      <3>1. \A i \in 1 .. N : i \in 1 .. N + 1
        OBVIOUS
      <3>2. N + 1 \in 1 .. N + 1
        OBVIOUS
      <3> QED BY <1>2, <1>5, <1>7, <3>1, <3>2
    <2> QED BY <1>4, <1>8, <1>9, <2>1
  <1>11. n.queue = o.queue \/ \E x : n.queue = Append(o.queue, x)
    BY DEF Grown
  <1>12. \A node : Pending(o, node) => Pending(n, node)
    BY <1>3, <1>4, <1>11, PendingKept
  <1>13. Pending(n, SeedNode(n))
    <2>1. Pending(o, SeedNode(o)) /\ SeedNode(n) = SeedNode(o)
      BY <1>4 DEF Reaches, AllPending, SeedNode
    <2> QED BY <1>12, <2>1
  <1>14. ASSUME NEW i \in 1 .. N + 1, FirstReached(n.edges, i),
                Child(n.edges[i]) # CanonicalId(n.req.seed)
         PROVE  Pending(n, NodeAt(n, i))
    <2>1. CASE i \in 1 .. N
      <3>1. NodeAt(n, i) = NodeAt(o, i)
        BY <1>5, <1>6, <2>1 DEF NodeAt
      <3>2. FirstReached(o.edges, i)
        BY <1>1, <1>3, <1>4, <1>14, <2>1, FirstReachedKept
      <3>3. Child(o.edges[i]) # CanonicalId(o.req.seed)
        BY <1>4, <1>5, <1>14, <2>1
      <3>4. Pending(o, NodeAt(o, i))
        BY <1>1, <2>1, <3>2, <3>3 DEF Reaches, AllPending
      <3> QED BY <1>12, <3>1, <3>4
    <2>2. CASE i = N + 1
      <3>1. \A j \in 1 .. N : Child(o.edges[j]) # id
        <4>1. \A j \in 1 .. N : Child(n.edges[j]) # Child(n.edges[N + 1])
          BY <1>14, <2>2 DEF FirstReached
        <4> QED BY <1>2, <1>5, <4>1
      <3>2. id # CanonicalId(o.req.seed)
        BY <1>2, <1>4, <1>5, <1>14, <2>2
      <3>3. id \notin o.visited
        BY <1>8, <3>1, <3>2
      <3>4. n.queue = Append(o.queue, NodeOf(o, record))
        BY <1>1, <3>3 DEF Grown
      <3>5. /\ Len(n.queue) = Len(o.queue) + 1 /\ Len(o.queue) \in Nat
            /\ n.queue[Len(o.queue) + 1] = NodeOf(o, record)
        BY <1>3, <3>4, SeqAppend, SeqHas
      <3>6. NodeAt(n, i) = NodeOf(o, record)
        BY <1>1, <1>2, <1>5, <1>6, <2>2 DEF NodeAt, NodeOf
      <3>7. Len(o.queue) + 1 \in 1 .. Len(n.queue)
        BY <3>5
      <3> QED BY <3>5, <3>6, <3>7 DEF Pending
    <2> QED BY <1>7, <2>1, <2>2
  <1>15. AllPending(n)
    BY <1>5, <1>13, <1>14 DEF AllPending
  <1> QED BY <1>5, <1>6, <1>10, <1>15 DEF Reaches

\* Its budgets are numbers.
LEMMA BudgetsAre ==
    ASSUME NEW o, SnowTypes(o)
    PROVE  /\ o.req.maxEdges \in Int /\ o.req.maxOperations \in Int /\ o.req.maxQueries \in Int
           /\ o.req.depth \in Nat /\ o.req.depth >= 1
           /\ IsSequence(o.req.directions)
           /\ ToSet(o.req.directions) \subseteq {"references", "citations"}
  <1>1. /\ o.req \in Requests /\ o.req.kind = "snowball" /\ o.req.depth \in 1 .. 3
    BY DEF SnowTypes, Allowed
  <1>2. /\ IsSequence(o.req.directions)
        /\ {o.req.maxEdges, o.req.maxOperations, o.req.maxQueries} \subseteq Int
    BY <1>1, RequestsAssumption
  <1>3. o.req.depth \in Nat /\ o.req.depth >= 1
    BY <1>1
  <1>4. ToSet(o.req.directions) \subseteq {"references", "citations"}
    BY DEF SnowTypes, Allowed
  <1> QED BY <1>2, <1>3, <1>4

\* so that a record that is reached leaves it in order, cut or not,
LEMMA ReachKeeps ==
    ASSUME NEW o, NEW call, NEW record, OpBase(o), SnowBody(o, NoCall), o.current # NoPaper,
           NEW n, n = Reach(call, o, record)
    PROVE  OpBase(n) /\ SnowBody(n, NoCall) /\ Steady(n, o)
  <1>1. SnowTypes(o)
    BY DEF SnowBody
  <1>2. PICK e, node : e = Edge(o, call, record) /\ node = NodeOf(o, record)
    OBVIOUS
  <1>3. /\ Steady(n, o)
        /\ \/ n.edges = o.edges /\ n.observations = o.observations
           \/ n.edges = Append(o.edges, e) /\ n.observations = Append(o.observations, record)
        /\ n.queue = o.queue \/ n.queue = Append(o.queue, node)
        /\ n.reasons # {} \/ Grown(n, o, call, record)
    BY <1>1, <1>2, ReachIs
  <1>4. o.current.depth + 1 \in Nat /\ e.depth = o.current.depth + 1 /\ node.depth = o.current.depth + 1
    BY <1>1, <1>2, EdgeIs DEF SnowTypes, NodeOf
  <1>5. IsSequence(o.edges) /\ IsSequence(o.observations) /\ IsSequence(o.queue)
    BY <1>1 DEF OpBase, SnowTypes
  <1>6. OpBase(n)
    <2>1. IsSequence(Append(o.observations, record))
      BY <1>5, SeqAppend
    <2>2. IsSequence(n.observations)
      BY <1>3, <1>5, <2>1
    <2> QED BY <1>3, <2>2 DEF OpBase, Steady
  <1>7. IsSequence(n.edges) /\ \A i \in 1 .. Len(n.edges) : n.edges[i].depth \in Nat
    <2>1. \A i \in 1 .. Len(o.edges) : o.edges[i].depth \in Nat
      BY <1>1 DEF SnowTypes
    <2>2. CASE n.edges = o.edges
      BY <1>5, <2>1, <2>2
    <2>3. CASE n.edges = Append(o.edges, e)
      <3>1. /\ IsSequence(n.edges) /\ Len(n.edges) = Len(o.edges) + 1 /\ Len(o.edges) \in Nat
            /\ \A i \in 1 .. Len(o.edges) : n.edges[i] = o.edges[i]
            /\ n.edges[Len(o.edges) + 1] = e
        BY <1>5, <2>3, SeqAppend, SeqHas
      <3> QED BY <1>4, <2>1, <3>1
    <2> QED BY <1>3, <2>2, <2>3
  <1>8. IsSequence(n.queue) /\ \A i \in 1 .. Len(n.queue) : n.queue[i].depth \in Nat
    <2>1. \A i \in 1 .. Len(o.queue) : o.queue[i].depth \in Nat
      BY <1>1 DEF SnowTypes
    <2>2. CASE n.queue = o.queue
      BY <1>5, <2>1, <2>2
    <2>3. CASE n.queue = Append(o.queue, node)
      <3>1. /\ IsSequence(n.queue) /\ Len(n.queue) = Len(o.queue) + 1 /\ Len(o.queue) \in Nat
            /\ \A i \in 1 .. Len(o.queue) : n.queue[i] = o.queue[i]
            /\ n.queue[Len(o.queue) + 1] = node
        BY <1>5, <2>3, SeqAppend, SeqHas
      <3>2. ASSUME NEW i \in 1 .. Len(n.queue) PROVE n.queue[i].depth \in Nat
        <4>1. i \in 1 .. Len(o.queue) \/ i = Len(o.queue) + 1
          BY <3>1
        <4>2. CASE i \in 1 .. Len(o.queue)
          BY <2>1, <3>1, <4>2
        <4>3. CASE i = Len(o.queue) + 1
          BY <1>4, <3>1, <4>3
        <4> QED BY <4>1, <4>2, <4>3
      <3> QED BY <3>1, <3>2
    <2> QED BY <1>3, <2>2, <2>3
  <1>9. SnowTypes(n)
    BY <1>1, <1>3, <1>7, <1>8 DEF SnowTypes, Steady
  <1>10. ASSUME Uncut(n) PROVE Reaches(n) /\ Turned(n, NoCall)
    <2>1. Grown(n, o, call, record)
      BY <1>3, <1>10 DEF Uncut
    <2>2. Len(n.edges) = Len(o.edges) + 1 /\ Len(o.edges) \in Nat /\ o.req.maxEdges \in Int
      BY <1>1, <1>2, <1>5, <2>1, SeqAppend, SeqHas, BudgetsAre DEF Grown
    <2>3. Uncut(o)
      BY <1>3, <1>10, <2>1, <2>2 DEF Uncut, Grown, Steady, Spent
    <2>4. Reaches(o) /\ Turned(o, NoCall)
      BY <2>3 DEF SnowBody
    <2>5. Turned(n, NoCall)
      BY <1>3, <2>4 DEF Turned, Steady, Asked, ToAsk
    <2> QED BY <1>1, <1>3, <2>1, <2>4, <2>5, ReachKeepsReaches
  <1> QED BY <1>3, <1>6, <1>9, <1>10 DEF SnowBody

\* and so do all the records of a result.
LEMMA ReachAllKeeps ==
    ASSUME NEW o, NEW call, NEW recs, OpBase(o), SnowBody(o, NoCall), o.current # NoPaper,
           IsSequence(recs), NEW n, n = ReachAll(call, o, recs)
    PROVE  OpBase(n) /\ SnowBody(n, NoCall) /\ Steady(n, o)
  <1>1. PICK N \in Nat : N = Len(recs)
    BY SeqHas
  <1>2. PICK f : /\ f[0] = o /\ f[N] = n
                 /\ \A k \in 1 .. N : f[k] = Reach(call, f[k - 1], recs[k])
    BY <1>1, ReachSteps
  <1> DEFINE Fine(k) == OpBase(f[k]) /\ SnowBody(f[k], NoCall) /\ Steady(f[k], o)
             K == {k \in Nat : k <= N => Fine(k)}
  <1>3. 0 \in K
    BY <1>2 DEF Steady
  <1>4. ASSUME NEW k \in Nat, k \in K PROVE k + 1 \in K
    <2> SUFFICES ASSUME k + 1 <= N PROVE Fine(k + 1)
      OBVIOUS
    <2>1. Fine(k) /\ k + 1 \in 1 .. N /\ (k + 1) - 1 = k
      BY <1>4
    <2>2. f[k].current # NoPaper
      BY <2>1 DEF Steady
    <2>3. f[k + 1] = Reach(call, f[k], recs[k + 1])
      BY <1>2, <2>1
    <2>4. OpBase(f[k + 1]) /\ SnowBody(f[k + 1], NoCall) /\ Steady(f[k + 1], f[k])
      BY <2>1, <2>2, <2>3, ReachKeeps
    <2>5. Steady(f[k + 1], o)
      BY <2>1, <2>4 DEF Steady
    <2> QED BY <2>4, <2>5
  <1>5. Fine(N)
    <2>1. \A k \in Nat : k \in K
      <3> HIDE DEF K
      <3> QED BY <1>3, <1>4, AllNaturals
    <2> QED BY <2>1
  <1> QED BY <1>2, <1>5

-----------------------------------------------------------------------------
(* What a result does to the operation.                                    *)

\* Pending in the queue, or gone on from.
LEMMA PendingBetween ==
    ASSUME NEW o, NEW node, Pending(o, node), o.current = NoPaper, node.depth \in Nat
    PROVE  (\E i \in 1 .. Len(o.queue) : o.queue[i] = node) \/ Done(o, node)
  <1>1. NoPaper.depth = None
    BY DEF NoPaper
  <1> QED BY <1>1, NoneAssumption DEF Pending

\* The papers that are reached have a depth.
LEMMA NodesAre ==
    ASSUME NEW o, SnowTypes(o)
    PROVE  /\ SeedNode(o).depth \in Nat
           /\ \A i \in 1 .. Len(o.edges) : NodeAt(o, i).depth \in Nat
  BY DEF SnowTypes, SeedNode, NodeAt

\* The snowball leaves a paper only when all was asked, or something is cut.
LEMMA LeaveOK ==
    ASSUME NEW o, OpBase(o), SnowTypes(o), o.call = NoCall,
           Uncut(o) => Reaches(o) /\ Turned(o, NoCall) /\ o.todo = <<>>,
           NEW n, n = LeaveNode(o)
    PROVE  OpOK(n) /\ n.kind = o.kind /\ n.call = NoCall
  <1>1. /\ "kind" \in DOMAIN o /\ "req" \in DOMAIN o /\ "call" \in DOMAIN o
        /\ "results" \in DOMAIN o /\ "todo" \in DOMAIN o /\ "observations" \in DOMAIN o
        /\ "queue" \in DOMAIN o /\ "visited" \in DOMAIN o /\ "current" \in DOMAIN o
        /\ "edges" \in DOMAIN o /\ "reasons" \in DOMAIN o
    BY DEF OpBase, SnowTypes
  <1>2. /\ DOMAIN n = DOMAIN o /\ n.kind = o.kind /\ n.req = o.req /\ n.call = NoCall
        /\ n.results = o.results /\ n.observations = o.observations /\ n.queue = o.queue
        /\ n.visited = o.visited /\ n.edges = o.edges /\ n.reasons = o.reasons
        /\ n.current = NoPaper /\ n.todo = <<>>
    BY <1>1 DEF LeaveNode
  <1>3. OpBase(n)
    BY <1>2, SeqEmpty DEF OpBase
  <1>4. SnowTypes(n)
    BY <1>2 DEF SnowTypes
  <1>5. ASSUME Uncut(n) PROVE Reaches(n) /\ Turned(n, NoCall)
    <2>1. Uncut(o)
      BY <1>2, <1>5 DEF Uncut, Spent
    <2>2. Reaches(o) /\ Turned(o, NoCall) /\ o.todo = <<>>
      BY <2>1
    <2>3. \A id : \A p : \A d : Asked(n, id, p, d) <=> Asked(o, id, p, d)
      BY <1>2 DEF Asked
    <2>4. ASSUME NEW node, Pending(o, node), node.depth \in Nat PROVE Pending(n, node)
      <3>1. CASE o.current = node
        <4>1. node # NoPaper
          <5>1. NoPaper.depth = None
            BY DEF NoPaper
          <5> QED BY <2>4, <5>1, NoneAssumption
        <4>2. \A p \in Providers, d \in ToSet(o.req.directions) : Asked(o, node.id, p, d)
          <5>1. \A p \in Providers, d \in ToSet(o.req.directions) :
                   Asked(o, node.id, p, d) \/ ToAsk(o, node.id, p, d)
            BY <2>2, <3>1, <4>1 DEF Turned
          <5>2. \A p : \A d : ~ToAsk(o, node.id, p, d)
            BY <2>2, SeqEmpty DEF ToAsk
          <5> QED BY <5>1, <5>2
        <4>3. Done(n, node)
          BY <1>2, <2>3, <4>2 DEF Done
        <4> QED BY <4>3 DEF Pending
      <3>2. CASE Done(o, node)
        <4>1. Done(n, node)
          BY <1>2, <2>3, <3>2 DEF Done
        <4> QED BY <4>1 DEF Pending
      <3>3. CASE \E i \in 1 .. Len(o.queue) : o.queue[i] = node
        BY <1>2, <3>3 DEF Pending
      <3> QED BY <2>4, <3>1, <3>2, <3>3 DEF Pending
    <2>5. SeedNode(n) = SeedNode(o) /\ \A i : NodeAt(n, i) = NodeAt(o, i)
      BY <1>2 DEF SeedNode, NodeAt
    <2>6. AllPending(n)
      <3>1. Pending(n, SeedNode(n))
        BY <2>2, <2>4, <2>5, NodesAre DEF Reaches, AllPending
      <3>2. ASSUME NEW i \in 1 .. Len(n.edges), FirstReached(n.edges, i),
                   Child(n.edges[i]) # CanonicalId(n.req.seed)
            PROVE  Pending(n, NodeAt(n, i))
        <4>1. i \in 1 .. Len(o.edges) /\ Pending(o, NodeAt(o, i))
          BY <1>2, <2>2, <3>2 DEF Reaches, AllPending
        <4>2. NodeAt(o, i).depth \in Nat
          BY <4>1, NodesAre
        <4> QED BY <2>4, <2>5, <4>1, <4>2
      <3> QED BY <3>1, <3>2 DEF AllPending
    <2>7. Reaches(n)
      BY <1>2, <2>2, <2>6 DEF Reaches
    <2>8. Turned(n, NoCall)
      BY <1>2 DEF Turned
    <2> QED BY <2>7, <2>8
  <1>6. SnowInv(n)
    BY <1>2, <1>4, <1>5 DEF SnowInv, SnowBody
  <1> QED BY <1>2, <1>3, <1>6 DEF OpOK

\* When its last request is answered the paper it is at was asked of everyone, and is left.
LEMMA SettledOK ==
    ASSUME NEW o, NEW c, NEW asked, OpBase(o), SnowBody(o, NoCall), o.call = NoCall,
           NEW n, n = Settled(o, c, asked)
    PROVE  OpOK(n) /\ n.kind = o.kind /\ n.call = NoCall
  <1>1. SnowTypes(o)
    BY DEF SnowBody
  <1>2. CASE n = LeaveNode(o) /\ (o.todo = <<>> \/ OperationsUsed(o) \/ QueriesUsed(o) \/ EdgesUsed(o))
    <2>1. ASSUME Uncut(o) PROVE Reaches(o) /\ Turned(o, NoCall) /\ o.todo = <<>>
      <3>1. Reaches(o) /\ Turned(o, NoCall)
        BY <2>1 DEF SnowBody
      <3>2. /\ Len(o.edges) \in Nat /\ Len(o.results) \in Nat /\ o.req.maxEdges \in Int
            /\ o.req.maxOperations \in Int /\ o.req.maxQueries \in Int
        BY <1>1, SeqHas, BudgetsAre DEF OpBase, SnowTypes
      <3>3. Spent(o) \in Nat
        BY QueriesNatural DEF OpBase, Spent, Counted
      <3>4. ~OperationsUsed(o) /\ ~QueriesUsed(o) /\ ~EdgesUsed(o)
        BY <2>1, <3>2, <3>3 DEF Uncut, OperationsUsed, QueriesUsed, EdgesUsed
      <3> QED BY <1>2, <3>1, <3>4
    <2> QED BY <1>1, <1>2, <2>1, LeaveOK
  <1>3. CASE n = o /\ o.todo # <<>>
    BY <1>3 DEF OpOK, SnowInv
  <1>4. (n = LeaveNode(o) /\ (o.todo = <<>> \/ OperationsUsed(o) \/ QueriesUsed(o) \/ EdgesUsed(o)))
        \/ (n = o /\ o.todo # <<>>)
    BY DEF Settled
  <1> QED BY <1>2, <1>3, <1>4

\* A result that is taken leaves the operation in order.
LEMMA TookOK ==
    ASSUME NEW o, NEW call, NEW result, OpBase(o), o.kind = "snowball" => SnowBody(o, call),
           IsRequest(call), call # NoCall, ResultOf(call, result),
           NEW n, n = Took(o, call, result)
    PROVE  OpOK(n) /\ n.kind = o.kind /\ n.call = NoCall
  <1>1. /\ "kind" \in DOMAIN o /\ "req" \in DOMAIN o /\ "call" \in DOMAIN o
        /\ "results" \in DOMAIN o /\ "todo" \in DOMAIN o /\ "observations" \in DOMAIN o
    BY DEF OpBase
  <1>2. PICK next : next = [o EXCEPT !.results = Append(@, result), !.call = NoCall]
    OBVIOUS
  <1>3. /\ DOMAIN next = DOMAIN o /\ next.kind = o.kind /\ next.req = o.req /\ next.call = NoCall
        /\ next.results = Append(o.results, result) /\ next.todo = o.todo
        /\ next.observations = o.observations
    BY <1>1, <1>2
  <1>4. /\ IsSequence(next.results) /\ Len(next.results) = Len(o.results) + 1
        /\ Len(o.results) \in Nat /\ IsSequence(o.results)
        /\ next.results[Len(o.results) + 1] = result
        /\ \A i \in 1 .. Len(o.results) : next.results[i] = o.results[i]
    BY <1>3, SeqAppend, SeqHas DEF OpBase
  <1>5. OpBase(next)
    <2>1. \A i \in 1 .. Len(next.results) : next.results[i].count \in Nat
      <3> TAKE i \in 1 .. Len(next.results)
      <3>1. i \in 1 .. Len(o.results) \/ i = Len(o.results) + 1
        BY <1>4
      <3> QED BY <1>4, <3>1 DEF OpBase, ResultOf
    <2> QED BY <1>3, <1>4, <2>1 DEF OpBase
  <1>6. CASE o.kind # "snowball"
    <2>1. n = [next EXCEPT !.observations = @ \o result.records]
      BY <1>2, <1>6 DEF Took
    <2>2. /\ DOMAIN n = DOMAIN next /\ n.kind = next.kind /\ n.req = next.req /\ n.call = NoCall
          /\ n.results = next.results /\ n.todo = next.todo
          /\ n.observations = next.observations \o result.records
      BY <1>1, <1>3, <2>1
    <2>3. IsSequence(n.observations)
      <3>1. IsSequence(next.observations) /\ IsSequence(result.records)
        BY <1>5 DEF OpBase, ResultOf
      <3>2. IsSequence(next.observations \o result.records)
        BY <3>1, SeqConcat
      <3> QED BY <2>2, <3>2
    <2>4. OpBase(n)
      BY <1>5, <2>2, <2>3 DEF OpBase
    <2> QED BY <1>3, <1>6, <2>2, <2>4 DEF OpOK
  <1>7. CASE o.kind = "snowball"
    <2>1. SnowBody(o, call) /\ SnowTypes(o) /\ o.current # NoPaper
      BY <1>7 DEF SnowBody
    <2>2. /\ "queue" \in DOMAIN o /\ "visited" \in DOMAIN o /\ "current" \in DOMAIN o
          /\ "edges" \in DOMAIN o /\ "reasons" \in DOMAIN o
      BY <2>1 DEF SnowTypes
    <2>3. /\ next.queue = o.queue /\ next.visited = o.visited /\ next.current = o.current
          /\ next.edges = o.edges /\ next.reasons = o.reasons
      BY <1>2, <2>2
    <2>4. SnowTypes(next)
      BY <1>3, <2>1, <2>3 DEF SnowTypes
    <2>5. ASSUME Uncut(next) PROVE Reaches(next) /\ Turned(next, NoCall)
      <3>1. /\ o.req.maxOperations \in Int /\ o.req.maxQueries \in Int
        BY <2>1, BudgetsAre
      <3>2. Spent(o) \in Nat /\ Spent(next) \in Nat /\ Spent(o) <= Spent(next)
        <4>1. Counted(o.results) /\ result.count \in Nat
          BY DEF OpBase, Counted, ResultOf
        <4> QED BY <1>3, <4>1, QueriesGrow DEF Spent
      <3>3. Uncut(o)
        BY <1>3, <1>4, <2>3, <2>5, <3>1, <3>2 DEF Uncut
      <3>4. Reaches(o) /\ Turned(o, call)
        BY <2>1, <3>3 DEF SnowBody
      <3>5. \A node : Pending(o, node) => Pending(next, node)
        <4>1. IsSequence(o.queue)
          BY <2>1 DEF SnowTypes
        <4> QED BY <1>3, <1>4, <2>3, <4>1, PendingKept
      <3>6. SeedNode(next) = SeedNode(o) /\ \A i : NodeAt(next, i) = NodeAt(o, i)
        BY <1>3, <2>3 DEF SeedNode, NodeAt
      <3>7. AllPending(next)
        BY <1>3, <2>3, <3>4, <3>5, <3>6 DEF Reaches, AllPending
      <3>8. Reaches(next)
        BY <1>3, <2>3, <3>4, <3>7 DEF Reaches
      <3>9. ASSUME NEW p \in Providers, NEW d \in ToSet(next.req.directions)
            PROVE  Asked(next, next.current.id, p, d) \/ ToAsk(next, next.current.id, p, d)
        <4>1. \/ Asked(o, o.current.id, p, d) \/ ToAsk(o, o.current.id, p, d)
              \/ call.paper = o.current.id /\ call.c = p /\ call.operation = d
          BY <1>3, <2>1, <3>4, <3>9 DEF Turned
        <4>2. CASE Asked(o, o.current.id, p, d)
          <5>1. \A i \in 1 .. Len(o.results) : i \in 1 .. Len(next.results)
            BY <1>4
          <5> QED BY <1>4, <2>3, <4>2, <5>1 DEF Asked
        <4>3. CASE ToAsk(o, o.current.id, p, d)
          BY <1>3, <2>3, <4>3 DEF ToAsk
        <4>4. CASE call.paper = o.current.id /\ call.c = p /\ call.operation = d
          <5>1. Len(o.results) + 1 \in 1 .. Len(next.results)
            BY <1>4
          <5>2. result.paper = o.current.id /\ result.provider = p /\ result.operation = d
            BY <4>4 DEF ResultOf
          <5> QED BY <1>4, <2>3, <5>1, <5>2 DEF Asked
        <4> QED BY <4>1, <4>2, <4>3, <4>4
      <3> QED BY <3>8, <3>9 DEF Turned
    <2>6. SnowBody(next, NoCall)
      BY <2>4, <2>5 DEF SnowBody
    <2>7. PICK r : r = ReachAll(call, next, result.records)
      OBVIOUS
    <2>8. IsSequence(result.records) /\ next.current # NoPaper
      BY <2>1, <2>3 DEF ResultOf
    <2>9. OpBase(r) /\ SnowBody(r, NoCall) /\ Steady(r, next)
      BY <1>5, <2>6, <2>7, <2>8, ReachAllKeeps
    <2>10. r.call = NoCall /\ r.kind = o.kind
      BY <1>3, <2>9 DEF Steady
    <2>14. PICK c, asked : c = call.c /\ asked = TRUE
      OBVIOUS
    <2>11. n = Settled(r, c, asked)
      BY <1>2, <1>7, <2>7, <2>14 DEF Took
    <2>12. OpBase(r) /\ SnowBody(r, NoCall) /\ r.call = NoCall
      BY <2>9, <2>10
    <2>13. OpOK(n) /\ n.kind = r.kind /\ n.call = NoCall
      BY <2>11, <2>12, SettledOK
    <2> QED BY <2>10, <2>13
  <1> QED BY <1>6, <1>7

\* So does a request that is under way.
LEMMA CallOK ==
    ASSUME NEW o, NEW call, OpBase(o), o.kind = "snowball" => SnowBody(o, call), Running(call),
           NEW n, n = [o EXCEPT !.call = call]
    PROVE  OpOK(n) /\ n.kind = o.kind
  <1>1. call # NoCall
    BY RunningIs
  <1>2. /\ "kind" \in DOMAIN o /\ "req" \in DOMAIN o /\ "call" \in DOMAIN o
        /\ "results" \in DOMAIN o /\ "todo" \in DOMAIN o /\ "observations" \in DOMAIN o
    BY DEF OpBase
  <1>3. /\ DOMAIN n = DOMAIN o /\ n.kind = o.kind /\ n.req = o.req /\ n.call = call
        /\ n.results = o.results /\ n.todo = o.todo /\ n.observations = o.observations
    BY <1>2
  <1>4. OpBase(n)
    BY <1>3 DEF OpBase
  <1>5. ASSUME n.kind = "snowball" PROVE SnowInv(n)
    <2>1. SnowBody(o, call) /\ SnowTypes(o)
      BY <1>3, <1>5 DEF SnowBody
    <2>2. /\ "queue" \in DOMAIN o /\ "visited" \in DOMAIN o /\ "current" \in DOMAIN o
          /\ "edges" \in DOMAIN o /\ "reasons" \in DOMAIN o
      BY <2>1 DEF SnowTypes
    <2>3. /\ n.queue = o.queue /\ n.visited = o.visited /\ n.current = o.current
          /\ n.edges = o.edges /\ n.reasons = o.reasons
      BY <2>2
    <2>4. SnowTypes(n)
      BY <1>3, <2>1, <2>3 DEF SnowTypes
    <2>5. Uncut(n) => Uncut(o)
      BY <1>3, <2>3 DEF Uncut, Spent
    <2>6. Reaches(o) => Reaches(n)
      BY <1>3, <2>3 DEF Reaches, AllPending, Pending, Done, Asked, SeedNode, NodeAt
    <2>7. Turned(o, call) => Turned(n, call)
      BY <1>3, <2>3 DEF Turned, Asked, ToAsk
    <2> QED BY <1>1, <1>3, <2>1, <2>3, <2>4, <2>5, <2>6, <2>7 DEF SnowInv, SnowBody
  <1> QED BY <1>3, <1>4, <1>5 DEF OpOK

\* A request that starts is under way, or answered at once.
LEMMA StartOK ==
    ASSUME LitTypes, NEW o, NEW call, OpBase(o), o.kind = "snowball" => SnowBody(o, call),
           Fresh(call), NEW n, n = Start(o, call)
    PROVE  OpOK(n) /\ n.kind = o.kind
  <1>1. IsRequest(call) /\ call # NoCall /\ (~Unsupported(call) => Running(call))
    BY FreshIs
  <1>2. CASE Immediate(call)
    <2>1. n = Took(o, call, AtOnce(call))
      BY <1>2 DEF Start
    <2>2. ResultOf(call, AtOnce(call))
      BY <1>2, AtOnceIs
    <2> QED BY <1>1, <2>1, <2>2, TookOK
  <1>3. CASE ~Immediate(call)
    <2>1. n = [o EXCEPT !.call = call]
      BY <1>3 DEF Start
    <2>2. Running(call)
      BY <1>1, <1>3 DEF Immediate
    <2> QED BY <2>1, <2>2, CallOK
  <1> QED BY <1>2, <1>3

-----------------------------------------------------------------------------
(* Lists of requests.                                                      *)

\* All is the sequences one after another, with what each has and nothing else.
LEMMA AllIs ==
    ASSUME NEW s, IsSequence(s), \A n \in 1 .. Len(s) : IsSequence(s[n])
    PROVE  /\ IsSequence(All(s))
           /\ \A m \in 1 .. Len(All(s)) : \E n \in 1 .. Len(s) : \E q \in 1 .. Len(s[n]) :
                 All(s)[m] = s[n][q]
           /\ \A n \in 1 .. Len(s) : \A q \in 1 .. Len(s[n]) : \E m \in 1 .. Len(All(s)) :
                 All(s)[m] = s[n][q]
  <1>1. Len(s) \in Nat /\ DOMAIN s = 1 .. Len(s)
    BY SeqHas
  <1>2. PICK j : j = All(s)
    OBVIOUS
  <1>3. IsSequence(j) /\ \E a, b : Laid(j, s, DOMAIN s, Len(s), a, b)
    BY <1>1, <1>2, JoinedIs DEF All
  <1>4. PICK a, b : Laid(j, s, DOMAIN s, Len(s), a, b)
    BY <1>3
  <1>5. \A m \in 1 .. Len(j) : a[m] \in 1 .. Len(s) /\ b[m] \in 1 .. Len(s[a[m]]) /\ j[m] = s[a[m]][b[m]]
    BY <1>1, <1>4 DEF Laid
  <1>6. ASSUME NEW n \in 1 .. Len(s), NEW q \in 1 .. Len(s[n])
        PROVE  \E m \in 1 .. Len(j) : j[m] = s[n][q]
    <2>1. PICK m \in 1 .. Len(j) : a[m] = n /\ b[m] = q
      BY <1>1, <1>4 DEF Laid
    <2> QED BY <1>5, <2>1
  <1> QED BY <1>2, <1>3, <1>5, <1>6

-----------------------------------------------------------------------------
(* The caches.                                                             *)

\* The caches of the same providers stay in order when they are left alone or dropped,
LEMMA CacheKept ==
    ASSUME LitTypes, world' = world, cache' = cache \/ cache' = Nothing
    PROVE  CacheOK'
  <1>1. CASE cache' = cache
    BY <1>1 DEF LitTypes, CacheOK
  <1>2. CASE cache' = Nothing
    BY <1>2 DEF CacheOK, Nothing
  <1> QED BY <1>1, <1>2

\* or keep what a provider answered.
LEMMA CacheKeeps ==
    ASSUME LitTypes, world' = world, NEW call, call.c \in Providers, NEW recs,
           call.operation = "search" \/ OfMetadata(call) => IsSequence(recs),
           (call.c = "crossref" /\ OfMetadata(call) /\ recs # <<>>)
             => call.id \in DOMAIN world.held.crossref,
           cache' = Keep(call, recs)
    PROVE  CacheOK'
  <1>1. CASE cache' = cache
    BY <1>1, CacheKept
  <1>2. CASE /\ call.operation = "search" \/ (OfMetadata(call) /\ recs # <<>>)
             /\ cache' = [cache EXCEPT ![call.c] = @ \cup {[key |-> Key(call), value |-> recs]}]
    <2>1. PICK e : e = [key |-> Key(call), value |-> recs]
      OBVIOUS
    <2>2. /\ DOMAIN cache = Providers /\ DOMAIN cache' = Providers
          /\ \A p \in Providers : cache'[p] = IF p = call.c THEN cache[p] \cup {e} ELSE cache[p]
      BY <1>2, <2>1 DEF LitTypes, CacheOK
    <2>3. e.key = Key(call) /\ e.value = recs /\ IsSequence(recs)
      BY <1>2, <2>1
    <2>4. (call.c = "crossref" /\ e.key[1] = "meta" /\ e.value # <<>>)
            => e.key[2] \in DOMAIN world.held.crossref
      <3> HAVE call.c = "crossref" /\ e.key[1] = "meta" /\ e.value # <<>>
      <3>1. OfMetadata(call) /\ Key(call) = <<"meta", call.id>>
        BY <2>3 DEF Key
      <3> QED BY <2>3, <3>1
    <2>5. ASSUME NEW p \in Providers, NEW x \in cache'[p]
          PROVE  /\ IsSequence(x.value)
                 /\ (p = "crossref" /\ x.key[1] = "meta" /\ x.value # <<>>)
                      => x.key[2] \in DOMAIN world.held.crossref
      <3>1. x \in cache[p] \/ (p = call.c /\ x = e)
        BY <2>2, <2>5
      <3>2. CASE x \in cache[p]
        BY <3>2 DEF LitTypes, CacheOK
      <3>3. CASE p = call.c /\ x = e
        BY <2>3, <2>4, <3>3
      <3> QED BY <3>1, <3>2, <3>3
    <2> QED BY <2>2, <2>5 DEF CacheOK
  <1> QED BY <1>1, <1>2 DEF Keep

\* What a step has to show.
LEMMA StepTypes ==
    ASSUME LitTypes, world' = world, order' = order, CacheOK', op' # None => OpOK(op')
    PROVE  LitTypes'
  <1>1. op' # None => OpOK(op)'
    BY DEF OpOK, Running
  <1> QED BY <1>1 DEF LitTypes

-----------------------------------------------------------------------------
(* A request under way.                                                    *)

\* A request that goes on is for the same paper, of the same provider.
SameRequest(v, call) == v.c = call.c /\ v.operation = call.operation /\ v.paper = call.paper

\* While a request is under way the operation is in order without it.
LEMMA AskingIs ==
    ASSUME LitTypes, Asking
    PROVE  /\ op # None /\ OpBase(op) /\ Running(op.call) /\ op.call # NoCall
           /\ op.kind = "snowball" => SnowBody(op, op.call)
  BY DEF LitTypes, Asking, OpOK, SnowInv

\* A request that goes on takes the turn of the one it was.
LEMMA SameTurn ==
    ASSUME NEW o, NEW v, NEW call, SnowBody(o, call), SameRequest(v, call), call # NoCall, v # NoCall
    PROVE  SnowBody(o, v)
  <1>1. Turned(o, call) => Turned(o, v)
    BY DEF Turned, SameRequest
  <1> QED BY <1>1 DEF SnowBody

\* A request that ends with a result of its own leaves the operation in order,
LEMMA EndsOK ==
    ASSUME LitTypes, Asking, NEW v, SameRequest(v, op.call), NEW result, ResultOf(v, result),
           Ends(v, result)
    PROVE  OpOK(op')
  <1>1. /\ OpBase(op) /\ IsRequest(op.call) /\ op.call # NoCall
        /\ op.kind = "snowball" => SnowBody(op, op.call)
    BY AskingIs, RunningIs
  <1>2. IsRequest(v) /\ v # NoCall
    <2>1. NoCall.c = None
      BY DEF NoCall
    <2> QED BY <1>1, <2>1, NoneAssumption DEF SameRequest, IsRequest
  <1>3. op.kind = "snowball" => SnowBody(op, v)
    BY <1>1, <1>2, SameTurn
  <1>4. op' = Took(op, v, result)
    BY DEF Ends
  <1> QED BY <1>1, <1>2, <1>3, <1>4, TookOK

\* and so does one that goes on.
LEMMA GoesOnOK ==
    ASSUME LitTypes, Asking, NEW v, SameRequest(v, op.call), Running(v),
           op' = [op EXCEPT !.call = v]
    PROVE  OpOK(op')
  <1>1. /\ OpBase(op) /\ op.call # NoCall /\ v # NoCall
        /\ op.kind = "snowball" => SnowBody(op, op.call)
    BY AskingIs, RunningIs
  <1>2. op.kind = "snowball" => SnowBody(op, v)
    BY <1>1, SameTurn
  <1> QED BY <1>1, <1>2, CallOK

\* A provider answers: with the records, or the seed it then walks.
LEMMA RepliedOK == ASSUME LitTypes, Replied PROVE LitTypes'
  <1>1. PICK call : call = op.call
    OBVIOUS
  <1>2. /\ Asking /\ Running(call) /\ Known(call) /\ call.c \in Providers
        /\ call.operation \in Operations /\ call.seed \in BOOLEAN /\ call.count \in Nat
        /\ IsSequence(call.left) /\ IsSequence(call.got) /\ ~Unsupported(call)
    BY <1>1, AskingIs DEF Replied, Running
  <1>3. world' = world /\ order' = order /\ cache' = Keep(call, Reply(call))
    BY <1>1 DEF Replied, Unmoved
  <1>4. ~AtReference(call) =>
          /\ IsSequence(Reply(call))
          /\ (call.c = "crossref" /\ OfMetadata(call)) => call.id \in DOMAIN world.held.crossref
    BY <1>2, ReplyIs
  <1>5. CacheOK'
    <2>1. AtReference(call) => ~(call.operation = "search" \/ OfMetadata(call))
      BY DEF AtReference, Walks, OfMetadata
    <2>2. call.operation = "search" \/ OfMetadata(call) => IsSequence(Reply(call))
      BY <1>4, <2>1
    <2>3. (call.c = "crossref" /\ OfMetadata(call) /\ Reply(call) # <<>>)
             => call.id \in DOMAIN world.held.crossref
      BY <1>4, <2>1
    <2> QED BY <1>2, <1>3, <2>2, <2>3, CacheKeeps
  <1>6. OpOK(op')
    <2>1. CASE AtSeed(call)
      <3>1. Walks(call) /\ ~AtReference(call) /\ ~call.seed
        BY <2>1 DEF AtSeed, AtReference
      <3>2. IsSequence(Reply(call)) /\ Len(Reply(call)) \in Nat
        BY <1>4, <3>1, SeqHas
      <3>3. call.id \in DOMAIN world.held[call.c]
        BY <1>2, <3>1 DEF Known, Walks, Graph
      <3>4. PICK on : on = [call EXCEPT !.seed = TRUE, !.left = Reply(call), !.attempts = 0,
                              !.count = @ + IF call.operation = "references"
                                            THEN Len(Reply(call)) ELSE 1]
        OBVIOUS
      <3>5. PICK cnt : cnt = call.count + IF call.operation = "references"
                                            THEN Len(Reply(call)) ELSE 1
        OBVIOUS
      <3>6. cnt \in Nat
        BY <1>2, <3>2, <3>5
      <3>7. on = [c |-> call.c, operation |-> call.operation, id |-> call.id, limit |-> call.limit,
                  paper |-> call.paper, seed |-> TRUE, left |-> Reply(call), got |-> call.got,
                  count |-> cnt, attempts |-> 0, failed |-> call.failed]
        BY <1>2, <3>4, <3>5 DEF Running
      <3>8. /\ on.c = call.c /\ on.operation = call.operation /\ on.id = call.id
            /\ on.limit = call.limit /\ on.paper = call.paper /\ on.seed = TRUE
            /\ on.left = Reply(call) /\ on.got = call.got /\ on.count = cnt
            /\ on.attempts = 0 /\ on.failed = call.failed
        BY <3>7
      <3>9. SameRequest(on, op.call)
        BY <1>1, <3>8 DEF SameRequest
      <3>10. CASE call.operation = "references" /\ Reply(call) = <<>>
        <4>1. Ends(on, Found(on, <<>>, on.count))
          BY <1>1, <2>1, <3>4, <3>10 DEF Replied
        <4>2. ResultOf(on, Found(on, <<>>, on.count))
          BY <3>6, <3>8, SeqEmpty, FoundIs
        <4> QED BY <1>2, <3>9, <4>1, <4>2, EndsOK
      <3>11. CASE ~(call.operation = "references" /\ Reply(call) = <<>>)
        <4>1. op' = [op EXCEPT !.call = on]
          BY <1>1, <2>1, <3>4, <3>11 DEF Replied
        <4>2. Walks(on) /\ ~Unsupported(on)
          BY <1>2, <3>1, <3>8 DEF Walks, Unsupported
        <4>3. on.seed \in BOOLEAN
          BY <3>8
        <4>4. on = [c |-> on.c, operation |-> on.operation, id |-> on.id, limit |-> on.limit,
                    paper |-> on.paper, seed |-> on.seed, left |-> on.left, got |-> on.got,
                    count |-> on.count, attempts |-> on.attempts, failed |-> on.failed]
          BY <3>7
        <4>5. Running(on)
          BY <1>2, <3>2, <3>3, <3>6, <3>8, <3>11, <4>2, <4>3, <4>4 DEF Running
        <4> QED BY <1>2, <3>9, <4>1, <4>5, GoesOnOK
      <3> QED BY <3>10, <3>11
    <2>2. CASE ~AtSeed(call) /\ AtReference(call)
      <3>1. Walks(call) /\ call.seed /\ call.operation = "references" /\ call.left # <<>>
        BY <1>2, <2>2 DEF AtReference, Running
      <3>2. PICK walked : walked = [call EXCEPT !.got = Append(@, Head(call.left)), !.left = Tail(@)]
        OBVIOUS
      <3>3. IsSequence(Append(call.got, Head(call.left))) /\ IsSequence(Tail(call.left))
        BY <1>2, <3>1, SeqAppend, SeqTail
      <3>4. walked = [c |-> call.c, operation |-> call.operation, id |-> call.id, limit |-> call.limit,
                      paper |-> call.paper, seed |-> call.seed, left |-> Tail(call.left),
                      got |-> Append(call.got, Head(call.left)),
                      count |-> call.count, attempts |-> call.attempts, failed |-> call.failed]
        BY <1>2, <3>2 DEF Running
      <3>5. CASE Tail(call.left) = <<>>
        <4>1. walked.left = <<>>
          BY <3>4, <3>5
        <4>2. Ends(walked, Found(walked, walked.got, walked.count))
          BY <1>1, <2>2, <3>2, <4>1 DEF Replied
        <4>3. SameRequest(walked, op.call)
          BY <1>1, <3>4 DEF SameRequest
        <4>4. IsSequence(walked.got) /\ walked.count \in Nat
          BY <1>2, <3>3, <3>4
        <4>5. ResultOf(walked, Found(walked, walked.got, walked.count))
          BY <4>4, FoundIs
        <4> QED BY <1>2, <4>2, <4>3, <4>5, EndsOK
      <3>6. CASE Tail(call.left) # <<>>
        <4>1. walked.left # <<>>
          BY <3>4, <3>6
        <4>2. PICK v : v = [walked EXCEPT !.attempts = 0]
          OBVIOUS
        <4>3. op' = [op EXCEPT !.call = v]
          BY <1>1, <2>2, <3>2, <4>1, <4>2 DEF Replied
        <4>4. v = [c |-> call.c, operation |-> call.operation, id |-> call.id, limit |-> call.limit,
                   paper |-> call.paper, seed |-> call.seed, left |-> Tail(call.left),
                   got |-> Append(call.got, Head(call.left)),
                   count |-> call.count, attempts |-> 0, failed |-> call.failed]
          BY <3>4, <4>2
        <4>5. SameRequest(v, op.call)
          BY <1>1, <4>4 DEF SameRequest
        <4>6. Running(v)
          BY <1>2, <3>1, <3>3, <3>6, <4>4 DEF Running, Walks, Unsupported
        <4> QED BY <1>2, <4>3, <4>5, <4>6, GoesOnOK
      <3> QED BY <3>5, <3>6
    <2>3. CASE ~AtSeed(call) /\ ~AtReference(call)
      <3>1. Ends(call, Found(call, Shown(call, Reply(call)), call.count))
        BY <1>1, <2>3 DEF Replied
      <3>2. IsSequence(Shown(call, Reply(call)))
        BY <1>4, <2>3, ShownIs
      <3>3. ResultOf(call, Found(call, Shown(call, Reply(call)), call.count))
        BY <1>2, <3>2, FoundIs
      <3>4. SameRequest(call, op.call)
        BY <1>1 DEF SameRequest
      <3> QED BY <1>2, <3>1, <3>3, <3>4, EndsOK
    <2> QED BY <2>1, <2>2, <2>3
  <1> QED BY <1>3, <1>5, <1>6, StepTypes

\* A request that failed is tried again,
LEMMA RetriedOK == ASSUME LitTypes, Retried PROVE LitTypes'
  <1>1. PICK call : call = op.call
    OBVIOUS
  <1>2. Asking /\ Running(call) /\ op # None /\ OpBase(op)
    BY <1>1, AskingIs DEF Retried
  <1>3. PICK v : v = [call EXCEPT !.attempts = @ + 1]
    OBVIOUS
  <1>4. op' = [op EXCEPT !.call = v]
    BY <1>1, <1>3 DEF Retried
  <1>5. v = [c |-> call.c, operation |-> call.operation, id |-> call.id, limit |-> call.limit,
             paper |-> call.paper, seed |-> call.seed, left |-> call.left, got |-> call.got,
             count |-> call.count, attempts |-> call.attempts + 1, failed |-> call.failed]
    BY <1>2, <1>3 DEF Running
  <1>6. SameRequest(v, op.call)
    BY <1>1, <1>5 DEF SameRequest
  <1>7. Running(v)
    BY <1>2, <1>5 DEF Running, Walks, Unsupported
  <1>8. OpOK(op')
    BY <1>2, <1>4, <1>6, <1>7, GoesOnOK
  <1>9. world' = world /\ order' = order /\ CacheOK'
    BY CacheKept DEF Retried, Unmoved
  <1> QED BY <1>8, <1>9, StepTypes

\* and after the last try it ends,
LEMMA FailureOK == ASSUME LitTypes, Asking, Failure(op.call) PROVE OpOK(op')
  <1>1. PICK call : call = op.call
    OBVIOUS
  <1>2. /\ Running(call) /\ call.c \in Providers
        /\ call.operation \in Operations /\ call.seed \in BOOLEAN /\ call.count \in Nat
        /\ IsSequence(call.left) /\ IsSequence(call.got) /\ ~Unsupported(call)
    BY <1>1, AskingIs DEF Running
  <1>3. CASE AtReference(call)
    <2>1. Walks(call) /\ call.seed /\ call.operation = "references" /\ call.left # <<>>
      BY <1>2, <1>3 DEF AtReference, Running
    <2>2. PICK rest : rest = [call EXCEPT !.failed = TRUE, !.left = Tail(@), !.attempts = 0]
      OBVIOUS
    <2>3. IsSequence(Tail(call.left))
      BY <1>2, <2>1, SeqTail
    <2>4. rest = [c |-> call.c, operation |-> call.operation, id |-> call.id, limit |-> call.limit,
                  paper |-> call.paper, seed |-> call.seed, left |-> Tail(call.left),
                  got |-> call.got, count |-> call.count, attempts |-> 0, failed |-> TRUE]
      BY <1>2, <2>2 DEF Running
    <2>5. SameRequest(rest, op.call)
      BY <1>1, <2>4 DEF SameRequest
    <2>6. CASE rest.left = <<>>
      <3>1. Ends(rest, Found(rest, rest.got, rest.count))
        BY <1>1, <1>3, <2>2, <2>6 DEF Failure
      <3>2. IsSequence(rest.got) /\ rest.count \in Nat
        BY <1>2, <2>4
      <3>3. ResultOf(rest, Found(rest, rest.got, rest.count))
        BY <3>2, FoundIs
      <3> QED BY <2>5, <3>1, <3>3, EndsOK
    <2>7. CASE rest.left # <<>>
      <3>1. op' = [op EXCEPT !.call = rest]
        BY <1>1, <1>3, <2>2, <2>7 DEF Failure
      <3>2. Running(rest)
        BY <1>2, <2>1, <2>3, <2>4, <2>7 DEF Running, Walks, Unsupported
      <3> QED BY <2>5, <3>1, <3>2, GoesOnOK
    <2> QED BY <2>6, <2>7
  <1>4. CASE ~AtReference(call)
    <2>1. PICK result : result = [Result(call, "error", <<>>, call.count) EXCEPT !.failed = TRUE]
      OBVIOUS
    <2>2. Ends(call, result)
      BY <1>1, <1>4, <2>1 DEF Failure
    <2>3. ResultOf(call, result)
      BY <1>2, <2>1, SeqEmpty DEF Result, ResultOf
    <2>4. SameRequest(call, op.call)
      BY <1>1 DEF SameRequest
    <2> QED BY <2>2, <2>3, <2>4, EndsOK
  <1> QED BY <1>3, <1>4

\* with the failure as its result.
LEMMA FailedOK == ASSUME LitTypes, Failed \/ Unknown PROVE LitTypes'
  <1>1. OpOK(op')
    BY FailureOK DEF Failed, Unknown
  <1>2. world' = world /\ order' = order /\ cache' = cache
    BY DEF Failed, Unknown, Unmoved
  <1> QED BY <1>1, <1>2, CacheKept, StepTypes

\* An answer that cannot be read is a failure of its own.
LEMMA GarbledOK == ASSUME LitTypes, Garbled PROVE LitTypes'
  <1>1. PICK call : call = op.call
    OBVIOUS
  <1>2. Asking /\ Running(call) /\ call.c \in Providers /\ call.count \in Nat
    BY <1>1, AskingIs DEF Garbled, Running
  <1>3. world' = world /\ order' = order
    BY DEF Garbled, Unmoved
  <1>4. PICK result : result = [Found(call, <<>>, call.count) EXCEPT !.failed = TRUE]
    OBVIOUS
  <1>5. \/ Ends(call, result) /\ cache' = Keep(call, <<>>)
        \/ Failure(op.call) /\ cache' = cache
    BY <1>1, <1>4 DEF Garbled
  <1>6. CacheOK'
    <2>1. CASE cache' = Keep(call, <<>>)
      BY <1>2, <1>3, <2>1, SeqEmpty, CacheKeeps
    <2>2. CASE cache' = cache
      BY <1>3, <2>2, CacheKept
    <2> QED BY <1>5, <2>1, <2>2
  <1>7. CASE Ends(call, result)
    <2>1. ResultOf(call, result)
      BY <1>2, <1>4, SeqEmpty DEF Found, Result, ResultOf
    <2>2. SameRequest(call, op.call)
      BY <1>1 DEF SameRequest
    <2>3. OpOK(op')
      BY <1>2, <1>7, <2>1, <2>2, EndsOK
    <2> QED BY <1>3, <1>6, <2>3, StepTypes
  <1>8. CASE Failure(op.call)
    <2>1. OpOK(op')
      BY <1>2, <1>8, FailureOK
    <2> QED BY <1>3, <1>6, <2>1, StepTypes
  <1> QED BY <1>5, <1>7, <1>8

\* A cache expires.
LEMMA ExpireOK == ASSUME LitTypes, NEW p \in Providers, Expire(p) PROVE LitTypes'
  <1>1. world' = world /\ order' = order /\ op' = op
    BY DEF Expire
  <1>2. PICK e : cache' = [cache EXCEPT ![p] = @ \ {e}]
    BY DEF Expire
  <1>3. DOMAIN cache' = Providers /\ \A q \in Providers : cache'[q] \subseteq cache[q]
    BY <1>2 DEF LitTypes, CacheOK
  <1>4. CacheOK'
    BY <1>1, <1>3 DEF LitTypes, CacheOK
  <1>5. op' # None => OpOK(op')
    BY <1>1 DEF LitTypes
  <1> QED BY <1>1, <1>4, <1>5, StepTypes

-----------------------------------------------------------------------------
(* The operations but the snowball.                                        *)

\* Requests to come.
ToCome(todo) == IsSequence(todo) /\ \A i \in 1 .. Len(todo) : Fresh(todo[i])

\* What is left after the first is still to come.
LEMMA RestToCome ==
    ASSUME NEW todo, ToCome(todo), todo # <<>>
    PROVE  ToCome(Tail(todo)) /\ Fresh(Head(todo)) /\ Head(todo) = todo[1] /\ Len(todo) \in Nat
  <1>1. PICK t : t = Tail(todo)
    OBVIOUS
  <1>2. /\ IsSequence(t) /\ Len(t) = Len(todo) - 1 /\ Len(todo) > 0 /\ Len(todo) \in Nat
        /\ Head(todo) = todo[1]
        /\ \A i \in 1 .. Len(todo) - 1 : t[i] = todo[i + 1]
    BY <1>1, SeqTail, SeqHas DEF ToCome
  <1>3. Fresh(todo[1])
    <2>1. 1 \in 1 .. Len(todo)
      BY <1>2
    <2> QED BY <2>1 DEF ToCome
  <1>4. \A i \in 1 .. Len(t) : Fresh(t[i])
    <2> TAKE i \in 1 .. Len(t)
    <2>1. i \in 1 .. Len(todo) - 1 /\ i + 1 \in 1 .. Len(todo)
      BY <1>2
    <2> QED BY <1>2, <2>1 DEF ToCome
  <1> QED BY <1>1, <1>2, <1>3, <1>4 DEF ToCome

\* An operation that is no snowball has requests to come and results.
LEMMA PlainOK ==
    ASSUME NEW o, o.kind # "snowball", o.call = NoCall,
           {"kind", "req", "call", "results", "todo", "observations"} \subseteq DOMAIN o,
           Counted(o.results), IsSequence(o.observations), ToCome(o.todo)
    PROVE  OpOK(o)
  BY DEF OpOK, OpBase, Counted, ToCome

\* Between two requests the operation is in order.
LEMMA WorkingIs ==
    ASSUME LitTypes, op # None, op.call = NoCall
    PROVE  /\ OpBase(op) /\ Counted(op.results) /\ IsSequence(op.observations) /\ ToCome(op.todo)
           /\ "kind" \in DOMAIN op /\ "req" \in DOMAIN op /\ "call" \in DOMAIN op
           /\ "results" \in DOMAIN op /\ "todo" \in DOMAIN op /\ "observations" \in DOMAIN op
  BY DEF LitTypes, OpOK, OpBase, Counted, ToCome

\* An operation begins,
LEMMA BeginsOK == ASSUME LitTypes, NEW o, OpOK(o), Begins(o) PROVE LitTypes'
  <1>1. world' = world /\ order' = order /\ op' = o /\ cache' = Nothing
    BY DEF Begins
  <1> QED BY <1>1, CacheKept, StepTypes

\* goes on,
LEMMA GoesOK == ASSUME LitTypes, NEW o, OpOK(o), Goes(o) PROVE LitTypes'
  <1>1. world' = world /\ order' = order /\ op' = o /\ cache' = cache
    BY DEF Goes
  <1> QED BY <1>1, CacheKept, StepTypes

\* or ends.
LEMMA AnswersOK ==
    ASSUME LitTypes, NEW papers, NEW all, NEW extra, Answers(papers, all, extra) PROVE LitTypes'
  <1>1. world' = world /\ order' = order /\ op' = None /\ cache' = Nothing
    BY DEF Answers
  <1> QED BY <1>1, CacheKept, StepTypes

\* The next request of a list is asked.
LEMMA AskOK ==
    ASSUME LitTypes, op # None, op.kind # "snowball", op.call = NoCall, op.todo # <<>>,
           Goes(Start([op EXCEPT !.todo = Tail(@)], Head(op.todo)))
    PROVE  LitTypes'
  <1>1. /\ OpBase(op) /\ ToCome(op.todo) /\ "todo" \in DOMAIN op
    BY WorkingIs
  <1>2. PICK rest, call : rest = [op EXCEPT !.todo = Tail(@)] /\ call = Head(op.todo)
    OBVIOUS
  <1>3. /\ DOMAIN rest = DOMAIN op /\ rest.kind = op.kind /\ rest.req = op.req
        /\ rest.call = op.call /\ rest.results = op.results /\ rest.observations = op.observations
        /\ rest.todo = Tail(op.todo)
    <2>1. /\ "kind" \in DOMAIN op /\ "req" \in DOMAIN op /\ "call" \in DOMAIN op
          /\ "results" \in DOMAIN op /\ "todo" \in DOMAIN op /\ "observations" \in DOMAIN op
      BY WorkingIs
    <2> QED BY <1>2, <2>1
  <1>4. ToCome(rest.todo) /\ Fresh(call)
    BY <1>1, <1>2, <1>3, RestToCome
  <1>5. OpBase(rest)
    BY <1>1, <1>3, <1>4 DEF OpBase, ToCome
  <1>6. PICK n : n = Start(rest, call)
    OBVIOUS
  <1>7. OpOK(n)
    BY <1>3, <1>4, <1>5, <1>6, StartOK
  <1>8. Goes(n)
    BY <1>2, <1>6
  <1> QED BY <1>7, <1>8, GoesOK

\* The same request for every connector.
LEMMA CallsAre ==
    ASSUME order \in Orders, NEW operation \in Operations, NEW id, NEW limit, NEW paper,
           NEW s, s = [i \in DOMAIN order |-> Call(order[i], operation, id, limit, paper)]
    PROVE  ToCome(s)
  <1>1. /\ Len(order) = 4 /\ DOMAIN order = 1 .. 4
        /\ \A i \in 1 .. 4 : order[i] \in Providers
    BY OrderIs, SeqHas
  <1>2. IsSequence(s) /\ Len(s) = 4
    <2>1. s = [i \in 1 .. 4 |-> s[i]]
      BY <1>1
    <2> QED BY <2>1, SeqFn
  <1>3. \A i \in 1 .. 4 : s[i] = Call(order[i], operation, id, limit, paper)
    BY <1>1
  <1>4. \A i \in 1 .. 4 : Fresh(s[i])
    BY <1>1, <1>3, CallFresh
  <1> QED BY <1>2, <1>4 DEF ToCome

\* Searches and lookups are requests to come.
LEMMA ListsAre ==
    ASSUME order \in Orders
    PROVE  /\ \A limit : ToCome(Searches(limit))
           /\ \A id : ToCome(Lookups(id))
  <1>1. "search" \in Operations /\ "metadata" \in Operations
    BY DEF Operations
  <1> QED BY <1>1, CallsAre DEF Searches, Lookups

\* An operation that was just started is in order.
LEMMA StartedIs ==
    ASSUME NEW kind, kind # "snowball", NEW r, NEW todo, ToCome(todo),
           NEW observations, IsSequence(observations)
    PROVE  /\ OpOK(Started(kind, r, todo, observations))
           /\ \A extra : OpOK(With(Started(kind, r, todo, observations), extra))
  <1>1. PICK s : s = Started(kind, r, todo, observations)
    OBVIOUS
  <1>2. /\ DOMAIN s = {"kind", "req", "call", "results", "todo", "observations"}
        /\ s.kind = kind /\ s.call = NoCall /\ s.results = <<>> /\ s.todo = todo
        /\ s.observations = observations
    BY <1>1 DEF Started
  <1>3. Counted(<<>>)
    BY SeqEmpty DEF Counted
  <1>4. OpOK(s)
    BY <1>2, <1>3, PlainOK
  <1>5. ASSUME NEW extra PROVE OpOK(With(s, extra))
    <2>1. PICK t : t = With(s, extra)
      OBVIOUS
    <2>2. DOMAIN s \subseteq DOMAIN t /\ \A x \in DOMAIN s : t[x] = s[x]
      BY <2>1 DEF With
    <2>3. /\ t.kind = kind /\ t.call = NoCall /\ t.results = <<>> /\ t.todo = todo
          /\ t.observations = observations
      BY <1>2, <2>2
    <2>4. OpOK(t)
      BY <1>2, <1>3, <2>2, <2>3, PlainOK
    <2> QED BY <2>1, <2>4
  <1> QED BY <1>1, <1>4, <1>5

\* The operations that begin with searches or lookups.
LEMMA SearchOK ==
    ASSUME LitTypes, NEW r \in Requests, SearchPapers(r) \/ VerifyMetadata(r) \/ EnrichSources(r)
    PROVE  LitTypes'
  <1>1. order \in Orders
    BY DEF LitTypes
  <1>2. ToCome(<<>>) /\ ToCome(Searches(r.max)) /\ ToCome(Lookups(r.id)) /\ IsSequence(<<>>)
    BY <1>1, ListsAre, SeqEmpty DEF ToCome
  <1>3. CASE SearchPapers(r)
    <2>1. OpOK(Started("search", r, Searches(r.max), <<>>))
      BY <1>2, StartedIs
    <2> QED BY <1>3, <2>1, BeginsOK DEF SearchPapers
  <1>4. CASE VerifyMetadata(r)
    <2>1. OpOK(Started("verify", r, Lookups(r.id), <<>>))
      BY <1>2, StartedIs
    <2> QED BY <1>4, <2>1, BeginsOK DEF VerifyMetadata
  <1>5. CASE EnrichSources(r)
    <2>1. PICK o : o = With(Started("enrich", r, <<>>, <<>>),
                            [left |-> r.dois, begun |-> FALSE, enriched |-> {}, failing |-> {}])
      OBVIOUS
    <2>2. OpOK(o)
      BY <1>2, <2>1, StartedIs
    <2> QED BY <1>5, <2>1, <2>2, BeginsOK DEF EnrichSources
  <1> QED BY <1>3, <1>4, <1>5

\* A source that found no paper is followed by the next.
LEMMA NextSourceOK == ASSUME LitTypes, NextSource PROVE LitTypes'
  <1>1. op # None /\ op.kind = "enrich" /\ op.call = NoCall /\ op.todo = <<>>
    BY DEF NextSource, Working
  <1>2. /\ OpBase(op) /\ Counted(op.results) /\ IsSequence(op.observations) /\ ToCome(op.todo)
        /\ "kind" \in DOMAIN op /\ "req" \in DOMAIN op /\ "call" \in DOMAIN op
        /\ "results" \in DOMAIN op /\ "todo" \in DOMAIN op /\ "observations" \in DOMAIN op
    BY <1>1, WorkingIs
  <1>3. ASSUME NEW n, DOMAIN n = DOMAIN op, n.kind = "enrich", n.call = NoCall,
               n.results = op.results, IsSequence(n.observations), ToCome(n.todo), Goes(n)
        PROVE  LitTypes'
    <2>1. OpOK(n)
      BY <1>2, <1>3, PlainOK DEF OpBase
    <2> QED BY <1>3, <2>1, GoesOK
  <1>4. CASE ~op.begun
    <2>1. PICK n : n = [op EXCEPT !.begun = TRUE, !.todo = Lookups(Head(op.left))]
      OBVIOUS
    <2>2. /\ DOMAIN n = DOMAIN op /\ n.kind = "enrich" /\ n.call = NoCall
          /\ n.results = op.results /\ n.observations = op.observations
          /\ n.todo = Lookups(Head(op.left))
      BY <1>1, <1>2, <2>1
    <2>3. ToCome(n.todo)
      BY <2>2, ListsAre DEF LitTypes
    <2>4. Goes(n)
      BY <1>4, <2>1 DEF NextSource
    <2> QED BY <1>2, <1>3, <2>2, <2>3, <2>4
  <1>5. CASE ~(~op.begun)
    <2>1. PICK a, b : Goes([op EXCEPT !.left = Tail(@), !.begun = FALSE, !.observations = <<>>,
                                      !.enriched = a, !.failing = b])
      BY <1>5 DEF NextSource
    <2>2. PICK n : n = [op EXCEPT !.left = Tail(@), !.begun = FALSE, !.observations = <<>>,
                                  !.enriched = a, !.failing = b]
      OBVIOUS
    <2>3. /\ DOMAIN n = DOMAIN op /\ n.kind = "enrich" /\ n.call = NoCall
          /\ n.results = op.results /\ n.observations = <<>> /\ n.todo = op.todo
      BY <1>1, <1>2, <2>2
    <2> QED BY <1>2, <1>3, <2>1, <2>2, <2>3, SeqEmpty
  <1> QED BY <1>4, <1>5

-----------------------------------------------------------------------------
(* The local corpus.                                                       *)

\* The relevant records of a list are different places of it.
LEMMA RelevantIs ==
    ASSUME NEW recs, NEW query, IsSequence(recs)
    PROVE  IsSequence(Relevant(recs, query)) /\ Among(Relevant(recs, query), recs)
  <1>1. PICK S : Relevant(recs, query) = Picked(recs, S)
    BY DEF Relevant
  <1> QED BY <1>1, PickedAmong DEF Among

\* The entries of an item of the local corpus,
LEMMA EntriesAre ==
    ASSUME NEW item, IsSequence(item.entries)
    PROVE  IsSequence(Entries(item))
  <1>1. IsSequence(BeforeCut(item.entries))
    <2>1. BeforeCut(item.entries) = item.entries \/ \E n : BeforeCut(item.entries) = FirstOf(item.entries, n)
      BY DEF BeforeCut
    <2> QED BY <2>1, FirstOfIs
  <1>2. PICK S : Entries(item) = Picked(BeforeCut(item.entries), S)
    BY DEF Entries
  <1> QED BY <1>1, <1>2, PickedIs

\* the records that are read from it,
LEMMA IngestIs ==
    ASSUME NEW item, IsItem(item)
    PROVE  IsSequence(Ingest(item).records)
  <1>1. CASE item.type = "note"
    <2>1. Ingest(item) = [records |-> <<>>, issues |-> {}, status |-> "ignored"]
      BY <1>1 DEF Ingest
    <2> QED BY <2>1, SeqEmpty
  <1>2. CASE item.type # "note" /\ ~item.readable
    <2>1. Ingest(item) = [records |-> <<>>, issues |-> {"corpus_source_error"}, status |-> "error"]
      BY <1>2 DEF Ingest
    <2> QED BY <2>1, SeqEmpty
  <1>3. CASE item.type = "bibtex" /\ item.readable
    <2>1. Ingest(item).records = [i \in DOMAIN Entries(item) |-> Entries(item)[i].record]
      BY <1>3 DEF Ingest
    <2>2. PICK e, s : e = Entries(item) /\ s = [i \in DOMAIN e |-> e[i].record]
      OBVIOUS
    <2>3. IsSequence(e)
      BY <1>3, <2>2, EntriesAre DEF IsItem
    <2>4. Len(e) \in Nat /\ s = [i \in 1 .. Len(e) |-> s[i]]
      BY <2>2, <2>3, SeqHas
    <2> QED BY <2>1, <2>2, <2>4, SeqFn
  <1>4. CASE item.type = "pdf" /\ item.readable
    <2>1. Ingest(item).records = <<item.record>>
      BY <1>4 DEF Ingest
    <2> QED BY <2>1, SeqOne
  <1>5. CASE item.type = "doi" /\ item.readable
    <2>1. Ingest(item).records = <<item.record>>
      BY <1>5 DEF Ingest
    <2> QED BY <2>1, SeqOne
  <1> QED BY <1>1, <1>2, <1>3, <1>4, <1>5 DEF IsItem

\* and those of all items are sequences.
LEMMA CorpusIs ==
    ASSUME NEW items, IsSequence(items), \A i \in DOMAIN items : IsItem(items[i])
    PROVE  IsSequence(CorpusRecords(items))
  <1>1. DOMAIN items = 1 .. Len(items) /\ Len(items) \in Nat
    BY SeqHas
  <1>2. PICK s : s = [i \in DOMAIN items |-> Ingest(items[i]).records]
    OBVIOUS
  <1>3. IsSequence(s) /\ Len(s) = Len(items)
    <2>1. s = [i \in 1 .. Len(items) |-> s[i]]
      BY <1>1, <1>2
    <2> QED BY <1>1, <2>1, SeqFn
  <1>4. \A n \in 1 .. Len(s) : IsSequence(s[n])
    BY <1>1, <1>2, <1>3, IngestIs
  <1> QED BY <1>2, <1>3, <1>4, AllIs DEF CorpusRecords

\* Lists of requests, one after the other.
LEMMA AllToCome ==
    ASSUME NEW s, IsSequence(s), \A n \in 1 .. Len(s) : ToCome(s[n])
    PROVE  ToCome(All(s))
  <1>1. \A n \in 1 .. Len(s) : IsSequence(s[n])
    BY DEF ToCome
  <1>2. PICK j : j = All(s)
    OBVIOUS
  <1>3. /\ IsSequence(j)
        /\ \A m \in 1 .. Len(j) : \E n \in 1 .. Len(s) : \E q \in 1 .. Len(s[n]) : j[m] = s[n][q]
    BY <1>1, <1>2, AllIs
  <1>4. \A m \in 1 .. Len(j) : Fresh(j[m])
    BY <1>3 DEF ToCome
  <1> QED BY <1>2, <1>3, <1>4 DEF ToCome

\* A corpus search begins with the local records,
LEMMA CorpusSearchOK == ASSUME LitTypes, NEW r \in Requests, CorpusSearch(r) PROVE LitTypes'
  <1>1. r.kind = "corpus" /\ IsSequence(r.items) /\ \A i \in DOMAIN r.items : IsItem(r.items[i])
    BY RequestsAssumption DEF CorpusSearch
  <1>2. PICK relevant : relevant = Relevant(CorpusRecords(r.items), r.query)
    OBVIOUS
  <1>3. IsSequence(relevant)
    BY <1>1, <1>2, CorpusIs, RelevantIs
  <1>4. PICK asked : asked = [i \in DOMAIN relevant |-> BestIdentifier(VerificationOrder(relevant)[i])]
    OBVIOUS
  <1>5. IsSequence(asked)
    <2>1. Len(relevant) \in Nat /\ asked = [i \in 1 .. Len(relevant) |-> asked[i]]
      BY <1>3, <1>4, SeqHas
    <2> QED BY <2>1, SeqFn
  <1>6. PICK once : once = Picked(asked, {i \in DOMAIN asked :
                                   asked[i] # None /\ \A j \in 1 .. i - 1 : asked[j] # asked[i]})
    OBVIOUS
  <1>7. IsSequence(once)
    <2>1. PICK S : once = Picked(asked, S)
      BY <1>6
    <2> QED BY <1>5, <2>1, PickedIs
  <1>8. PICK looks : looks = [i \in DOMAIN once |-> Lookups(once[i])]
    OBVIOUS
  <1>9. IsSequence(looks) /\ Len(looks) = Len(once) /\ DOMAIN once = 1 .. Len(once)
    <2>1. Len(once) \in Nat /\ looks = [i \in 1 .. Len(once) |-> looks[i]] /\ DOMAIN once = 1 .. Len(once)
      BY <1>7, <1>8, SeqHas
    <2> QED BY <2>1, SeqFn
  <1>10. ToCome(All(looks))
    <2>1. \A n \in 1 .. Len(looks) : ToCome(looks[n])
      BY <1>8, <1>9, ListsAre DEF LitTypes
    <2> QED BY <1>9, <2>1, AllToCome
  <1>11. PICK o : o = With(Started("corpus", r, All(looks), relevant),
                           [phase |-> "metadata", local |-> <<>>, rounds |-> 0])
    OBVIOUS
  <1>12. OpOK(o)
    BY <1>3, <1>10, <1>11, StartedIs
  <1>13. Begins(o)
    <2> DEFINE a == Relevant(CorpusRecords(r.items), r.query)
               b == [i \in DOMAIN a |-> BestIdentifier(VerificationOrder(a)[i])]
               c == Picked(b, {i \in DOMAIN b :
                                 b[i] # None /\ \A j \in 1 .. i - 1 : b[j] # b[i]})
    <2>1. Begins(With(Started("corpus", r, All([i \in DOMAIN c |-> Lookups(c[i])]), a),
                      [phase |-> "metadata", local |-> <<>>, rounds |-> 0]))
      BY DEF CorpusSearch
    <2>2. a = relevant
      BY <1>2
    <2> HIDE DEF a
    <2>3. b = asked
      BY <1>4, <2>2
    <2> HIDE DEF b
    <2>4. c = once
      BY <1>6, <2>3
    <2> HIDE DEF c
    <2> QED BY <1>8, <1>11, <2>1, <2>2, <2>4
  <1> QED BY <1>12, <1>13, BeginsOK

\* puts those that are relevant first,
LEMMA KeepLocalOK == ASSUME LitTypes, KeepLocal PROVE LitTypes'
  <1>1. op # None /\ op.kind = "corpus" /\ op.call = NoCall
    BY DEF KeepLocal, Working
  <1>2. /\ OpBase(op) /\ Counted(op.results) /\ IsSequence(op.observations)
        /\ "kind" \in DOMAIN op /\ "req" \in DOMAIN op /\ "call" \in DOMAIN op
        /\ "results" \in DOMAIN op /\ "todo" \in DOMAIN op /\ "observations" \in DOMAIN op
    BY <1>1, WorkingIs
  <1>3. PICK own : own = Relevant(MergePaperRecords(op.observations), op.req.query)
    OBVIOUS
  <1>4. PapersOK(own)
    <2>1. PapersOK(MergePaperRecords(op.observations))
      BY <1>2, ShownPapers
    <2>2. Among(own, MergePaperRecords(op.observations))
      BY <1>3, <2>1, RelevantIs DEF PapersOK
    <2> QED BY <2>1, <2>2, AmongOK
  <1>5. IsSequence(Observations(own))
    <2>1. PICK s : s = [i \in DOMAIN own |-> own[i].obs]
      OBVIOUS
    <2>2. /\ Len(own) \in Nat /\ DOMAIN own = 1 .. Len(own)
          /\ \A i \in 1 .. Len(own) : IsSequence(own[i].obs)
      BY <1>4, SeqHas DEF PapersOK
    <2>3. IsSequence(s) /\ Len(s) = Len(own)
      <3>1. s = [i \in 1 .. Len(own) |-> s[i]]
        BY <2>1, <2>2
      <3> QED BY <2>2, <3>1, SeqFn
    <2>4. \A n \in 1 .. Len(s) : IsSequence(s[n])
      BY <2>1, <2>2, <2>3
    <2> QED BY <2>1, <2>3, <2>4, AllIs DEF Observations
  <1>6. PICK n : n = [op EXCEPT !.phase = "rounds", !.todo = <<>>, !.local = own,
                                !.observations = Observations(own)]
    OBVIOUS
  <1>7. /\ DOMAIN n = DOMAIN op /\ n.kind = "corpus" /\ n.call = NoCall
        /\ n.results = op.results /\ n.observations = Observations(own) /\ n.todo = <<>>
    BY <1>1, <1>2, <1>6
  <1>8. ToCome(<<>>)
    BY SeqEmpty DEF ToCome
  <1>9. OpOK(n)
    BY <1>2, <1>5, <1>7, <1>8, PlainOK
  <1>10. Goes(n)
    BY <1>3, <1>6 DEF KeepLocal
  <1> QED BY <1>9, <1>10, GoesOK

\* asks the next of them of the providers,
LEMMA NextRoundOK == ASSUME LitTypes, NextRound PROVE LitTypes'
  <1>1. op # None /\ op.kind = "corpus" /\ op.call = NoCall
    BY DEF NextRound, Working
  <1>2. /\ OpBase(op) /\ Counted(op.results) /\ IsSequence(op.observations)
        /\ "kind" \in DOMAIN op /\ "req" \in DOMAIN op /\ "call" \in DOMAIN op
        /\ "results" \in DOMAIN op /\ "todo" \in DOMAIN op /\ "observations" \in DOMAIN op
    BY <1>1, WorkingIs
  <1>3. PICK n : n = [op EXCEPT !.rounds = @ + 1, !.todo = Searches(RoundLimit(op))]
    OBVIOUS
  <1>4. /\ DOMAIN n = DOMAIN op /\ n.kind = "corpus" /\ n.call = NoCall
        /\ n.results = op.results /\ n.observations = op.observations
        /\ n.todo = Searches(RoundLimit(op))
    BY <1>1, <1>2, <1>3
  <1>5. ToCome(n.todo)
    BY <1>4, ListsAre DEF LitTypes
  <1>6. OpOK(n)
    BY <1>2, <1>4, <1>5, PlainOK
  <1>7. Goes(n)
    BY <1>3 DEF NextRound
  <1> QED BY <1>6, <1>7, GoesOK

\* and goes through the requests of each.
LEMMA AsksOK == ASSUME LitTypes, AskNext \/ CheckMetadata \/ AskRound PROVE LitTypes'
  <1>1. /\ op # None /\ op.kind # "snowball" /\ op.call = NoCall /\ op.todo # <<>>
        /\ Goes(Start([op EXCEPT !.todo = Tail(@)], Head(op.todo)))
    BY DEF AskNext, CheckMetadata, AskRound, Working
  <1> QED BY <1>1, AskOK

-----------------------------------------------------------------------------
(* The steps of the snowball.                                              *)

\* Every provider is asked in every direction.
AsksAll(todo, directions, paper) ==
    \A p \in Providers, d \in ToSet(directions) : \E i \in 1 .. Len(todo) :
       todo[i].paper = paper /\ todo[i].c = p /\ todo[i].operation = d

\* Every provider takes a turn for every direction.
LEMMA TurnsAre ==
    ASSUME order \in Orders, NEW id, NEW r, NEW paper, IsSequence(r.directions),
           r.directions # <<>>, ToSet(r.directions) \subseteq {"references", "citations"},
           NEW t, t = Turns(id, r, paper)
    PROVE  ToCome(t) /\ t # <<>> /\ AsksAll(t, r.directions, paper)
  <1>1. /\ Len(order) = 4 /\ DOMAIN order = 1 .. 4
        /\ \A j \in 1 .. 4 : order[j] \in Providers
        /\ \A p \in Providers : \E j \in 1 .. 4 : order[j] = p
    BY OrderIs, SeqHas
  <1>2. PICK D : D = r.directions
    OBVIOUS
  <1>3. /\ IsSequence(D) /\ Len(D) \in Nat /\ DOMAIN D = 1 .. Len(D) /\ Len(D) # 0
        /\ D \in Seq(ToSet(D))
    <2>1. IsSequence(D) /\ Len(D) \in Nat /\ DOMAIN D = 1 .. Len(D) /\ D \in Seq(ToSet(D))
      BY <1>2, SeqHas
    <2>2. Len(D) # 0
      BY <1>2, <2>1, EmptySeq
    <2> QED BY <2>1, <2>2
  <1>4. PICK s : s = [j \in DOMAIN order |->
                        [i \in DOMAIN D |-> Call(order[j], D[i], id, r.perProvider, paper)]]
    OBVIOUS
  <1>5. IsSequence(s) /\ Len(s) = 4
    <2>1. s = [j \in 1 .. 4 |-> s[j]]
      BY <1>1, <1>4
    <2> QED BY <2>1, SeqFn
  <1>6. \A j \in 1 .. 4 : s[j] = [i \in 1 .. Len(D) |-> Call(order[j], D[i], id, r.perProvider, paper)]
    BY <1>1, <1>3, <1>4
  <1>7. \A j \in 1 .. 4 : IsSequence(s[j]) /\ Len(s[j]) = Len(D)
    <2> TAKE j \in 1 .. 4
    <2>1. s[j] = [i \in 1 .. Len(D) |-> s[j][i]]
      BY <1>6
    <2> QED BY <1>3, <2>1, SeqFn
  <1>8. ASSUME NEW j \in 1 .. 4, NEW i \in 1 .. Len(D)
        PROVE  /\ Fresh(s[j][i]) /\ s[j][i].paper = paper /\ s[j][i].c = order[j]
               /\ s[j][i].operation = D[i]
    <2>1. D[i] \in Operations
      BY <1>2, <1>3 DEF Operations
    <2>2. s[j][i] = Call(order[j], D[i], id, r.perProvider, paper)
      BY <1>6
    <2> QED BY <1>1, <2>1, <2>2, CallFresh
  <1>9. t = All(s)
    BY <1>2, <1>4 DEF Turns
  <1>10. ToCome(t)
    <2>1. \A j \in 1 .. 4 : ToCome(s[j])
      BY <1>7, <1>8 DEF ToCome
    <2> QED BY <1>5, <1>9, <2>1, AllToCome
  <1>11. \A j \in 1 .. 4 : \A q \in 1 .. Len(D) : \E m \in 1 .. Len(t) : t[m] = s[j][q]
    <2>1. \A j \in 1 .. Len(s) : IsSequence(s[j])
      BY <1>5, <1>7
    <2>2. IsSequence(s)
      BY <1>5
    <2>3. \A j \in 1 .. Len(s) : \A q \in 1 .. Len(s[j]) : \E m \in 1 .. Len(All(s)) :
             All(s)[m] = s[j][q]
      BY <2>1, <2>2, AllIs
    <2> TAKE j \in 1 .. 4
    <2> TAKE q \in 1 .. Len(D)
    <2>4. j \in 1 .. Len(s) /\ q \in 1 .. Len(s[j])
      BY <1>5, <1>7
    <2>5. PICK m \in 1 .. Len(All(s)) : All(s)[m] = s[j][q]
      BY <2>3, <2>4
    <2> QED BY <1>9, <2>5
  <1>12. ASSUME NEW p \in Providers, NEW d \in ToSet(r.directions)
         PROVE  \E i \in 1 .. Len(t) : t[i].paper = paper /\ t[i].c = p /\ t[i].operation = d
    <2>1. PICK j \in 1 .. 4 : order[j] = p
      BY <1>1
    <2>2. PICK q \in 1 .. Len(D) : D[q] = d
      BY <1>2, <1>3 DEF ToSet
    <2>3. PICK m \in 1 .. Len(t) : t[m] = s[j][q]
      BY <1>11
    <2> QED BY <1>8, <2>1, <2>2, <2>3
  <1>13. t # <<>>
    <2>1. 1 \in 1 .. 4 /\ 1 \in 1 .. Len(D)
      BY <1>3
    <2>2. PICK m : m \in 1 .. Len(t)
      BY <1>11, <2>1
    <2> QED BY <2>2, SeqEmpty
  <1> QED BY <1>10, <1>12, <1>13 DEF AsksAll

\* A snowball starts at its seed, which is queued.
LEMMA SnowballOK == ASSUME LitTypes, NEW r \in Requests, Snowball(r) PROVE LitTypes'
  <1>1. PICK node : node = [record |-> r.seed, id |-> CanonicalId(r.seed), depth |-> 0]
    OBVIOUS
  <1>2. PICK s, x : /\ s = Started("snowball", r, <<>>, <<>>)
                    /\ x = [queue |-> <<node>>, visited |-> {CanonicalId(r.seed)},
                            current |-> NoPaper, edges |-> <<>>, reasons |-> {}]
    OBVIOUS
  <1>3. PICK o : o = With(s, x)
    OBVIOUS
  <1>4. /\ r.kind = "snowball" /\ Allowed(r) /\ Begins(o)
    BY <1>1, <1>2, <1>3 DEF Snowball
  <1>5. /\ DOMAIN s = {"kind", "req", "call", "results", "todo", "observations"}
        /\ DOMAIN x = {"queue", "visited", "current", "edges", "reasons"}
        /\ s.kind = "snowball" /\ s.req = r /\ s.call = NoCall /\ s.results = <<>> /\ s.todo = <<>>
        /\ s.observations = <<>>
    BY <1>2 DEF Started
  <1>6. /\ DOMAIN o = DOMAIN s \cup DOMAIN x
        /\ \A f \in DOMAIN s : o[f] = s[f]
        /\ \A f \in DOMAIN x : f \notin DOMAIN s => o[f] = x[f]
    BY <1>3 DEF With
  <1>7. /\ o.kind = "snowball" /\ o.req = r /\ o.call = NoCall /\ o.results = <<>> /\ o.todo = <<>>
        /\ o.observations = <<>>
    BY <1>5, <1>6
  <1>8. /\ o.queue = <<node>> /\ o.visited = {CanonicalId(r.seed)} /\ o.current = NoPaper
        /\ o.edges = <<>> /\ o.reasons = {}
    BY <1>2, <1>5, <1>6
  <1>9. {"kind", "req", "call", "results", "todo", "observations", "queue", "visited", "current",
         "edges", "reasons"} \subseteq DOMAIN o
    BY <1>5, <1>6
  <1>10. OpBase(o)
    BY <1>7, <1>9, SeqEmpty DEF OpBase
  <1>11. /\ IsSequence(<<node>>) /\ Len(<<node>>) = 1 /\ <<node>>[1] = node
    BY SeqOne
  <1>12. SnowTypes(o)
    <2>1. node.depth \in Nat
      BY <1>1
    <2>2. \A i \in 1 .. Len(o.queue) : o.queue[i].depth \in Nat
      <3>1. \A i \in 1 .. Len(o.queue) : i = 1
        BY <1>8, <1>11
      <3> QED BY <1>8, <1>11, <2>1, <3>1
    <2> QED BY <1>4, <1>7, <1>8, <1>9, <1>11, <2>2, SeqEmpty DEF SnowTypes
  <1>13. Reaches(o)
    <2>1. o.visited = {CanonicalId(o.req.seed)} \cup {Child(o.edges[i]) : i \in 1 .. Len(o.edges)}
      BY <1>7, <1>8, SeqEmpty
    <2>2. Pending(o, SeedNode(o))
      <3>1. 1 \in 1 .. Len(o.queue) /\ o.queue[1] = SeedNode(o)
        BY <1>1, <1>7, <1>8, <1>11 DEF SeedNode
      <3> QED BY <3>1 DEF Pending
    <2> QED BY <1>7, <1>8, <2>1, <2>2, SeqEmpty DEF Reaches, AllPending
  <1>14. Turned(o, NoCall)
    BY <1>8 DEF Turned
  <1>15. SnowInv(o)
    BY <1>7, <1>8, <1>12, <1>13, <1>14 DEF SnowInv, SnowBody
  <1>16. OpOK(o)
    BY <1>7, <1>10, <1>15 DEF OpOK
  <1> QED BY <1>4, <1>16, BeginsOK

\* The operation of a snowball between two requests.
LEMMA SnowIs ==
    ASSUME LitTypes, Working("snowball")
    PROVE  /\ op # None /\ op.kind = "snowball" /\ op.call = NoCall
           /\ OpBase(op) /\ SnowBody(op, NoCall) /\ SnowTypes(op) /\ ToCome(op.todo)
           /\ op.current # NoPaper => op.todo # <<>>
           /\ "kind" \in DOMAIN op /\ "req" \in DOMAIN op /\ "call" \in DOMAIN op
           /\ "results" \in DOMAIN op /\ "todo" \in DOMAIN op /\ "observations" \in DOMAIN op
           /\ "queue" \in DOMAIN op /\ "visited" \in DOMAIN op /\ "current" \in DOMAIN op
           /\ "edges" \in DOMAIN op /\ "reasons" \in DOMAIN op
  <1>1. op # None /\ op.kind = "snowball" /\ op.call = NoCall
    BY DEF Working
  <1>2. OpBase(op) /\ SnowInv(op) /\ SnowBody(op, NoCall) /\ SnowTypes(op)
    BY <1>1 DEF LitTypes, OpOK, SnowInv, SnowBody
  <1> QED BY <1>1, <1>2 DEF SnowInv, OpBase, SnowTypes, ToCome

\* What was reached stays reached when nothing pending is forgotten.
LEMMA ReachesKept ==
    ASSUME NEW o, NEW n, SnowTypes(o), Reaches(o), n.req = o.req, n.edges = o.edges,
           n.observations = o.observations, n.visited = o.visited,
           \A node : Pending(o, node) /\ node.depth \in Nat => Pending(n, node)
    PROVE  Reaches(n)
  <1>1. SeedNode(n) = SeedNode(o) /\ \A i : NodeAt(n, i) = NodeAt(o, i)
    BY DEF SeedNode, NodeAt
  <1>2. Pending(n, SeedNode(n))
    BY <1>1, NodesAre DEF Reaches, AllPending
  <1>3. ASSUME NEW i \in 1 .. Len(n.edges), FirstReached(n.edges, i),
               Child(n.edges[i]) # CanonicalId(n.req.seed)
        PROVE  Pending(n, NodeAt(n, i))
    <2>1. i \in 1 .. Len(o.edges) /\ Pending(o, NodeAt(o, i))
      BY <1>3 DEF Reaches, AllPending
    <2>2. NodeAt(o, i).depth \in Nat
      BY <2>1, NodesAre
    <2> QED BY <1>1, <2>1, <2>2
  <1>4. AllPending(n)
    BY <1>2, <1>3 DEF AllPending
  <1> QED BY <1>4 DEF Reaches

\* What is cut is in order whatever was reached.
LEMMA CutOK ==
    ASSUME NEW o, OpBase(o), SnowTypes(o), o.call = NoCall, ~Uncut(o),
           o.current = NoPaper \/ o.todo # <<>>
    PROVE  OpOK(o)
  BY DEF OpOK, SnowInv, SnowBody

\* The next paper leaves the queue and is asked of everyone, or is done.
LEMMA NextPaperOK == ASSUME LitTypes, NextPaper PROVE LitTypes'
  <1>1. /\ op # None /\ op.kind = "snowball" /\ op.call = NoCall
        /\ OpBase(op) /\ SnowBody(op, NoCall) /\ SnowTypes(op) /\ ToCome(op.todo)
        /\ "kind" \in DOMAIN op /\ "req" \in DOMAIN op /\ "call" \in DOMAIN op
        /\ "results" \in DOMAIN op /\ "todo" \in DOMAIN op /\ "observations" \in DOMAIN op
        /\ "queue" \in DOMAIN op /\ "visited" \in DOMAIN op /\ "current" \in DOMAIN op
        /\ "edges" \in DOMAIN op /\ "reasons" \in DOMAIN op
    BY SnowIs DEF NextPaper
  <1>2. op.current = NoPaper /\ op.queue # <<>>
    BY DEF NextPaper
  <1>3. PICK node, id : node = Head(op.queue) /\ id = BestIdentifier(node.record)
    OBVIOUS
  <1>4. /\ IsSequence(op.queue) /\ IsSequence(Tail(op.queue)) /\ Len(Tail(op.queue)) = Len(op.queue) - 1
        /\ Len(op.queue) \in Nat /\ Len(op.queue) > 0 /\ op.queue[1] = node
        /\ \A i \in 1 .. Len(op.queue) - 1 : Tail(op.queue)[i] = op.queue[i + 1]
    BY <1>1, <1>2, <1>3, SeqTail, SeqHas DEF SnowTypes
  <1>5. node.depth \in Nat /\ \A i \in 1 .. Len(Tail(op.queue)) : Tail(op.queue)[i].depth \in Nat
    <2>1. \A i \in 1 .. Len(op.queue) : op.queue[i].depth \in Nat
      BY <1>1 DEF SnowTypes
    <2>2. 1 \in 1 .. Len(op.queue) /\ \A i \in 1 .. Len(op.queue) - 1 : i + 1 \in 1 .. Len(op.queue)
      BY <1>4
    <2> QED BY <1>4, <2>1, <2>2
  <1>6. CASE OperationsUsed(op) \/ QueriesUsed(op)
    <2>1. PICK why : Goes([op EXCEPT !.queue = <<>>, !.reasons = @ \cup {why}])
      BY <1>6 DEF NextPaper
    <2>2. PICK n : n = [op EXCEPT !.queue = <<>>, !.reasons = @ \cup {why}]
      OBVIOUS
    <2>3. /\ DOMAIN n = DOMAIN op /\ n.kind = op.kind /\ n.req = op.req /\ n.call = NoCall
          /\ n.results = op.results /\ n.todo = op.todo /\ n.observations = op.observations
          /\ n.queue = <<>> /\ n.visited = op.visited /\ n.current = NoPaper
          /\ n.edges = op.edges /\ n.reasons = op.reasons \cup {why}
      BY <1>1, <1>2, <2>2
    <2>4. OpBase(n)
      BY <1>1, <2>3 DEF OpBase
    <2>5. SnowTypes(n)
      BY <1>1, <2>3, SeqEmpty DEF SnowTypes
    <2>6. ~Uncut(n)
      BY <2>3 DEF Uncut
    <2>7. OpOK(n)
      BY <2>3, <2>4, <2>5, <2>6, CutOK
    <2> QED BY <2>1, <2>2, <2>7, GoesOK
  <1>7. CASE /\ ~(OperationsUsed(op) \/ QueriesUsed(op))
             /\ node.depth >= op.req.depth \/ id = None \/ op.req.directions = <<>>
    <2>1. PICK n : n = [op EXCEPT !.queue = Tail(@)]
      OBVIOUS
    <2>2. Goes(n)
      BY <1>3, <1>7, <2>1 DEF NextPaper
    <2>3. /\ DOMAIN n = DOMAIN op /\ n.kind = op.kind /\ n.req = op.req /\ n.call = NoCall
          /\ n.results = op.results /\ n.todo = op.todo /\ n.observations = op.observations
          /\ n.queue = Tail(op.queue) /\ n.visited = op.visited /\ n.current = NoPaper
          /\ n.edges = op.edges /\ n.reasons = op.reasons
      BY <1>1, <1>2, <2>1
    <2>4. OpBase(n)
      BY <1>1, <2>3 DEF OpBase
    <2>5. SnowTypes(n)
      BY <1>1, <1>4, <1>5, <2>3 DEF SnowTypes
    <2>6. ASSUME Uncut(n) PROVE Reaches(n)
      <3>1. Uncut(op)
        BY <2>3, <2>6 DEF Uncut, Spent
      <3>2. Done(n, node)
        <4>1. ASSUME op.req.directions = <<>> PROVE ToSet(n.req.directions) = {}
          BY <2>3, <4>1 DEF ToSet
        <4> QED BY <1>3, <1>7, <2>3, <4>1 DEF Done
      <3>3. ASSUME NEW x, Pending(op, x), x.depth \in Nat PROVE Pending(n, x)
        <4>1. (\E i \in 1 .. Len(op.queue) : op.queue[i] = x) \/ Done(op, x)
          BY <1>2, <3>3, PendingBetween
        <4>2. CASE Done(op, x)
          BY <2>3, <4>2 DEF Pending, Done, Asked
        <4>3. CASE \E i \in 1 .. Len(op.queue) : op.queue[i] = x
          <5>1. PICK i \in 1 .. Len(op.queue) : op.queue[i] = x
            BY <4>3
          <5>2. CASE i = 1
            BY <1>4, <3>2, <5>1, <5>2 DEF Pending
          <5>3. CASE i # 1
            <6>1. i - 1 \in 1 .. Len(op.queue) - 1 /\ (i - 1) + 1 = i
              BY <1>4, <5>3
            <6>2. i - 1 \in 1 .. Len(n.queue) /\ n.queue[i - 1] = x
              BY <1>4, <2>3, <5>1, <6>1
            <6> QED BY <6>2 DEF Pending
          <5> QED BY <5>2, <5>3
        <4> QED BY <4>1, <4>2, <4>3
      <3> QED BY <1>1, <2>3, <3>1, <3>3, ReachesKept DEF SnowBody
    <2>7. OpOK(n)
      <3>1. Turned(n, NoCall)
        BY <2>3 DEF Turned
      <3>2. SnowInv(n)
        BY <2>3, <2>5, <2>6, <3>1 DEF SnowInv, SnowBody
      <3> QED BY <2>3, <2>4, <3>2 DEF OpOK
    <2> QED BY <2>2, <2>7, GoesOK
  <1>8. CASE /\ ~(OperationsUsed(op) \/ QueriesUsed(op))
             /\ ~(node.depth >= op.req.depth \/ id = None \/ op.req.directions = <<>>)
    <2>1. PICK t : t = Turns(id, op.req, node.id)
      OBVIOUS
    <2>2. PICK n : n = [op EXCEPT !.queue = Tail(@), !.current = node, !.todo = t]
      OBVIOUS
    <2>3. Goes(n)
      <3>1. Goes([[op EXCEPT !.queue = Tail(@)] EXCEPT !.current = node, !.todo = t])
        BY <1>3, <1>8, <2>1 DEF NextPaper
      <3>2. n = [[op EXCEPT !.queue = Tail(@)] EXCEPT !.current = node, !.todo = t]
        BY <1>1, <2>2
      <3> QED BY <3>1, <3>2
    <2>4. /\ DOMAIN n = DOMAIN op /\ n.kind = op.kind /\ n.req = op.req /\ n.call = NoCall
          /\ n.results = op.results /\ n.todo = t /\ n.observations = op.observations
          /\ n.queue = Tail(op.queue) /\ n.visited = op.visited /\ n.current = node
          /\ n.edges = op.edges /\ n.reasons = op.reasons
      BY <1>1, <1>2, <2>2
    <2>5. ToCome(t) /\ t # <<>> /\ AsksAll(t, op.req.directions, node.id)
      <3>1. /\ IsSequence(op.req.directions) /\ op.req.directions # <<>>
            /\ ToSet(op.req.directions) \subseteq {"references", "citations"}
        BY <1>1, <1>8, BudgetsAre
      <3>2. order \in Orders
        BY DEF LitTypes
      <3> QED BY <2>1, <3>1, <3>2, TurnsAre
    <2>6. OpBase(n)
      BY <1>1, <2>4, <2>5 DEF OpBase, ToCome
    <2>7. SnowTypes(n)
      BY <1>1, <1>4, <1>5, <2>4 DEF SnowTypes
    <2>8. ASSUME Uncut(n) PROVE Reaches(n)
      <3>1. Uncut(op)
        BY <2>4, <2>8 DEF Uncut, Spent
      <3>2. ASSUME NEW x, Pending(op, x), x.depth \in Nat PROVE Pending(n, x)
        <4>1. (\E i \in 1 .. Len(op.queue) : op.queue[i] = x) \/ Done(op, x)
          BY <1>2, <3>2, PendingBetween
        <4>2. CASE Done(op, x)
          BY <2>4, <4>2 DEF Pending, Done, Asked
        <4>3. CASE \E i \in 1 .. Len(op.queue) : op.queue[i] = x
          <5>1. PICK i \in 1 .. Len(op.queue) : op.queue[i] = x
            BY <4>3
          <5>2. CASE i = 1
            BY <1>4, <2>4, <5>1, <5>2 DEF Pending
          <5>3. CASE i # 1
            <6>1. i - 1 \in 1 .. Len(op.queue) - 1 /\ (i - 1) + 1 = i
              BY <1>4, <5>3
            <6>2. i - 1 \in 1 .. Len(n.queue) /\ n.queue[i - 1] = x
              BY <1>4, <2>4, <5>1, <6>1
            <6> QED BY <6>2 DEF Pending
          <5> QED BY <5>2, <5>3
        <4> QED BY <4>1, <4>2, <4>3
      <3> QED BY <1>1, <2>4, <3>1, <3>2, ReachesKept DEF SnowBody
    <2>9. Turned(n, NoCall)
      BY <2>4, <2>5 DEF Turned, ToAsk, AsksAll
    <2>10. SnowInv(n)
      BY <2>4, <2>5, <2>7, <2>8, <2>9 DEF SnowInv, SnowBody
    <2>11. OpOK(n)
      BY <2>4, <2>6, <2>10 DEF OpOK
    <2> QED BY <2>3, <2>11, GoesOK
  <1> QED BY <1>6, <1>7, <1>8

\* The next provider takes its turn, or the budget for operations is used up.
LEMMA NextTurnOK == ASSUME LitTypes, NextTurn PROVE LitTypes'
  <1>1. /\ op # None /\ op.kind = "snowball" /\ op.call = NoCall
        /\ OpBase(op) /\ SnowBody(op, NoCall) /\ SnowTypes(op) /\ ToCome(op.todo)
        /\ "kind" \in DOMAIN op /\ "req" \in DOMAIN op /\ "call" \in DOMAIN op
        /\ "results" \in DOMAIN op /\ "todo" \in DOMAIN op /\ "observations" \in DOMAIN op
        /\ "queue" \in DOMAIN op /\ "visited" \in DOMAIN op /\ "current" \in DOMAIN op
        /\ "edges" \in DOMAIN op /\ "reasons" \in DOMAIN op
    BY SnowIs DEF NextTurn
  <1>2. op.current # NoPaper /\ op.todo # <<>>
    BY SnowIs DEF NextTurn
  <1>3. PICK call, t : call = Head(op.todo) /\ t = Tail(op.todo)
    OBVIOUS
  <1>4. ToCome(t) /\ Fresh(call) /\ call = op.todo[1]
    BY <1>1, <1>2, <1>3, RestToCome
  <1>5. PICK limit : limit = GraphLimit(call, call.limit, op.req.maxQueries - Spent(op))
    OBVIOUS
  <1>6. PICK rest : rest = [op EXCEPT !.todo = t]
    OBVIOUS
  <1>7. /\ DOMAIN rest = DOMAIN op /\ rest.kind = op.kind /\ rest.req = op.req /\ rest.call = NoCall
        /\ rest.results = op.results /\ rest.todo = t /\ rest.observations = op.observations
        /\ rest.queue = op.queue /\ rest.visited = op.visited /\ rest.current = op.current
        /\ rest.edges = op.edges /\ rest.reasons = op.reasons
    BY <1>1, <1>6
  <1>8. OpBase(rest) /\ SnowTypes(rest)
    BY <1>1, <1>4, <1>7 DEF OpBase, SnowTypes, ToCome
  <1>9. CASE OperationsUsed(op) \/ QueriesUsed(op)
    <2>1. PICK why : Goes(LeaveNode([op EXCEPT !.reasons = @ \cup {why}]))
      BY <1>9 DEF NextTurn
    <2>2. PICK o, n : o = [op EXCEPT !.reasons = @ \cup {why}] /\ n = LeaveNode(o)
      OBVIOUS
    <2>3. /\ DOMAIN o = DOMAIN op /\ o.kind = op.kind /\ o.req = op.req /\ o.call = NoCall
          /\ o.results = op.results /\ o.todo = op.todo /\ o.observations = op.observations
          /\ o.queue = op.queue /\ o.visited = op.visited /\ o.current = op.current
          /\ o.edges = op.edges /\ o.reasons = op.reasons \cup {why}
      BY <1>1, <2>2
    <2>4. OpBase(o) /\ SnowTypes(o)
      BY <1>1, <2>3 DEF OpBase, SnowTypes
    <2>5. ~Uncut(o)
      BY <2>3 DEF Uncut
    <2>6. OpOK(n)
      BY <2>2, <2>3, <2>4, <2>5, LeaveOK
    <2> QED BY <2>1, <2>2, <2>6, GoesOK
  <1>10. CASE ~(OperationsUsed(op) \/ QueriesUsed(op)) /\ limit = None
    <2>1. PICK o, c, asked : /\ o = [rest EXCEPT !.reasons = @ \cup {"external_query_budget"}]
                             /\ c = call.c /\ asked = FALSE
      OBVIOUS
    <2>2. PICK n : n = Settled(o, c, asked)
      OBVIOUS
    <2>3. Goes(n)
      BY <1>3, <1>5, <1>6, <1>10, <2>1, <2>2 DEF NextTurn
    <2>4. /\ DOMAIN o = DOMAIN op /\ o.kind = op.kind /\ o.req = op.req /\ o.call = NoCall
          /\ o.results = op.results /\ o.todo = t /\ o.observations = op.observations
          /\ o.queue = op.queue /\ o.visited = op.visited /\ o.current = op.current
          /\ o.edges = op.edges /\ o.reasons = op.reasons \cup {"external_query_budget"}
      BY <1>1, <1>7, <2>1
    <2>5. OpBase(o) /\ SnowTypes(o)
      BY <1>1, <1>4, <2>4 DEF OpBase, SnowTypes, ToCome
    <2>6. ~Uncut(o)
      BY <2>4 DEF Uncut
    <2>7. SnowBody(o, NoCall)
      BY <2>5, <2>6 DEF SnowBody
    <2>8. OpOK(n)
      BY <2>2, <2>4, <2>5, <2>7, SettledOK
    <2> QED BY <2>3, <2>8, GoesOK
  <1>11. CASE ~(OperationsUsed(op) \/ QueriesUsed(op)) /\ limit # None
    <2>1. PICK v, n : v = [call EXCEPT !.limit = limit] /\ n = Start(rest, v)
      OBVIOUS
    <2>2. Goes(n)
      BY <1>3, <1>5, <1>6, <1>11, <2>1 DEF NextTurn
    <2>3. /\ v = Call(call.c, call.operation, call.id, limit, call.paper)
          /\ call.c \in Providers /\ call.operation \in Operations
      <3>1. /\ call = Call(call.c, call.operation, call.id, call.limit, call.paper)
            /\ call.c \in Providers /\ call.operation \in Operations
        BY <1>4 DEF Fresh
      <3>2. ASSUME NEW c, NEW operation, NEW id, NEW l, NEW paper,
                   call = Call(c, operation, id, l, paper)
            PROVE  v = Call(c, operation, id, limit, paper)
        BY <2>1, <3>2 DEF Call
      <3> QED BY <3>1, <3>2
    <2>4. Fresh(v) /\ SameRequest(v, call)
      BY <2>3, CallFresh DEF SameRequest
    <2>5. v # NoCall
      BY <2>4, FreshIs
    <2>6. ASSUME Uncut(rest) PROVE Reaches(rest) /\ Turned(rest, v)
      <3>1. Uncut(op)
        BY <1>7, <2>6 DEF Uncut, Spent
      <3>2. Reaches(op) /\ Turned(op, NoCall)
        BY <1>1, <3>1 DEF SnowBody
      <3>3. Reaches(rest)
        BY <1>7, <3>2 DEF Reaches, AllPending, Pending, Done, Asked, SeedNode, NodeAt
      <3>4. ASSUME NEW p, NEW d, ToAsk(op, op.current.id, p, d)
            PROVE  \/ ToAsk(rest, op.current.id, p, d)
                   \/ v.paper = op.current.id /\ v.c = p /\ v.operation = d
        <4>1. PICK i \in 1 .. Len(op.todo) : /\ op.todo[i].paper = op.current.id
                                            /\ op.todo[i].c = p /\ op.todo[i].operation = d
          BY <3>4 DEF ToAsk
        <4>2. /\ Len(t) = Len(op.todo) - 1 /\ Len(op.todo) \in Nat
              /\ \A j \in 1 .. Len(op.todo) - 1 : t[j] = op.todo[j + 1]
          BY <1>1, <1>2, <1>3, SeqTail, SeqHas DEF ToCome
        <4>3. CASE i = 1
          BY <1>4, <2>4, <4>1, <4>3 DEF SameRequest
        <4>4. CASE i # 1
          <5>1. i - 1 \in 1 .. Len(op.todo) - 1 /\ (i - 1) + 1 = i
            BY <4>2, <4>4
          <5>2. i - 1 \in 1 .. Len(rest.todo) /\ rest.todo[i - 1] = op.todo[i]
            BY <1>7, <4>2, <5>1
          <5> QED BY <4>1, <5>2 DEF ToAsk
        <4> QED BY <4>3, <4>4
      <3>5. \A id : \A p : \A d : Asked(op, id, p, d) => Asked(rest, id, p, d)
        BY <1>7 DEF Asked
      <3>6. Turned(rest, v)
        <4>1. ASSUME NEW p \in Providers, NEW d \in ToSet(rest.req.directions)
              PROVE  \/ Asked(rest, rest.current.id, p, d)
                     \/ ToAsk(rest, rest.current.id, p, d)
                     \/ v # NoCall /\ v.paper = rest.current.id /\ v.c = p /\ v.operation = d
          <5>1. Asked(op, op.current.id, p, d) \/ ToAsk(op, op.current.id, p, d)
            BY <1>2, <1>7, <3>2, <4>1 DEF Turned
          <5> QED BY <1>7, <2>5, <3>4, <3>5, <5>1
        <4> QED BY <4>1 DEF Turned
      <3> QED BY <3>3, <3>6
    <2>7. SnowBody(rest, v)
      BY <1>2, <1>7, <1>8, <2>6 DEF SnowBody
    <2>8. OpOK(n)
      BY <1>8, <2>1, <2>4, <2>7, StartOK
    <2> QED BY <2>2, <2>8, GoesOK
  <1> QED BY <1>9, <1>10, <1>11

-----------------------------------------------------------------------------
(* The answers.                                                            *)

\* What every answer has.
AnswerFields == {"kind", "req", "results", "papers", "status", "metrics", "providers"}

\* What an answer is made of.
LEMMA AnswerIs ==
    ASSUME NEW papers, NEW all, NEW extra, Answers(papers, all, extra)
    PROVE  /\ answer'.kind = op.kind /\ answer'.req = op.req /\ answer'.results = op.results
           /\ answer'.papers = papers
           /\ answer'.metrics = Metrics(op.results, all, Len(op.observations))
           /\ \A f \in DOMAIN extra : f \notin AnswerFields => answer'[f] = extra[f]
  <1>1. PICK s, a : s = OperationStatus(op.results, papers)
                    /\ a = [p \in {op.results[i].provider : i \in DOMAIN op.results} |->
                              ProviderStatus(op.results, p)]
    OBVIOUS
  <1>2. PICK m : m = Metrics(op.results, all, Len(op.observations))
    OBVIOUS
  <1>3. PICK r : r = [kind |-> op.kind, req |-> op.req, results |-> op.results, papers |-> papers,
                      status |-> s, metrics |-> m, providers |-> a]
    OBVIOUS
  <1>4. answer' = With(r, extra)
    BY <1>1, <1>2, <1>3 DEF Answers
  <1>5. DOMAIN r = AnswerFields
    BY <1>3 DEF AnswerFields
  <1>6. /\ \A f \in AnswerFields : answer'[f] = r[f]
        /\ \A f \in DOMAIN extra : f \notin AnswerFields => answer'[f] = extra[f]
    BY <1>4, <1>5 DEF With
  <1>7. /\ answer'.kind = r.kind /\ answer'.req = r.req /\ answer'.results = r.results
        /\ answer'.papers = r.papers /\ answer'.metrics = r.metrics
    BY <1>6 DEF AnswerFields
  <1> QED BY <1>2, <1>3, <1>6, <1>7

\* An answer with papers that are apart keeps PapersApart.
LEMMA AnswersApart ==
    ASSUME NEW papers, NEW all, NEW extra, Answers(papers, all, extra), PapersOK(papers)
    PROVE  PapersApart'
  <1>1. answer'.papers = papers
    BY AnswerIs
  <1>2. DOMAIN papers = 1 .. Len(papers)
    BY SeqHas DEF PapersOK
  <1> QED BY <1>1, <1>2 DEF PapersApart, PapersOK

\* What was done with was asked of everyone.
LEMMA DoneIsComplete ==
    ASSUME NEW o, NEW node, Done(o, node), ~(node.depth >= o.req.depth),
           BestIdentifier(node.record) # None, IsSequence(o.results)
    PROVE  Providers \X ToSet(o.req.directions)
             \subseteq {<<o.results[i].provider, o.results[i].operation>> :
                          i \in {i \in DOMAIN o.results : o.results[i].paper = node.id}}
  <1>1. \A p \in Providers, d \in ToSet(o.req.directions) : Asked(o, node.id, p, d)
    BY DEF Done
  <1>2. DOMAIN o.results = 1 .. Len(o.results)
    BY SeqHas
  <1>3. ASSUME NEW p \in Providers, NEW d \in ToSet(o.req.directions)
        PROVE  \E i \in {i \in DOMAIN o.results : o.results[i].paper = node.id} :
                  <<p, d>> = <<o.results[i].provider, o.results[i].operation>>
    <2>1. PICK i \in 1 .. Len(o.results) : /\ o.results[i].paper = node.id
                                           /\ o.results[i].provider = p /\ o.results[i].operation = d
      BY <1>1 DEF Asked
    <2> QED BY <1>2, <2>1
  <1> QED BY <1>3

\* A snowball that ends uncut is complete: nothing is queued, so all it reached is done.
LEMMA SnowballComplete == ASSUME LitTypes, FinishSnowball PROVE UncutIsComplete'
  <1>1. /\ op # None /\ op.kind = "snowball" /\ op.call = NoCall
        /\ OpBase(op) /\ SnowBody(op, NoCall) /\ SnowTypes(op)
    BY SnowIs DEF FinishSnowball
  <1>2. op.current = NoPaper /\ op.queue = <<>>
    BY DEF FinishSnowball
  <1>3. PICK papers, all, more, extra :
          /\ extra = [edges |-> op.edges, reasons |-> op.reasons \cup more,
                      observations |-> op.observations]
          /\ Answers(papers, all, extra)
    BY DEF FinishSnowball
  <1>4. /\ answer'.kind = op.kind /\ answer'.req = op.req /\ answer'.results = op.results
        /\ answer'.metrics = Metrics(op.results, all, Len(op.observations))
        /\ \A f \in DOMAIN extra : f \notin AnswerFields => answer'[f] = extra[f]
    BY <1>3, AnswerIs
  <1>5. /\ answer'.edges = op.edges /\ answer'.reasons = op.reasons \cup more
        /\ answer'.observations = op.observations
    BY <1>3, <1>4 DEF AnswerFields
  <1>6. answer'.metrics.graph = Spent(op)
    BY <1>4 DEF Metrics, Spent, Graph
  <1>7. SUFFICES ASSUME op.reasons \cup more = {}, Len(op.edges) < op.req.maxEdges,
                        Len(op.results) < op.req.maxOperations, Spent(op) < op.req.maxQueries
                 PROVE  /\ BestIdentifier(op.req.seed) # None =>
                             Providers \X ToSet(op.req.directions)
                               \subseteq {<<op.results[i].provider, op.results[i].operation>> :
                                  i \in {i \in DOMAIN op.results :
                                           op.results[i].paper = CanonicalId(op.req.seed)}}
                        /\ \A i \in DOMAIN op.edges :
                             (/\ FirstReached(op.edges, i) /\ op.edges[i].depth < op.req.depth
                              /\ Child(op.edges[i]) # CanonicalId(op.req.seed)
                              /\ BestIdentifier(op.observations[i]) # None)
                             => Providers \X ToSet(op.req.directions)
                               \subseteq {<<op.results[k].provider, op.results[k].operation>> :
                                  k \in {k \in DOMAIN op.results :
                                           op.results[k].paper = Child(op.edges[i])}}
    BY <1>4, <1>5, <1>6 DEF UncutIsComplete
  <1>8. Reaches(op)
    <2>1. Uncut(op)
      BY <1>7 DEF Uncut
    <2> QED BY <1>1, <2>1 DEF SnowBody
  <1>9. ASSUME NEW node, Pending(op, node), node.depth \in Nat PROVE Done(op, node)
    BY <1>2, <1>9, SeqEmpty, PendingBetween
  <1>10. IsSequence(op.results) /\ IsSequence(op.edges) /\ DOMAIN op.edges = 1 .. Len(op.edges)
    BY <1>1, SeqHas DEF OpBase, SnowTypes
  <1>11. ASSUME BestIdentifier(op.req.seed) # None
         PROVE  Providers \X ToSet(op.req.directions)
                  \subseteq {<<op.results[i].provider, op.results[i].operation>> :
                     i \in {i \in DOMAIN op.results :
                              op.results[i].paper = CanonicalId(op.req.seed)}}
    <2>1. PICK node : node = SeedNode(op)
      OBVIOUS
    <2>2. node.depth = 0 /\ node.id = CanonicalId(op.req.seed) /\ node.record = op.req.seed
      BY <2>1 DEF SeedNode
    <2>3. Done(op, node)
      <3>1. Pending(op, node)
        BY <1>8, <2>1 DEF Reaches, AllPending
      <3> QED BY <1>9, <2>2, <3>1
    <2>4. ~(node.depth >= op.req.depth)
      BY <1>1, <2>2, BudgetsAre
    <2> QED BY <1>10, <1>11, <2>2, <2>3, <2>4, DoneIsComplete
  <1>12. ASSUME NEW i \in DOMAIN op.edges,
                FirstReached(op.edges, i), op.edges[i].depth < op.req.depth,
                Child(op.edges[i]) # CanonicalId(op.req.seed),
                BestIdentifier(op.observations[i]) # None
         PROVE  Providers \X ToSet(op.req.directions)
                  \subseteq {<<op.results[k].provider, op.results[k].operation>> :
                     k \in {k \in DOMAIN op.results : op.results[k].paper = Child(op.edges[i])}}
    <2>1. PICK node : node = NodeAt(op, i)
      OBVIOUS
    <2>2. /\ node.depth = op.edges[i].depth /\ node.id = Child(op.edges[i])
          /\ node.record = op.observations[i]
      BY <2>1 DEF NodeAt
    <2>3. node.depth \in Nat
      BY <1>1, <1>10, <2>1, NodesAre
    <2>4. Done(op, node)
      <3>1. Pending(op, node)
        BY <1>8, <1>10, <1>12, <2>1 DEF Reaches, AllPending
      <3> QED BY <1>9, <2>3, <3>1
    <2>5. ~(node.depth >= op.req.depth)
      BY <1>1, <1>12, <2>2, <2>3, BudgetsAre
    <2> QED BY <1>10, <1>12, <2>2, <2>4, <2>5, DoneIsComplete
  <1> QED BY <1>11, <1>12

\* An operation that ends.
LEMMA FinishOK ==
    ASSUME LitTypes,
           FinishSearch \/ FinishVerify \/ FinishEnrich \/ FinishCorpus \/ FinishSnowball
    PROVE  LitTypes' /\ PapersApart' /\ UncutIsComplete'
  <1>1. op # None /\ op.call = NoCall
    BY DEF FinishSearch, FinishVerify, FinishEnrich, FinishCorpus, FinishSnowball, Working
  <1>2. IsSequence(op.observations)
    BY <1>1, WorkingIs
  <1>3. PapersOK(<<>>)
    BY SeqEmpty DEF PapersOK
  <1>4. PICK papers, all, extra : Answers(papers, all, extra) /\ PapersOK(papers)
    BY <1>2, <1>3, ShownPapers
       DEF FinishSearch, FinishVerify, FinishEnrich, FinishCorpus, FinishSnowball
  <1>5. LitTypes' /\ PapersApart'
    BY <1>4, AnswersOK, AnswersApart
  <1>6. UncutIsComplete'
    <2>1. CASE FinishSnowball
      BY <2>1, SnowballComplete
    <2>2. CASE op.kind # "snowball"
      <3>1. answer'.kind = op.kind
        BY <1>4, AnswerIs
      <3> QED BY <2>2, <3>1 DEF UncutIsComplete
    <2>3. FinishSnowball \/ op.kind # "snowball"
      BY DEF FinishSearch, FinishVerify, FinishEnrich, FinishCorpus, Working
    <2> QED BY <2>1, <2>2, <2>3
  <1> QED BY <1>5, <1>6

-----------------------------------------------------------------------------
(* The theorems.                                                           *)

\* Nothing is asked and nothing answered at first.
LEMMA LitInvStart == LitInit => LitInv
  <1> SUFFICES ASSUME LitInit PROVE LitInv
    OBVIOUS
  <1>1. CacheOK
    BY DEF LitInit, Nothing, CacheOK
  <1> QED BY <1>1 DEF LitInit, LitInv, LitTypes, PapersApart, UncutIsComplete

\* Every step keeps the invariant.
LEMMA LitInvStep == LitInv /\ [LitNext]_litVars => LitInv'
  <1> SUFFICES ASSUME LitInv, [LitNext]_litVars PROVE LitInv'
    OBVIOUS
  <1>1. LitTypes
    BY DEF LitInv
  <1>2. ASSUME answer' = answer, LitTypes' PROVE LitInv'
    <2>1. PapersApart'
      BY <1>2 DEF LitInv, PapersApart
    <2>2. UncutIsComplete'
      BY <1>2 DEF LitInv, UncutIsComplete
    <2> QED BY <1>2, <2>1, <2>2 DEF LitInv
  <1>3. CASE Replied \/ Retried \/ Failed \/ Unknown \/ Garbled
    <2>1. answer' = answer
      BY <1>3 DEF Replied, Retried, Failed, Unknown, Garbled, Unmoved
    <2>2. LitTypes'
      BY <1>1, <1>3, RepliedOK, RetriedOK, FailedOK, GarbledOK
    <2> QED BY <1>2, <2>1, <2>2
  <1>4. CASE AskNext \/ NextSource \/ CheckMetadata \/ KeepLocal \/ NextRound \/ AskRound
    <2>1. answer' = answer
      BY <1>4 DEF AskNext, NextSource, CheckMetadata, KeepLocal, NextRound, AskRound, Goes
    <2>2. LitTypes'
      BY <1>1, <1>4, AsksOK, NextSourceOK, KeepLocalOK, NextRoundOK
    <2> QED BY <1>2, <2>1, <2>2
  <1>5. CASE NextPaper \/ NextTurn
    <2>1. answer' = answer
      BY <1>5 DEF NextPaper, NextTurn, Goes
    <2>2. LitTypes'
      BY <1>1, <1>5, NextPaperOK, NextTurnOK
    <2> QED BY <1>2, <2>1, <2>2
  <1>6. CASE FinishSearch \/ FinishVerify \/ FinishEnrich \/ FinishCorpus \/ FinishSnowball
    BY <1>1, <1>6, FinishOK DEF LitInv
  <1>7. ASSUME NEW p \in Providers, Expire(p) PROVE LitInv'
    <2>1. answer' = answer
      BY <1>7 DEF Expire
    <2> QED BY <1>1, <1>2, <1>7, <2>1, ExpireOK
  <1>8. ASSUME NEW r \in Requests,
               SearchPapers(r) \/ VerifyMetadata(r) \/ EnrichSources(r) \/ CorpusSearch(r) \/ Snowball(r)
        PROVE  LitInv'
    <2>1. answer' = answer
      BY <1>8 DEF SearchPapers, VerifyMetadata, EnrichSources, CorpusSearch, Snowball, Begins
    <2>2. LitTypes'
      BY <1>1, <1>8, SearchOK, CorpusSearchOK, SnowballOK
    <2> QED BY <1>2, <2>1, <2>2
  <1>9. CASE TakePaper \/ Acquire \/ Offer \/ Inspect \/ Verify \/ Answered \/ UNCHANGED litVars
    <2>1. /\ world' = world /\ order' = order /\ cache' = cache /\ op' = op /\ answer' = answer
      BY <1>9 DEF TakePaper, Acquire, Offer, Inspect, Verify, Answered, Marks, litVars
    <2>2. CacheOK'
      BY <1>1, <2>1, CacheKept
    <2>3. op' # None => OpOK(op')
      BY <1>1, <2>1 DEF LitTypes
    <2>4. LitTypes'
      BY <1>1, <2>1, <2>2, <2>3, StepTypes
    <2> QED BY <1>2, <2>1, <2>4
  <1> QED BY <1>3, <1>4, <1>5, <1>6, <1>7, <1>8, <1>9 DEF LitNext, Work

\* LitInv holds in every reachable state, for any content of the providers, any
\* order they are asked in, any requests and any failures: the caches and
\* results hold lists of records, a snowball that is not cut loses no paper,
\* and answers are as PapersApart and UncutIsComplete say.
THEOREM LiteratureInvariant == LitSpec => []LitInv
  BY LitInvStart, LitInvStep, PTL DEF LitSpec

\* No two papers of an answer match, however the observations arrive and in
\* whatever order: merge_paper_records (literature/service.py) joins every
\* group a record matches, and the group that results matches no other.
THEOREM LiteraturePapersApart == LitSpec => []PapersApart
  <1>1. LitInv => PapersApart
    BY DEF LitInv
  <1> QED BY <1>1, LiteratureInvariant, PTL

\* A snowball whose answer names no limit has asked every provider for every
\* direction of every paper it reached above the last depth: the queue was
\* emptied, no request was dropped, and none of the budgets was used up.
THEOREM LiteratureUncutIsComplete == LitSpec => []UncutIsComplete
  <1>1. LitInv => UncutIsComplete
    BY DEF LitInv
  <1> QED BY <1>1, LiteratureInvariant, PTL

=============================================================================
