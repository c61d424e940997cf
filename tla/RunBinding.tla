----------------------------- MODULE RunBinding -----------------------------
(***************************************************************************)
(* The research binding of an immutable run plan:                          *)
(* runtime/simflow_core/run_bindings.py as several hpc server processes    *)
(* call it for one project.                                                *)
(*                                                                         *)
(* bind_run_plan reads the binding of the plan from the record history,    *)
(* decides, and calls record_event with an idempotency key: two critical   *)
(* sections, or rather one and a read without a lock. record_event is one  *)
(* step here: RecordStore shows that a key is recorded once.               *)
(*                                                                         *)
(* history holds the run records of operation "plan" and                   *)
(* "binding_correction"; the position of a record is its record_id, and 0  *)
(* is none. An experiment with or without an attempt is one of Bindings.   *)
(***************************************************************************)
EXTENDS Naturals, Sequences

CONSTANTS
    Procs,        \* hpc server processes
    Plans,        \* run_plan_hash values
    Bindings,     \* experiments and attempts of the project
    NoBinding,    \* a call that names neither
    NoAnswer,     \* no call was answered yet
    MaxBinds,     \* bound: calls that are started
    MaxCrashes    \* bound: processes that die during a call

ASSUME ConstAssumption ==
    /\ Plans # {}
    /\ NoBinding \notin Bindings
    /\ NoAnswer \notin Bindings \cup {NoBinding}
    /\ MaxBinds \in Nat
    /\ MaxCrashes \in Nat

Targets == Bindings \cup {NoBinding}

Record == [operation : {"plan", "correction"}, plan : Plans, to : Targets, parent : Nat]

VARIABLES
    history,      \* the run records that bind plans, in file order
    pc, req,      \* each process: where it is, the plan and binding it asked for,
    seen,         \*   the record get_run_plan_binding found
    reply,        \*   and the binding and record it is about to answer
    answers,      \* history: every answer a caller got
    told,         \* history: the last binding a caller was told for a plan
    calls, crashes

local == <<pc, req, seen, reply>>
vars == <<history, local, answers, told, calls, crashes>>

-----------------------------------------------------------------------------
Of(plan) == {i \in 1..Len(history) : history[i].plan = plan}

\* get_run_plan_binding: where the last record of the plan is; empty if there
\* is none.
Latest(plan) == {i \in Of(plan) : \A j \in Of(plan) : j <= i}

\* The records with the idempotency key of r: "hpc-plan:<hash>" or
\* "hpc-binding:<hash>:<experiment>:<attempt>".
SameKey(r) ==
    {i \in Of(r.plan) :
        /\ history[i].operation = r.operation
        /\ r.operation = "correction" => history[i].to = r.to}

Init ==
    /\ history = <<>>
    /\ pc = [p \in Procs |-> "idle"]
    /\ req = [p \in Procs |-> [plan |-> CHOOSE h \in Plans : TRUE, to |-> NoBinding]]
    /\ seen = [p \in Procs |-> 0]
    /\ reply = [p \in Procs |-> [to |-> NoBinding, id |-> 0]]
    /\ answers = {}
    /\ told = [h \in Plans |-> NoAnswer]
    /\ calls = 0
    /\ crashes = 0

Goto(p, at) == pc' = [pc EXCEPT ![p] = at]

Call(p) ==
    /\ pc[p] = "idle"
    /\ calls < MaxBinds
    /\ calls' = calls + 1
    /\ \E h \in Plans, b \in Targets : req' = [req EXCEPT ![p] = [plan |-> h, to |-> b]]
    /\ Goto(p, "read")
    /\ UNCHANGED <<history, seen, reply, answers, told, crashes>>

\* get_run_plan_binding finds what the call asks for, or the call names no
\* binding and takes what is there.
ReadCurrent(p) ==
    /\ pc[p] = "read"
    /\ \E i \in Latest(req[p].plan) :
        /\ req[p].to \in {NoBinding, history[i].to}
        /\ reply' = [reply EXCEPT ![p] = [to |-> history[i].to, id |-> i]]
    /\ Goto(p, "answer")
    /\ UNCHANGED <<history, req, seen, answers, told, calls, crashes>>

\* Mutant: the current binding is not compared with the one asked for.
ReadDifferentAny(p) ==
    /\ pc[p] = "read"
    /\ \E i \in Latest(req[p].plan) \cup (IF Of(req[p].plan) = {} THEN {0} ELSE {}) :
        seen' = [seen EXCEPT ![p] = i]
    /\ Goto(p, "record")
    /\ UNCHANGED <<history, req, reply, answers, told, calls, crashes>>

\* It finds none, or another one: a record is to be appended.
ReadDifferent(p) ==
    /\ pc[p] = "read"
    /\ \/ /\ Of(req[p].plan) = {}
          /\ seen' = [seen EXCEPT ![p] = 0]
       \/ \E i \in Latest(req[p].plan) :
            /\ req[p].to \notin {NoBinding, history[i].to}
            /\ seen' = [seen EXCEPT ![p] = i]
    /\ Goto(p, "record")
    /\ UNCHANGED <<history, req, reply, answers, told, calls, crashes>>

\* The record the call builds: the plan, or a correction that names the record
\* it corrects as its parent.
Wanted(p) ==
    [operation |-> IF seen[p] = 0 THEN "plan" ELSE "correction",
     plan |-> req[p].plan, to |-> req[p].to, parent |-> seen[p]]

\* Mutant: the key is not looked for.
AppendAnyway(p) ==
    /\ pc[p] = "record"
    /\ history' = Append(history, Wanted(p))
    /\ reply' = [reply EXCEPT ![p] = [to |-> req[p].to, id |-> Len(history')]]
    /\ Goto(p, "answer")
    /\ UNCHANGED <<req, seen, answers, told, calls, crashes>>

\* record_event appends, under the lock of the store.
AppendRecord(p) ==
    /\ pc[p] = "record"
    /\ SameKey(Wanted(p)) = {}
    /\ history' = Append(history, Wanted(p))
    /\ reply' = [reply EXCEPT ![p] = [to |-> req[p].to, id |-> Len(history')]]
    /\ Goto(p, "answer")
    /\ UNCHANGED <<req, seen, answers, told, calls, crashes>>

\* Mutant: the id of the record that was not written.
ReplayOwn(p) ==
    /\ pc[p] = "record"
    /\ SameKey(Wanted(p)) # {}
    /\ reply' = [reply EXCEPT ![p] = [to |-> req[p].to, id |-> Len(history) + 1]]
    /\ Goto(p, "answer")
    /\ UNCHANGED <<history, req, seen, answers, told, calls, crashes>>

\* record_event finds the key and returns that record. The call answers with
\* its id, and with the binding it was asked for.
ReplayRecord(p) ==
    /\ pc[p] = "record"
    /\ \E i \in SameKey(Wanted(p)) :
        reply' = [reply EXCEPT ![p] = [to |-> req[p].to, id |-> i]]
    /\ Goto(p, "answer")
    /\ UNCHANGED <<history, req, seen, answers, told, calls, crashes>>

Answer(p) ==
    /\ pc[p] = "answer"
    /\ answers' = answers \cup {[plan |-> req[p].plan, to |-> reply[p].to, id |-> reply[p].id]}
    /\ told' = [told EXCEPT ![req[p].plan] = reply[p].to]
    /\ Goto(p, "idle")
    /\ UNCHANGED <<history, req, seen, reply, calls, crashes>>

\* The process dies before it has answered; what it appended stays.
ServerDies(p) ==
    /\ pc[p] # "idle"
    /\ crashes < MaxCrashes
    /\ crashes' = crashes + 1
    /\ Goto(p, "idle")
    /\ UNCHANGED <<history, req, seen, reply, answers, told, calls>>

Step(p) ==
    ReadCurrent(p) \/ ReadDifferent(p) \/ AppendRecord(p) \/ ReplayRecord(p) \/ Answer(p)

\* Every call has returned and no more are made.
Rest ==
    /\ calls = MaxBinds
    /\ \A p \in Procs : pc[p] = "idle"
    /\ UNCHANGED vars

Next == (\E p \in Procs : Call(p) \/ Step(p) \/ ServerDies(p)) \/ Rest

Spec == Init /\ [][Next]_vars

-----------------------------------------------------------------------------
(* Properties.                                                             *)

\* The type of every variable.
TypeOK ==
    /\ history \in Seq(Record)
    /\ pc \in [Procs -> {"idle", "read", "record", "answer"}]
    /\ req \in [Procs -> [plan : Plans, to : Targets]]
    /\ seen \in [Procs -> Nat]
    /\ reply \in [Procs -> [to : Targets, id : Nat]]
    /\ answers \in SUBSET [plan : Plans, to : Targets, id : Nat]
    /\ told \in [Plans -> Targets \cup {NoAnswer}]
    /\ calls \in Nat
    /\ crashes \in Nat

\* However many servers bind a plan at once, and whichever of them die and are
\* called again: the plan is recorded once, and each binding is corrected to at
\* most once.
RecordedOnce ==
    \A i, j \in 1..Len(history) :
        /\ history[i].plan = history[j].plan
        /\ history[i].operation = history[j].operation
        /\ history[i].operation = "correction" => history[i].to = history[j].to
        => i = j

\* parent_ids lead back: the parent of a correction is an earlier record of the
\* same plan that bound it to something else, and what has no parent is the
\* plan itself.
CorrectsAnother ==
    \A i \in 1..Len(history) :
        LET r == history[i] IN
        IF r.operation = "plan" THEN r.parent = 0
        ELSE /\ r.parent \in Of(r.plan)
             /\ r.parent < i
             /\ history[r.parent].to # r.to

\* The record a caller was pointed to is one of its plan, and still there.
AnswersOnRecord == \A a \in answers : a.id \in Of(a.plan)

\* Once no call is running, the binding the last caller was told of is the one
\* that get_run_plan_binding finds.
ToldIsFound ==
    \A h \in Plans :
        /\ \A p \in Procs : pc[p] = "idle"
        /\ crashes = 0
        /\ told[h] # NoAnswer
        => \A i \in Latest(h) : history[i].to = told[h]
=============================================================================
