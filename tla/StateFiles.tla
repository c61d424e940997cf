----------------------------- MODULE StateFiles -----------------------------
(***************************************************************************)
(* The state files of a legacy project and the three operations on them:   *)
(* update_stage with its touch_workflow (runtime/simflow_core/state.py),   *)
(* apply_state_repair (repair.py) and apply_migration (migration.py), as   *)
(* several processes call them, die, and meet errors of the file system.   *)
(*                                                                         *)
(* None of them takes a lock. write_state truncates a file and then writes *)
(* it; a repair replaces files by renaming. Every step here reads, copies  *)
(* or changes one file, and the hash of a file is its content. The files   *)
(* that only a repair writes are one file, rest (RepairPlan has its parts).*)
(***************************************************************************)
EXTENDS RepairPlan, SequencesExt, TLC

CONSTANTS
    Procs,        \* processes that work on the project
    Legacy,       \* contents a project can have
    Statuses,     \* statuses given to update_stage
    Thresholds,   \* values of min_confidence, in percent
    Torn,         \* the content of a file that was truncated
    MaxCalls,     \* bound: calls
    MaxCrashes,   \* bound: processes that die in a call
    MaxErrors     \* bound: errors of the file system while a repair replaces or rolls back

ASSUME BoundsAssumption == MaxCalls \in Nat /\ MaxCrashes \in Nat /\ MaxErrors \in Nat
ASSUME CallsAssumption == Statuses \subseteq StageStatuses /\ Thresholds \subseteq Nat \ 0..80

\* The order of the names; the two others are that of an update.
Order == <<"rest", "stages", "summary", "workflow">>
UpdateOrder == <<"stages", "workflow", "summary">>
Files == ToSet(Order)

VARIABLES
    disk,      \* the files
    reports,   \* migration reports: the hashes written in full, and in part
    records,   \* the migration records: the hash, and how many the lookup had read
    pc, todo,  \* each process: its step, and the files that this step still has to visit
    call,      \* its call
    mem,       \* what it has in memory, and its backup
    others,    \* history: the files others have written during its call
    undone,    \* history: whether one of those writes took a replacement back
    calls, crashes, errors

faults == <<crashes, errors>>
history == <<others, undone>>
vars == <<disk, reports, records, pc, todo, call, mem, history, calls, faults>>

-----------------------------------------------------------------------------
Quiet == {"idle", "done", "failed", "half"}

NoCall == [kind |-> "none", stage |-> NoId, status |-> NoId, threshold |-> 0, at |-> 0]

\* For each file that was visited: its hash, its content as it was read and as it
\* shall be, its copy in the backup and its content before the replacement; the
\* files that were replaced; and how many migration records a lookup has read.
NoMem == [hashes |-> <<>>, seen |-> <<>>, plan |-> <<>>, backup |-> <<>>, previous |-> <<>>,
          replaced |-> <<>>, found |-> 0]

ASSUME LegacyAssumption ==
    \A content \in Legacy : /\ content = [f \in Files |-> content[f]]
                            /\ \A f \in Files : IsContent(f, content[f])

Init ==
    /\ disk \in Legacy
    /\ reports = [whole |-> {}, part |-> {}]
    /\ records = <<>>
    /\ pc = [p \in Procs |-> "idle"]
    /\ todo = [p \in Procs |-> <<>>]
    /\ call = [p \in Procs |-> NoCall]
    /\ mem = [p \in Procs |-> NoMem]
    /\ others = [p \in Procs |-> {}]
    /\ undone = [p \in Procs |-> FALSE]
    /\ calls = 0 /\ crashes = 0 /\ errors = 0

File(p) == Head(todo[p])

\* p goes to step, where it visits the files.
Go(p, step, files) ==
    /\ pc' = [pc EXCEPT ![p] = step]
    /\ todo' = [todo EXCEPT ![p] = files]

\* p is through with File(p); the step after the last file is step.
Visited(p, step, files) ==
    IF Len(todo[p]) > 1 THEN Go(p, pc[p], Tail(todo[p])) ELSE Go(p, step, files)

End(p) == Go(p, "idle", <<>>) /\ mem' = [mem EXCEPT ![p] = NoMem]

\* f with content at file.
With(f, file, content) == [x \in DOMAIN f \cup {file} |-> IF x = file THEN content ELSE f[x]]

Knows(p, of, content) ==
    mem' = [mem EXCEPT ![p][of] = With(@, File(p), content)]

Put(p, file, content) ==
    /\ disk' = [disk EXCEPT ![file] = content]
    /\ others' = [q \in Procs |-> IF q = p THEN others[q] ELSE others[q] \cup {file}]

Begin(p, new, step, files) ==
    /\ pc[p] \in Quiet
    /\ calls < MaxCalls
    /\ calls' = calls + 1
    /\ call' = [call EXCEPT ![p] = new]
    /\ others' = [others EXCEPT ![p] = {}]
    /\ undone' = [undone EXCEPT ![p] = FALSE]
    /\ mem' = [mem EXCEPT ![p] = NoMem]
    /\ Go(p, step, files)
    /\ UNCHANGED <<disk, reports, records, faults>>

-----------------------------------------------------------------------------
(* update_stage. (Keyword arguments set further fields and are left out, as *)
(* is the record in verification.json that a completed stage leaves.)       *)

BeginUpdate(p) ==
    \E stage \in Stages, status \in Statuses :
        Begin(p, [NoCall EXCEPT !.kind = "update", !.stage = stage, !.status = status,
                                !.at = calls + 1], "read", UpdateOrder)

StageAfter(s, c) ==
    [s EXCEPT !.status = c.status,
              !.started = IF c.status = "in_progress" THEN c.at ELSE @,
              !.completed = IF c.status \in {"completed", "failed"} THEN c.at ELSE 0]

\* touch_workflow
Touched(w, c) ==
    [w EXCEPT !.updated = c.at,
              !.stage = IF c.status = "in_progress" THEN c.stage ELSE @]

After(file, old, c) ==
    IF file # "stages" THEN Touched(old, c)
    ELSE LET known == IF c.stage \in DOMAIN old THEN old[c.stage]
                      ELSE [NewStage EXCEPT !.status = "pending"]
         IN  [st \in DOMAIN old \cup {c.stage} |->
                 IF st = c.stage THEN StageAfter(known, c) ELSE old[st]]

\* read_state raises for a file that is no JSON.
Read(p) ==
    /\ pc[p] = "read"
    /\ IF disk[File(p)] = Torn THEN End(p)
       ELSE Knows(p, "seen", disk[File(p)]) /\ Go(p, "truncate", todo[p])
    /\ UNCHANGED <<disk, reports, records, call, history, calls, faults>>

\* write_state
Truncate(p) ==
    /\ pc[p] = "truncate"
    /\ Put(p, File(p), Torn)
    /\ Go(p, "write", todo[p])
    /\ UNCHANGED <<reports, records, call, mem, undone, calls, faults>>

Write(p) ==
    /\ pc[p] = "write"
    /\ Put(p, File(p), After(File(p), mem[p].seen[File(p)], call[p]))
    /\ IF Len(todo[p]) > 1 THEN Go(p, "read", Tail(todo[p])) /\ mem' = mem ELSE End(p)
    /\ UNCHANGED <<reports, records, call, undone, calls, faults>>

-----------------------------------------------------------------------------
(* apply_state_repair                                                      *)

BeginRepair(p) ==
    \E threshold \in Thresholds :
        Begin(p, [NoCall EXCEPT !.kind = "repair", !.threshold = threshold,
                                !.at = calls + 1], "hash", Order)

\* before_hashes
Hash(p) ==
    /\ pc[p] = "hash"
    /\ Knows(p, "hashes", disk[File(p)])
    /\ Visited(p, "load", Order)
    /\ UNCHANGED <<disk, reports, records, call, history, calls, faults>>

\* The files that the plan changes, in the order of their names.
Changed(plan, seen) ==
    LET one(i) == IF plan[Order[i]] # seen[Order[i]] THEN <<Order[i]>> ELSE <<>>
    IN  one(1) \o one(2) \o one(3) \o one(4)

\* originals; after the last of them the plan.
Load(p) ==
    /\ pc[p] = "load"
    /\ IF disk[File(p)] = Torn THEN End(p)
       ELSE LET content == With(mem[p].seen, File(p), disk[File(p)])
                plan == Repaired(content, call[p].threshold, call[p].at)
            IN  IF Len(todo[p]) > 1
                THEN Knows(p, "seen", disk[File(p)]) /\ Go(p, "load", Tail(todo[p]))
                ELSE /\ mem' = [mem EXCEPT ![p].seen = content, ![p].plan = plan]
                     /\ IF Changed(plan, content) = <<>> THEN Go(p, "done", <<>>) ELSE Go(p, "check", Order)
    /\ UNCHANGED <<disk, reports, records, call, history, calls, faults>>

\* current_hashes, post_backup_hashes
Compare(p, here, next, files) ==
    /\ pc[p] = here
    /\ IF disk[File(p)] # mem[p].hashes[File(p)] THEN End(p)
       ELSE Visited(p, next, files) /\ mem' = mem
    /\ UNCHANGED <<disk, reports, records, call, history, calls, faults>>

Check(p) == Compare(p, "check", "backup", Order)

\* _backup_simflow_tree
Backup(p) ==
    /\ pc[p] = "backup"
    /\ Knows(p, "backup", disk[File(p)])
    /\ Visited(p, "recheck", Order)
    /\ UNCHANGED <<disk, reports, records, call, history, calls, faults>>

ToReplace(p) == Changed(mem[p].plan, mem[p].seen)

Recheck(p) == Compare(p, "recheck", "previous", ToReplace(p))

ReadPrevious(p) ==
    /\ pc[p] = "previous"
    /\ Knows(p, "previous", disk[File(p)])
    /\ Visited(p, "compare", ToReplace(p))
    /\ UNCHANGED <<disk, reports, records, call, history, calls, faults>>

Rollback(p) == IF mem[p].replaced = <<>> THEN Go(p, "failed", <<>>) ELSE Go(p, "rollback", <<>>)

\* The last look at a file before it is replaced.
CompareOne(p) ==
    /\ pc[p] = "compare"
    /\ IF disk[File(p)] # mem[p].previous[File(p)] THEN Rollback(p)
       ELSE Go(p, "replace", todo[p])
    /\ UNCHANGED <<disk, reports, records, call, mem, history, calls, faults>>

Replace(p) ==
    /\ pc[p] = "replace"
    /\ Put(p, File(p), mem[p].plan[File(p)])
    /\ mem' = [mem EXCEPT ![p].replaced = Append(@, File(p))]
    /\ IF Len(todo[p]) > 1 THEN Go(p, "compare", Tail(todo[p])) ELSE Go(p, "report", <<>>)
    /\ UNCHANGED <<reports, records, call, undone, calls, faults>>

\* An OSError while files are replaced or the reports written.
Fail(p) ==
    /\ pc[p] \in {"compare", "replace", "report"}
    /\ errors < MaxErrors
    /\ errors' = errors + 1
    /\ Rollback(p)
    /\ UNCHANGED <<disk, reports, records, call, mem, history, calls, crashes>>

\* The status summary reads the files again; the report ends the repair.
Report(p) ==
    /\ pc[p] = "report"
    /\ IF Torn \in {disk[f] : f \in Files \ {"rest"}} THEN Rollback(p) ELSE Go(p, "done", <<>>)
    /\ UNCHANGED <<disk, reports, records, call, mem, history, calls, faults>>

\* The last of the files that p has replaced and not put back.
UndoLast(p, put) ==
    LET left == mem[p].replaced
    IN  /\ pc[p] = "rollback"
        /\ IF put THEN Put(p, Last(left), mem[p].previous[Last(left)])
           ELSE UNCHANGED <<disk, others>>
        /\ undone' = [q \in Procs |-> undone[q] \/ (put /\ q # p)]
        /\ mem' = [mem EXCEPT ![p].replaced = Front(left)]
        /\ IF Len(left) = 1 THEN Go(p, "failed", <<>>) ELSE Go(p, "rollback", <<>>)
        /\ UNCHANGED <<reports, records, call, calls, faults>>

\* Mutant: the file whose replacement was the last is left.
UndoAllButLast(p) ==
    UndoLast(p, Len(mem[p].replaced) < Len(ToReplace(p)))

\* Old contents come back in reverse order, whatever others wrote meanwhile.
Undo(p) == UndoLast(p, TRUE)

\* An OSError in the rollback ends it there: what is not yet back stays replaced.
UndoFails(p) ==
    /\ pc[p] = "rollback"
    /\ errors < MaxErrors
    /\ errors' = errors + 1
    /\ Go(p, "half", <<>>)
    /\ UNCHANGED <<disk, reports, records, call, mem, history, calls, crashes>>

-----------------------------------------------------------------------------
(* apply_migration, after an inspection of the same user.                  *)

BeginMigration(p) ==
    Begin(p, [NoCall EXCEPT !.kind = "migration", !.at = calls + 1], "inspect", Order)

\* build_migration_report for the user, who confirms its hash.
Inspect(p) ==
    /\ pc[p] = "inspect"
    /\ Knows(p, "hashes", disk[File(p)])
    /\ Visited(p, "confirm", Order)
    /\ UNCHANGED <<disk, reports, records, call, history, calls, faults>>

\* The inventory is built again; another hash is stale.
Confirm(p) == Compare(p, "confirm", "lookup", <<>>)

\* Mutant: no look for a record of the same report.
LookupNot(p) ==
    /\ pc[p] = "lookup"
    /\ Go(p, "open", <<>>)
    /\ mem' = [mem EXCEPT ![p].found = Len(records)]
    /\ UNCHANGED <<disk, reports, records, call, history, calls, faults>>

\* _existing_migration
Lookup(p) ==
    /\ pc[p] = "lookup"
    /\ IF mem[p].hashes \in {records[i].hash : i \in DOMAIN records} THEN End(p)
       ELSE Go(p, "open", <<>>) /\ mem' = [mem EXCEPT ![p].found = Len(records)]
    /\ UNCHANGED <<disk, reports, records, call, history, calls, faults>>

OpenReport(p) ==
    /\ pc[p] = "open"
    /\ reports' = [whole |-> reports.whole \ {mem[p].hashes}, part |-> reports.part \cup {mem[p].hashes}]
    /\ Go(p, "fill", <<>>)
    /\ UNCHANGED <<disk, records, call, mem, history, calls, faults>>

WriteReport(p) ==
    /\ pc[p] = "fill"
    /\ reports' = [whole |-> reports.whole \cup {mem[p].hashes}, part |-> reports.part \ {mem[p].hashes}]
    /\ Go(p, "record", <<>>)
    /\ UNCHANGED <<disk, records, call, mem, history, calls, faults>>

\* record_event; RecordStore has its steps.
Record(p) ==
    /\ pc[p] = "record"
    /\ records' = Append(records, [hash |-> mem[p].hashes, found |-> mem[p].found])
    /\ End(p)
    /\ UNCHANGED <<disk, reports, call, history, calls, faults>>

-----------------------------------------------------------------------------
Crash(p) ==
    /\ pc[p] \notin Quiet
    /\ crashes < MaxCrashes
    /\ crashes' = crashes + 1
    /\ End(p)
    /\ UNCHANGED <<disk, reports, records, call, history, calls, errors>>

Update(p) == BeginUpdate(p) \/ Read(p) \/ Truncate(p) \/ Write(p)

Repair(p) ==
    \/ BeginRepair(p) \/ Hash(p) \/ Load(p) \/ Check(p) \/ Backup(p) \/ Recheck(p)
    \/ ReadPrevious(p) \/ CompareOne(p) \/ Replace(p) \/ Fail(p) \/ Report(p) \/ Undo(p)
    \/ UndoFails(p)

Migrate(p) ==
    \/ BeginMigration(p) \/ Inspect(p) \/ Confirm(p) \/ Lookup(p) \/ OpenReport(p)
    \/ WriteReport(p) \/ Record(p)

Next == \E p \in Procs : Update(p) \/ Repair(p) \/ Migrate(p) \/ Crash(p)

Spec == Init /\ [][Next]_vars
-----------------------------------------------------------------------------
(* Properties.                                                             *)

\* The type invariant of the state files: every file is torn or has the shape
\* its readers expect, so none of the writers ever leaves a file of another kind.
TypeOK ==
    /\ \A f \in Files : disk[f] = Torn \/ IsContent(f, disk[f])
    /\ \A p \in Procs : /\ ToSet(todo[p]) \subseteq Files /\ ToSet(mem[p].replaced) \subseteq Files
                        /\ call[p].at \in 0..MaxCalls
    /\ reports.whole \cap reports.part = {}
    /\ crashes \in 0..MaxCrashes /\ errors \in 0..MaxErrors

\* A repair that fails, at whatever file, and whose rollback comes to its end
\* leaves every file that nobody else has written as it was before. One whose
\* rollback fails too leaves each of them as it was or as planned, never a mixture
\* or a torn file, and what it was is in the backup (apply_state_repair).
FailedRepairRestores ==
    \A p \in Procs : \A f \in Files \ others[p] :
        /\ pc[p] = "failed" => disk[f] = mem[p].seen[f]
        /\ pc[p] = "half" => /\ disk[f] \in {mem[p].seen[f], mem[p].plan[f]}
                             /\ f \in DOMAIN mem[p].backup /\ mem[p].backup[f] = mem[p].seen[f]

Undisturbed(p) == pc[p] = "done" /\ call[p].kind = "repair" /\ others[p] = {}

\* A repair that nobody disturbed is complete: a second one, at whatever later
\* time, with the same confidence or a higher one, finds nothing to change. The
\* rules of _plan feed one another (artifacts lineage, checkpoints stages,
\* these workflow.json, that summary.json) and are applied once each.
RepairSettles ==
    \A p \in Procs, threshold \in Thresholds :
        Undisturbed(p) /\ threshold >= call[p].threshold =>
            Repaired(disk, threshold, call[p].at + 1) = disk

\* What a repair makes the last success of a stage can be recovered from: a
\* checkpoint of that stage that counts as a success, recoverable, with its file.
RecoveryPointIsWhole ==
    \A p \in Procs : Undisturbed(p) =>
        \A st \in DOMAIN disk.stages :
            LET c == disk.stages[st].lastSuccess
                unchanged == st \in DOMAIN mem[p].seen.stages /\ c = mem[p].seen.stages[st].lastSuccess
            IN  unchanged \/ c = NoId
                \/ /\ disk.rest.registry[c].stage = st
                   /\ disk.rest.registry[c].status = "success"
                   /\ disk.rest.registry[c].recoverable = "yes"
                   /\ Whole(disk.rest, c)

\* A migration is recorded twice only by calls that overlap, each of which looked
\* before the other had recorded, though processes die in between and files
\* change; and what a record names has been written (apply_migration). Calls that
\* overlap do record twice: RecordedOnce does not hold.
RecordedOnceOrOverlap ==
    /\ \A r \in ToSet(records) : r.hash \in reports.whole \cup reports.part
    /\ \A j \in DOMAIN records : \A i \in 1..records[j].found : records[i].hash # records[j].hash

\* "Repeating the same confirmed hash is idempotent. Migration writes one report
\* and one compact record" (docs/mcp-tool-reference.md:84-85). It does not hold:
\* two calls look, and both record.
RecordedOnce ==
    \A i, j \in DOMAIN records : records[i].hash = records[j].hash => i = j
=============================================================================
