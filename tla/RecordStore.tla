---------------------------- MODULE RecordStore -----------------------------
(***************************************************************************)
(* The compact store of a project, .simflow/, as several MCP server        *)
(* processes use it at once: runtime/simflow_core/records.py and the       *)
(* rebuild of runtime/simflow_core/project_summary.py.                     *)
(*                                                                         *)
(*   records.jsonl   lines, open: the lines of the file, and whether the   *)
(*                   last one lacks its newline (a torn write)             *)
(*   checkpoints/    files: the ids whose <id>.json exists                 *)
(*   project.json    project: the derived summary with its source cursors  *)
(*   flock           holder: the process inside _store_lock, if any        *)
(*                                                                         *)
(* A call of record_event, or of create_recovery_checkpoint, takes the     *)
(* lock, appends one line, drops the lock, and only then rebuilds          *)
(* project.json: it reads the records, later the cursors, later saves.     *)
(* Every step is a separate action; a process may die between any two.     *)
(*                                                                         *)
(* A record is its id, kind, idempotency key and, for a checkpoint, the    *)
(* offset it stores; a byte offset of the file is a number of lines.       *)
(***************************************************************************)
EXTENDS Naturals, Sequences

CONSTANTS
    Procs,        \* server processes that share the project
    Keys,         \* idempotency keys the callers use
    NoKey,        \* a call without idempotency_key
    NoProc,       \* nobody holds the lock
    Torn,         \* a line no reader can decode
    LockWorks,    \* FALSE: flock raises and _store_lock goes on without it
    MaxRecords,   \* bound: calls that are started
    MaxCrashes,   \* bound: processes that die during a call
    MaxTorn,      \* bound: writes that stop part-way
    MaxErrors,    \* bound: writes or fsyncs that raise OSError
    MaxRebuildErrors  \* bound: rebuilds that raise (a malformed notebook)

ASSUME ConstAssumption ==
    /\ LockWorks \in BOOLEAN
    /\ NoKey \notin Keys
    /\ NoProc \notin Procs
    /\ MaxRecords \in Nat
    /\ MaxCrashes \in Nat
    /\ MaxTorn \in Nat
    /\ MaxErrors \in Nat
    /\ MaxRebuildErrors \in Nat

\* Writes that interleave in the file without a lock are not modelled in bytes.
ASSUME TornNeedsLock == LockWorks \/ MaxTorn = 0

Kinds == {"event", "checkpoint"}

Record == [id : Nat, kind : Kinds, key : Keys \cup {NoKey}, off : Nat]

ASSUME TornIsNoRecord == Torn \notin Record

VARIABLES
    lines, open, files, project,    \* the files of the project
    holder,                         \* the flock on records.jsonl
    pc, req, snap, cursor,          \* each process: where it is, its record,
                                    \* the records and cursors it has read
    nextId,                         \* fresh record ids (uuid4 in the code)
    acked,                          \* history: records returned to a caller
    found,                          \* history: the checkpoints recover used
    crashes, torn, errors, rebuildErrors   \* history: faults so far

store == <<lines, open, files, project>>
local == <<pc, req, snap, cursor>>
faults == <<crashes, torn, errors, rebuildErrors>>
vars == <<store, holder, local, nextId, acked, found, faults>>

NoReq == [id |-> 0, kind |-> "event", key |-> NoKey, off |-> 0]
Nowhere == [lines |-> <<>>, open |-> FALSE, files |-> {}]

-----------------------------------------------------------------------------
(* Reading and writing records.jsonl.                                      *)

\* _read_records: every line that decodes, in order.
IsRecord(l) == l # Torn
ReadRecords(ls) == SelectSeq(ls, IsRecord)

\* _append_record writes at the end of the file and never looks at the last
\* byte: after an unterminated line the new one is glued to it, and the two
\* together are no JSON.
AddLine(l) ==
    IF open THEN [lines EXCEPT ![Len(lines)] = Torn] ELSE Append(lines, l)

\* The scan of record_event for a record with the same idempotency_key.
Existing(k) == {i \in 1..Len(lines) : lines[i] # Torn /\ lines[i].key = k}

\* The file cursors of build_source_cursors: sizes and sha256 of the sources.
Cursors == [lines |-> lines, open |-> open, files |-> files]

\* Where the last checkpoint record is: build_project_summary takes its id for
\* latest_checkpoint_id. Empty where there is none.
CheckpointsIn(ls) == {i \in 1..Len(ls) : ls[i] # Torn /\ ls[i].kind = "checkpoint"}
LatestCheckpoint(ls) == {i \in CheckpointsIn(ls) : \A j \in CheckpointsIn(ls) : j <= i}

-----------------------------------------------------------------------------
Init ==
    /\ lines = <<>>
    /\ open = FALSE
    /\ files = {}
    /\ project = [lines |-> <<>>, cursor |-> Nowhere, present |-> FALSE]
    /\ holder = NoProc
    /\ pc = [p \in Procs |-> "idle"]
    /\ req = [p \in Procs |-> NoReq]
    /\ snap = [p \in Procs |-> <<>>]
    /\ cursor = [p \in Procs |-> Nowhere]
    /\ nextId = 1
    /\ acked = {}
    /\ found = {}
    /\ crashes = 0
    /\ torn = 0
    /\ errors = 0
    /\ rebuildErrors = 0

Goto(p, at) == pc' = [pc EXCEPT ![p] = at]

\* The call is over, or its process is dead: nothing of it is remembered.
Return(p) ==
    /\ pc' = [pc EXCEPT ![p] = "idle"]
    /\ req' = [req EXCEPT ![p] = NoReq]
    /\ snap' = [snap EXCEPT ![p] = <<>>]
    /\ cursor' = [cursor EXCEPT ![p] = Nowhere]

\* A call begins: the record is built before the lock is taken.
Call(p, kind, key) ==
    /\ pc[p] = "idle"
    /\ nextId <= MaxRecords
    /\ nextId' = nextId + 1
    /\ req' = [req EXCEPT ![p] = [id |-> nextId, kind |-> kind, key |-> key, off |-> 0]]
    /\ Goto(p, "lock")
    /\ UNCHANGED <<store, holder, snap, cursor, acked, found, faults>>

RecordEvent(p) == \E k \in Keys \cup {NoKey} : Call(p, "event", k)
CreateCheckpoint(p) == Call(p, "checkpoint", NoKey)

\* _store_lock: flock blocks while another process holds it; where flock
\* raises, the block is entered anyway.
Acquire(p) ==
    /\ pc[p] = "lock"
    /\ LockWorks => holder = NoProc
    /\ holder' = IF LockWorks THEN p ELSE NoProc
    /\ Goto(p, "locked")
    /\ UNCHANGED <<store, req, snap, cursor, nextId, acked, found, faults>>

Release(p) == holder' = NoProc

\* Mutant: a replay returns the record that was not written.
ReplayOwn(p) ==
    /\ pc[p] = "locked"
    /\ req[p].kind = "event"
    /\ req[p].key # NoKey
    /\ Existing(req[p].key) # {}
    /\ acked' = acked \cup {req[p]}
    /\ Release(p)
    /\ Return(p)
    /\ UNCHANGED <<store, nextId, found, faults>>

\* The key is already recorded: the caller gets that record, marked as a
\* replay. The summary is not rebuilt.
Replay(p) ==
    /\ pc[p] = "locked"
    /\ req[p].kind = "event"
    /\ req[p].key # NoKey
    /\ \E i \in Existing(req[p].key) :
        /\ \A j \in Existing(req[p].key) : i <= j
        /\ acked' = acked \cup {lines[i]}
    /\ Release(p)
    /\ Return(p)
    /\ UNCHANGED <<store, nextId, found, faults>>

\* Mutant: no scan.
ScanSkipped(p) ==
    /\ pc[p] = "locked"
    /\ req[p].kind = "event"
    /\ Goto(p, "write")
    /\ UNCHANGED <<store, holder, req, snap, cursor, nextId, acked, found, faults>>

\* The scan finds nothing (or there is no key to look for).
ScanMiss(p) ==
    /\ pc[p] = "locked"
    /\ req[p].kind = "event"
    /\ req[p].key # NoKey => Existing(req[p].key) = {}
    /\ Goto(p, "write")
    /\ UNCHANGED <<store, holder, req, snap, cursor, nextId, acked, found, faults>>

\* create_recovery_checkpoint takes the size of records.jsonl and writes
\* <checkpoint_id>.json with it, before the record that names the file.
WriteCheckpointFile(p) ==
    /\ pc[p] = "locked"
    /\ req[p].kind = "checkpoint"
    /\ req' = [req EXCEPT ![p].off = Len(lines)]
    /\ files' = files \cup {req[p].id}
    /\ Goto(p, "write")
    /\ UNCHANGED <<lines, open, project, holder, snap, cursor, nextId, acked, found, faults>>

\* _append_record: the whole line reaches the file ...
WriteLine(p) ==
    /\ pc[p] = "write"
    /\ lines' = AddLine(req[p])
    /\ open' = FALSE
    /\ Goto(p, "fsync")
    /\ UNCHANGED <<files, project, holder, req, snap, cursor, nextId, acked, found, faults>>

\* ... or a part of it: some of the JSON, or all of it without the newline.
WritePart(p) ==
    /\ pc[p] = "write"
    /\ torn < MaxTorn
    /\ torn' = torn + 1
    /\ \E l \in {Torn, req[p]} : lines' = AddLine(l)
    /\ open' = TRUE
    /\ Goto(p, IF open THEN "glued" ELSE "part")
    /\ UNCHANGED <<files, project, holder, req, snap, cursor, nextId, acked, found,
                   crashes, errors, rebuildErrors>>

\* The buffered writer retries a short write until it is complete. A line
\* glued to an earlier fragment stays undecodable.
WriteRest(p) ==
    /\ pc[p] \in {"part", "glued"}
    /\ open' = FALSE
    /\ lines' = [lines EXCEPT ![Len(lines)] = IF pc[p] = "part" THEN req[p] ELSE Torn]
    /\ Goto(p, "fsync")
    /\ UNCHANGED <<files, project, holder, req, snap, cursor, nextId, acked, found, faults>>

\* os.fsync returns and the with block ends: the lock is dropped.
Fsync(p) ==
    /\ pc[p] = "fsync"
    /\ Release(p)
    /\ Goto(p, "rebuild")
    /\ UNCHANGED <<store, req, snap, cursor, nextId, acked, found, faults>>

\* open, write or fsync raises: record_event lets the exception through,
\* create_recovery_checkpoint unlinks its file first.
WriteFails(p) ==
    /\ pc[p] \in {"write", "part", "glued", "fsync"}
    /\ errors < MaxErrors
    /\ errors' = errors + 1
    /\ files' = IF req[p].kind = "checkpoint" THEN files \ {req[p].id} ELSE files
    /\ Release(p)
    /\ Return(p)
    /\ UNCHANGED <<lines, open, project, nextId, acked, found,
                   crashes, torn, rebuildErrors>>

-----------------------------------------------------------------------------
(* rebuild_project_summary, outside the lock.                              *)

\* build_project_summary reads the records: of the lines it finds, those that
\* decode ...
ReadForSummary(p) ==
    /\ pc[p] = "rebuild"
    /\ snap' = [snap EXCEPT ![p] = lines]
    /\ Goto(p, "cursors")
    /\ UNCHANGED <<store, holder, req, cursor, nextId, acked, found, faults>>

\* ... and, last of all, hashes the sources it believes it has read.
ReadCursors(p) ==
    /\ pc[p] = "cursors"
    /\ cursor' = [cursor EXCEPT ![p] = Cursors]
    /\ Goto(p, "save")
    /\ UNCHANGED <<store, holder, req, snap, nextId, acked, found, faults>>

\* _write_atomic replaces project.json; the call returns to its caller.
SaveProject(p) ==
    /\ pc[p] = "save"
    /\ project' = [lines |-> snap[p], cursor |-> cursor[p], present |-> TRUE]
    /\ acked' = acked \cup {req[p]}
    /\ Return(p)
    /\ UNCHANGED <<lines, open, files, holder, nextId, found, faults>>

\* Mutant: the rebuild is inside the try whose handler unlinks the checkpoint.
RebuildFailsUnlinks(p) ==
    /\ pc[p] \in {"rebuild", "cursors", "save"}
    /\ rebuildErrors < MaxRebuildErrors
    /\ rebuildErrors' = rebuildErrors + 1
    /\ files' = files \ {req[p].id}
    /\ acked' = IF req[p].kind = "event" THEN acked \cup {req[p]} ELSE acked
    /\ Return(p)
    /\ UNCHANGED <<lines, open, project, holder, nextId, found, crashes, torn, errors>>

\* The rebuild raises. record_event swallows the exception and returns the
\* record; create_recovery_checkpoint passes it on.
RebuildFails(p) ==
    /\ pc[p] \in {"rebuild", "cursors", "save"}
    /\ rebuildErrors < MaxRebuildErrors
    /\ rebuildErrors' = rebuildErrors + 1
    /\ acked' = IF req[p].kind = "event" THEN acked \cup {req[p]} ELSE acked
    /\ Return(p)
    /\ UNCHANGED <<store, holder, nextId, found, crashes, torn, errors>>

-----------------------------------------------------------------------------
\* recover_checkpoint without checkpoint_id: the latest checkpoint of
\* project.json, whose file has to exist. (Where project.json names none the
\* call raises and nothing happens.)
Recover(p) ==
    /\ pc[p] = "idle"
    /\ \E i \in LatestCheckpoint(project.lines) :
        LET id == project.lines[i].id
        IN  found' = found \cup {[id |-> id, exists |-> id \in files]}
    /\ UNCHANGED <<store, holder, local, nextId, acked, faults>>

\* Mutant: a lock file that outlives its process.
CrashKeepsLock(p) ==
    /\ pc[p] # "idle"
    /\ crashes < MaxCrashes
    /\ crashes' = crashes + 1
    /\ Return(p)
    /\ UNCHANGED <<store, holder, nextId, acked, found, torn, errors, rebuildErrors>>

\* The process dies. The kernel drops its flock, the files stay as they are.
Crash(p) ==
    /\ pc[p] # "idle"
    /\ crashes < MaxCrashes
    /\ crashes' = crashes + 1
    /\ holder' = IF holder = p THEN NoProc ELSE holder
    /\ Return(p)
    /\ UNCHANGED <<store, nextId, acked, found, torn, errors, rebuildErrors>>

\* The steps a running process takes on its own.
Step(p) ==
    \/ Acquire(p) \/ Replay(p) \/ ScanMiss(p) \/ WriteCheckpointFile(p)
    \/ WriteLine(p) \/ WritePart(p) \/ WriteRest(p) \/ Fsync(p)
    \/ ReadForSummary(p) \/ ReadCursors(p) \/ SaveProject(p)

\* Every call has returned and no more are made.
Rest ==
    /\ nextId > MaxRecords
    /\ \A p \in Procs : pc[p] = "idle"
    /\ UNCHANGED vars

Next ==
    \/ \E p \in Procs :
        \/ RecordEvent(p) \/ CreateCheckpoint(p)
        \/ Step(p)
        \/ WriteFails(p) \/ RebuildFails(p)
        \/ Recover(p) \/ Crash(p)
    \/ Rest

Spec == Init /\ [][Next]_vars

\* The operating system keeps running a process that is not blocked.
FairSpec == Spec /\ \A p \in Procs : WF_vars(Step(p))

-----------------------------------------------------------------------------
(* Properties.                                                             *)

PCs == {"idle", "lock", "locked", "write", "part", "glued", "fsync",
        "rebuild", "cursors", "save"}

Line == Record \cup {Torn}
Cursor == [lines : Seq(Line), open : BOOLEAN, files : SUBSET Nat]

\* The type of every variable; a torn tail is the last line of a file that
\* has one.
TypeOK ==
    /\ lines \in Seq(Line)
    /\ open \in BOOLEAN
    /\ open => Len(lines) > 0
    /\ files \in SUBSET Nat
    /\ project \in [lines : Seq(Line), cursor : Cursor, present : BOOLEAN]
    /\ holder \in Procs \cup {NoProc}
    /\ pc \in [Procs -> PCs]
    /\ req \in [Procs -> Record]
    /\ snap \in [Procs -> Seq(Line)]
    /\ cursor \in [Procs -> Cursor]
    /\ nextId \in Nat
    /\ acked \in SUBSET Record
    /\ found \in SUBSET [id : Nat, exists : BOOLEAN]
    /\ crashes \in Nat /\ torn \in Nat /\ errors \in Nat /\ rebuildErrors \in Nat

InFile(r) == \E i \in 1..Len(lines) : lines[i] = r

\* An idempotency key is on at most one readable record, however many
\* processes race to write it and whichever of them die: the scan and the
\* append of record_event are one critical section.
UniqueKeys ==
    \A i, j \in 1..Len(lines) :
        /\ lines[i] # Torn /\ lines[j] # Torn
        /\ lines[i].key = lines[j].key
        /\ lines[i].key # NoKey
        => i = j

\* A record that record_event or create_recovery_checkpoint returned is
\* readable from then on, as long as no write was cut short.
AckedDurable == torn = 0 => \A r \in acked : InFile(r)

\* Two callers that used the same key were told of the same record, also when
\* one of them is a retry after a crash.
RetryReturnsSame ==
    torn = 0 => \A r, s \in acked : r.key = s.key /\ r.key # NoKey => r = s

\* A checkpoint record that can be read names a checkpoint file that exists,
\* whatever dies in between: the file is written before the record, and is
\* only unlinked when the append raised.
HaveFiles(ls, fs) == \A i \in CheckpointsIn(ls) : ls[i].id \in fs
CheckpointHasFile == errors = 0 => HaveFiles(lines, files)

\* The offset a checkpoint stores is where its own record starts: nothing was
\* appended between taking the size of records.jsonl and writing the record.
OffsetIsOwnRecord ==
    \A i \in 1..Len(lines) :
        lines[i] # Torn /\ lines[i].kind = "checkpoint" => lines[i].off = i - 1

\* recover without checkpoint_id never ends in "Checkpoint not found" for the
\* checkpoint that project.json names.
RecoverNotDangling == errors = 0 => \A f \in found : f.exists

\* project_summary_is_stale: the stored cursors differ from the sources.
Stale == ~project.present \/ project.cursor # Cursors

\* A summary that project_summary_is_stale calls current tells what the
\* records tell.
FreshMeansCurrent == ~Stale => ReadRecords(project.lines) = ReadRecords(lines)

\* The same once every server is idle: nobody is left to correct the summary.
FreshMeansCurrentAtRest ==
    (\A p \in Procs : pc[p] = "idle") /\ ~Stale =>
        ReadRecords(project.lines) = ReadRecords(lines)

\* An acknowledged record is readable from then on, cut-short writes or not.
AckedAlwaysDurable == \A r \in acked : InFile(r)

\* A call ends: no process waits forever for the lock, also not for that of a
\* process that died inside it.
CallsReturn == \A p \in Procs : pc[p] # "idle" ~> pc[p] = "idle"

\* Until a write is cut short the file is the abstract history: every step is
\* one of EventLog, or changes neither the history nor what callers were told.
Log == INSTANCE EventLog WITH log <- lines
Abstract == Log!LogInit /\ [][torn = 0 /\ torn' = 0 => [Log!LogNext]_(Log!lvars)]_vars

-----------------------------------------------------------------------------
(* What makes the properties inductive (proved in RecordStore_proofs).     *)

InLock == {"locked", "write", "part", "glued", "fsync"}

\* A process between _store_lock and its end is the one that holds the lock.
LockInv == \A p \in Procs : pc[p] \in InLock => holder = p

\* No line of ls but those from n on carries the key of r.
KeyFree(r, ls, n) ==
    r.key # NoKey => \A i \in 1..(n - 1) : ls[i] # Torn => ls[i].key # r.key

\* What a process that is about to write, or has written a part, knows.
WriterInv ==
    \A p \in Procs :
        /\ req[p].kind = "checkpoint" => req[p].key = NoKey
        /\ pc[p] = "write" =>
            /\ KeyFree(req[p], lines, Len(lines) + 1)
            /\ req[p].kind = "checkpoint" => req[p].off = Len(lines)
        /\ pc[p] = "part" =>
            /\ open
            /\ lines[Len(lines)] \in {Torn, req[p]}
            /\ KeyFree(req[p], lines, Len(lines))
            /\ req[p].kind = "checkpoint" => req[p].off = Len(lines) - 1
        /\ pc[p] = "glued" => lines[Len(lines)] = Torn

\* The part of the invariant that rests on a lock that works.
LockedInv == LockInv /\ WriterInv /\ UniqueKeys /\ OffsetIsOwnRecord

\* As long as no write was cut short: every line can be read, and what is on
\* its way back to the caller is in the file.
DurableInv ==
    torn = 0 =>
        /\ ~open /\ \A i \in 1..Len(lines) : lines[i] # Torn
        /\ \A r \in acked : InFile(r)
        /\ \A p \in Procs :
            /\ pc[p] \notin {"part", "glued"}
            /\ pc[p] \in {"fsync", "rebuild", "cursors", "save"} => InFile(req[p])

\* As long as no write raised: every copy of the records names checkpoints
\* that have a file.
FilesInv ==
    errors = 0 =>
        /\ HaveFiles(lines, files)
        /\ HaveFiles(project.lines, files)
        /\ \A p \in Procs : HaveFiles(snap[p], files)
        /\ \A p \in Procs :
            pc[p] \in {"write", "part"} /\ req[p].kind = "checkpoint" => req[p].id \in files
        /\ \A f \in found : f.exists

\* A server that is alone: nothing moves between its reading and its saving.
SoloInv ==
    /\ \A p \in Procs :
        /\ pc[p] = "cursors" => snap[p] = lines
        /\ pc[p] = "save" => snap[p] = lines /\ cursor[p] = Cursors
    /\ project.present => project.lines = project.cursor.lines
=============================================================================
