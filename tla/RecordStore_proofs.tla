------------------------- MODULE RecordStore_proofs -------------------------
(***************************************************************************)
(* Proofs about RecordStore, for any set of server processes, any set of   *)
(* keys and any bounds on faults.                                          *)
(***************************************************************************)
EXTENDS RecordStore, TLAPS

\* What _append_record leaves in the file: the old lines, the last of them
\* spoilt if it was open, and the new one if it was not.
LEMMA AddLineFacts ==
    ASSUME TypeOK, NEW l \in Line
    PROVE  /\ AddLine(l) \in Seq(Line)
           /\ Len(AddLine(l)) = IF open THEN Len(lines) ELSE Len(lines) + 1
           /\ Len(AddLine(l)) > 0
           /\ ~open => AddLine(l)[Len(lines) + 1] = l
           /\ open => AddLine(l)[Len(lines)] = Torn
           /\ \A i \in 1..Len(lines) :
                ~(open /\ i = Len(lines)) => AddLine(l)[i] = lines[i]
  <1>1. lines \in Seq(Line) /\ Torn \in Line /\ (open => Len(lines) > 0) /\ open \in BOOLEAN
    BY DEF TypeOK, Line
  <1>2. CASE open
    BY <1>1, <1>2 DEF AddLine
  <1>3. CASE ~open
    BY <1>1, <1>3 DEF AddLine
  <1> QED BY <1>1, <1>2, <1>3

\* A record with its offset filled in is a record.
LEMMA WithOffset ==
    ASSUME NEW r \in Record, NEW n \in Nat
    PROVE  [r EXCEPT !.off = n] \in Record
  BY DEF Record

\* Replacing a line of a file leaves a file of the same length.
LEMMA PutLine ==
    ASSUME NEW ls \in Seq(Line), NEW l \in Line, NEW i \in Nat
    PROVE  /\ [ls EXCEPT ![i] = l] \in Seq(Line)
           /\ Len([ls EXCEPT ![i] = l]) = Len(ls)
  <1>1. [ls EXCEPT ![i] = l] \in Seq(Line)
    <2>1. CASE i \in 1..Len(ls)
      BY <2>1
    <2>2. CASE i \notin 1..Len(ls)
      <3>1. [ls EXCEPT ![i] = l] = ls
        BY <2>2
      <3> QED BY <3>1
    <2> QED BY <2>1, <2>2
  <1>2. Len([ls EXCEPT ![i] = l]) = Len(ls)
    OBVIOUS
  <1> QED BY <1>1, <1>2

\* What recover adds to the history is well typed.
LEMMA FoundType ==
    ASSUME TypeOK, NEW i \in LatestCheckpoint(project.lines), NEW b \in BOOLEAN
    PROVE  [id |-> project.lines[i].id, exists |-> b] \in [id : Nat, exists : BOOLEAN]
  <1>1. i \in 1..Len(project.lines) /\ project.lines[i] # Torn
    BY DEF LatestCheckpoint, CheckpointsIn
  <1>2. project.lines \in Seq(Line)
    BY DEF TypeOK
  <1>3. project.lines[i] \in Record
    BY <1>1, <1>2 DEF Line
  <1>4. project.lines[i].id \in Nat
    BY <1>3 DEF Record
  <1> QED BY <1>4

\* The initial values have their types.
LEMMA InitType == Init => TypeOK
  <1> SUFFICES ASSUME Init PROVE TypeOK
    OBVIOUS
  <1>1. NoReq \in Record
    BY DEF NoReq, Record, Kinds
  <1>2. <<>> \in Seq(Line) /\ Nowhere \in Cursor
    BY DEF Nowhere, Cursor
  <1> QED BY <1>1, <1>2 DEF Init, TypeOK, PCs

\* No step takes a variable out of its type.
LEMMA NextType == TypeOK /\ [Next]_vars => TypeOK'
  <1> SUFFICES ASSUME TypeOK, [Next]_vars PROVE TypeOK'
    OBVIOUS
  <1> USE DEF TypeOK, PCs
  <1>0. NoReq \in Record /\ <<>> \in Seq(Line) /\ Nowhere \in Cursor /\ Torn \in Line
        /\ Cursors \in Cursor /\ (\A p \in Procs : req[p] \in Line)
    BY DEF NoReq, Record, Kinds, Nowhere, Cursor, Line, Cursors
  <1>1. ASSUME NEW p \in Procs, RecordEvent(p) \/ CreateCheckpoint(p) PROVE TypeOK'
    <2>1. PICK kind \in Kinds, key \in Keys \cup {NoKey} : Call(p, kind, key)
      BY <1>1 DEF RecordEvent, CreateCheckpoint, Kinds
    <2>2. [id |-> nextId, kind |-> kind, key |-> key, off |-> 0] \in Record
      BY DEF Record
    <2> QED BY <2>1, <2>2 DEF Call, Goto, store, faults
  <1>2. ASSUME NEW p \in Procs, Acquire(p) PROVE TypeOK'
    BY <1>2 DEF Acquire, Goto, store, faults
  <1>3. ASSUME NEW p \in Procs, Replay(p) PROVE TypeOK'
    <2>1. acked' \in SUBSET Record
      BY <1>3 DEF Replay, Existing, Line
    <2> QED BY <1>0, <1>3, <2>1 DEF Replay, Release, Return, store, faults
  <1>4. ASSUME NEW p \in Procs, ScanMiss(p) PROVE TypeOK'
    BY <1>4 DEF ScanMiss, Goto, store, faults
  <1>5. ASSUME NEW p \in Procs, WriteCheckpointFile(p) PROVE TypeOK'
    <2>1. [req[p] EXCEPT !.off = Len(lines)] \in Record
      BY WithOffset
    <2>2. req' \in [Procs -> Record]
      BY <1>5, <2>1 DEF WriteCheckpointFile
    <2>3. files' \in SUBSET Nat
      <3>1. req[p].id \in Nat
        BY DEF Record
      <3> QED BY <1>5, <3>1 DEF WriteCheckpointFile
    <2> QED BY <1>5, <2>2, <2>3 DEF WriteCheckpointFile, Goto, faults
  <1>6. ASSUME NEW p \in Procs, WriteLine(p) PROVE TypeOK'
    BY <1>0, <1>6, AddLineFacts DEF WriteLine, Goto, faults
  <1>7. ASSUME NEW p \in Procs, WritePart(p) PROVE TypeOK'
    <2>1. PICK l \in {Torn, req[p]} : lines' = AddLine(l)
      BY <1>7 DEF WritePart
    <2>2. l \in Line
      BY <1>0
    <2>3. lines' \in Seq(Line) /\ Len(lines') > 0
      BY <2>1, <2>2, AddLineFacts
    <2> QED BY <1>7, <2>3 DEF WritePart, Goto
  <1>8. ASSUME NEW p \in Procs, WriteRest(p) PROVE TypeOK'
    <2>1. PICK l \in Line : lines' = [lines EXCEPT ![Len(lines)] = l]
      BY <1>0, <1>8 DEF WriteRest
    <2>2. lines' \in Seq(Line) /\ Len(lines') = Len(lines)
      BY <2>1, PutLine
    <2> QED BY <1>8, <2>2 DEF WriteRest, Goto, faults
  <1>9. ASSUME NEW p \in Procs, Fsync(p) PROVE TypeOK'
    BY <1>9 DEF Fsync, Release, Goto, store, faults
  <1>10. ASSUME NEW p \in Procs, WriteFails(p) PROVE TypeOK'
    <2>1. files' \in SUBSET Nat
      BY <1>10 DEF WriteFails
    <2>2. pc' \in [Procs -> PCs] /\ req' \in [Procs -> Record]
          /\ snap' \in [Procs -> Seq(Line)] /\ cursor' \in [Procs -> Cursor]
      BY <1>0, <1>10 DEF WriteFails, Return
    <2> QED BY <1>10, <2>1, <2>2 DEF WriteFails, Release
  <1>11. ASSUME NEW p \in Procs, ReadForSummary(p) PROVE TypeOK'
    BY <1>11 DEF ReadForSummary, Goto, store, faults
  <1>12. ASSUME NEW p \in Procs, ReadCursors(p) PROVE TypeOK'
    BY <1>0, <1>12 DEF ReadCursors, Goto, store, faults
  <1>13. ASSUME NEW p \in Procs, SaveProject(p) PROVE TypeOK'
    BY <1>0, <1>13 DEF SaveProject, Return, faults
  <1>14. ASSUME NEW p \in Procs, RebuildFails(p) PROVE TypeOK'
    BY <1>0, <1>14 DEF RebuildFails, Return, store
  <1>15. ASSUME NEW p \in Procs, Recover(p) PROVE TypeOK'
    <2>1. PICK i \in LatestCheckpoint(project.lines) :
            found' = found \cup {[id |-> project.lines[i].id,
                                  exists |-> project.lines[i].id \in files]}
      BY <1>15 DEF Recover
    <2>2. (project.lines[i].id \in files) \in BOOLEAN
      OBVIOUS
    <2>3. found' \in SUBSET [id : Nat, exists : BOOLEAN]
      BY <2>1, <2>2, FoundType
    <2> QED BY <1>15, <2>3 DEF Recover, store, local, faults
  <1>16. ASSUME NEW p \in Procs, Crash(p) PROVE TypeOK'
    <2>1. pc' \in [Procs -> PCs] /\ req' \in [Procs -> Record]
          /\ snap' \in [Procs -> Seq(Line)] /\ cursor' \in [Procs -> Cursor]
      BY <1>0, <1>16 DEF Crash, Return
    <2>2. holder' \in Procs \cup {NoProc}
      BY <1>16 DEF Crash
    <2> QED BY <1>16, <2>1, <2>2 DEF Crash, store
  <1>17. CASE UNCHANGED vars
    BY <1>17 DEF vars, store, local, faults
  <1> QED
    BY <1>1, <1>2, <1>3, <1>4, <1>5, <1>6, <1>7, <1>8, <1>9, <1>10, <1>11,
       <1>12, <1>13, <1>14, <1>15, <1>16, <1>17 DEF Next, Step, Rest

\* Every variable keeps its type, in every behaviour of the store.
THEOREM StoreTypeOK == Spec => []TypeOK
  BY InitType, NextType, PTL DEF Spec

-----------------------------------------------------------------------------
(* What the lock gives: unique keys, and offsets that are right.           *)

\* The lock variable names the process inside _store_lock.
LEMMA LockStep ==
    ASSUME LockWorks, TypeOK, LockInv, [Next]_vars PROVE LockInv'
  <1>1. ASSUME NEW p \in Procs, RecordEvent(p) \/ CreateCheckpoint(p) PROVE LockInv'
    <2>1. pc' = [pc EXCEPT ![p] = "lock"] /\ holder' = holder
      BY <1>1 DEF RecordEvent, CreateCheckpoint, Call, Goto
    <2> QED BY <2>1 DEF TypeOK, LockInv, InLock
  <1>2. ASSUME NEW p \in Procs, Acquire(p) PROVE LockInv'
    <2>1. holder = NoProc /\ holder' = p /\ pc' = [pc EXCEPT ![p] = "locked"]
      BY <1>2, LockWorks DEF Acquire, Goto
    <2>2. \A q \in Procs : pc[q] \notin InLock
      BY <2>1, ConstAssumption DEF LockInv
    <2> QED BY <2>1, <2>2 DEF TypeOK, LockInv
  <1>3. ASSUME NEW p \in Procs, pc[p] \in InLock, NEW at \in PCs,
               pc' = [pc EXCEPT ![p] = at], holder' = holder \/ at \notin InLock
        PROVE  LockInv'
    BY <1>3 DEF TypeOK, LockInv
  <1>4. ASSUME NEW p \in Procs, pc[p] \notin InLock, NEW at \in PCs \ InLock,
               pc' = [pc EXCEPT ![p] = at], holder' = holder \/ holder = p
        PROVE  LockInv'
    BY <1>4 DEF TypeOK, LockInv
  <1>5. ASSUME NEW p \in Procs,
               Replay(p) \/ ScanMiss(p) \/ WriteCheckpointFile(p) \/ WriteLine(p)
               \/ WritePart(p) \/ WriteRest(p) \/ Fsync(p) \/ WriteFails(p)
        PROVE  LockInv'
    <2>1. pc[p] \in InLock
      BY <1>5 DEF Replay, ScanMiss, WriteCheckpointFile, WriteLine, WritePart,
                  WriteRest, Fsync, WriteFails, InLock
    <2>2. \E at \in PCs : pc' = [pc EXCEPT ![p] = at] /\ (holder' = holder \/ at \notin InLock)
      BY <1>5 DEF Replay, ScanMiss, WriteCheckpointFile, WriteLine, WritePart,
                  WriteRest, Fsync, WriteFails, InLock, PCs, Goto, Return
    <2> QED BY <1>3, <2>1, <2>2
  <1>6. ASSUME NEW p \in Procs,
               ReadForSummary(p) \/ ReadCursors(p) \/ SaveProject(p) \/ RebuildFails(p)
        PROVE  LockInv'
    <2>1. pc[p] \notin InLock /\ holder' = holder
      BY <1>6 DEF ReadForSummary, ReadCursors, SaveProject, RebuildFails, InLock, store
    <2>2. \E at \in PCs \ InLock : pc' = [pc EXCEPT ![p] = at]
      BY <1>6 DEF ReadForSummary, ReadCursors, SaveProject, RebuildFails, InLock, PCs,
                  Goto, Return
    <2> QED BY <1>4, <2>1, <2>2
  <1>7. ASSUME NEW p \in Procs, Crash(p) PROVE LockInv'
    <2>1. pc' = [pc EXCEPT ![p] = "idle"]
      BY <1>7 DEF Crash, Return
    <2>2. holder' = holder \/ holder = p
      BY <1>7 DEF Crash
    <2> QED BY <2>1, <2>2 DEF TypeOK, LockInv, InLock
  <1>8. ASSUME NEW p \in Procs, Recover(p) PROVE LockInv'
    BY <1>8 DEF Recover, local, LockInv
  <1>9. CASE UNCHANGED vars
    BY <1>9 DEF vars, local, LockInv
  <1> QED BY <1>1, <1>2, <1>5, <1>6, <1>7, <1>8, <1>9 DEF Next, Step, Rest

\* A step that leaves the file alone and puts p at a place where it does not
\* write keeps what is known of the file and of the writer.
LEMMA FileKept ==
    ASSUME TypeOK, WriterInv, UniqueKeys, OffsetIsOwnRecord,
           NEW p \in Procs, NEW at \in PCs \ {"write", "part", "glued"},
           lines' = lines, open' = open, pc' = [pc EXCEPT ![p] = at],
           \A q \in Procs \ {p} : req'[q] = req[q],
           req'[p].kind = "checkpoint" => req'[p].key = NoKey
    PROVE  WriterInv' /\ UniqueKeys' /\ OffsetIsOwnRecord'
  <1>1. \A q \in Procs \ {p} : pc'[q] = pc[q]
    BY DEF TypeOK
  <1>2. pc'[p] = at
    BY DEF TypeOK
  <1>3. WriterInv'
    BY <1>1, <1>2 DEF WriterInv, KeyFree
  <1> QED BY <1>3 DEF UniqueKeys, OffsetIsOwnRecord

\* The same for the step that puts p in front of its write.
LEMMA FileKeptWriter ==
    ASSUME TypeOK, WriterInv, UniqueKeys, OffsetIsOwnRecord,
           NEW p \in Procs,
           lines' = lines, open' = open, pc' = [pc EXCEPT ![p] = "write"],
           \A q \in Procs \ {p} : req'[q] = req[q],
           req'[p].kind = "checkpoint" => req'[p].key = NoKey /\ req'[p].off = Len(lines),
           KeyFree(req'[p], lines, Len(lines) + 1)
    PROVE  WriterInv' /\ UniqueKeys' /\ OffsetIsOwnRecord'
  <1>1. \A q \in Procs \ {p} : pc'[q] = pc[q]
    BY DEF TypeOK
  <1>2. pc'[p] = "write"
    BY DEF TypeOK
  <1>3. WriterInv'
    BY <1>1, <1>2 DEF WriterInv, KeyFree
  <1> QED BY <1>3 DEF UniqueKeys, OffsetIsOwnRecord

\* A step of the holder of the lock: no other process is writing.
LEMMA OthersOut ==
    ASSUME LockInv, NEW p \in Procs, pc[p] \in InLock, NEW q \in Procs \ {p}
    PROVE  pc[q] \notin {"write", "part", "glued"}
  BY DEF LockInv, InLock

\* Adding a line whose key nobody carries, at the offset it stores.
LEMMA AddedLine ==
    ASSUME TypeOK, UniqueKeys, OffsetIsOwnRecord, NEW r \in Record, NEW l \in {Torn, r},
           KeyFree(r, lines, Len(lines) + 1),
           r.kind = "checkpoint" => r.off = Len(lines),
           lines' = AddLine(l)
    PROVE  /\ UniqueKeys' /\ OffsetIsOwnRecord'
           /\ KeyFree(r, lines', Len(lines'))
           /\ ~open => lines'[Len(lines')] = l /\ Len(lines') = Len(lines) + 1
           /\ open => lines'[Len(lines')] = Torn
  <1>1. l \in Line
    BY DEF Line
  <1>2. lines \in Seq(Line) /\ open \in BOOLEAN /\ (open => Len(lines) > 0)
    BY DEF TypeOK
  <1>3. CASE open
    <2>1. lines' \in Seq(Line) /\ Len(lines') = Len(lines) /\ lines'[Len(lines)] = Torn
          /\ \A i \in 1..Len(lines) : i # Len(lines) => lines'[i] = lines[i]
      BY <1>1, <1>3, AddLineFacts
    <2>2. \A i \in 1..Len(lines') : lines'[i] # Torn => lines'[i] = lines[i] /\ i \in 1..Len(lines)
      BY <1>2, <2>1
    <2> QED BY <1>2, <1>3, <2>1, <2>2 DEF UniqueKeys, OffsetIsOwnRecord, KeyFree
  <1>4. CASE ~open
    <2>1. lines' \in Seq(Line) /\ Len(lines') = Len(lines) + 1 /\ lines'[Len(lines) + 1] = l
          /\ \A i \in 1..Len(lines) : lines'[i] = lines[i]
      BY <1>1, <1>4, AddLineFacts
    <2>2. UniqueKeys'
      <3> SUFFICES ASSUME NEW i \in 1..Len(lines'), NEW j \in 1..Len(lines'),
                          lines'[i] # Torn, lines'[j] # Torn,
                          lines'[i].key = lines'[j].key, lines'[i].key # NoKey,
                          i # j
                   PROVE  FALSE
        BY DEF UniqueKeys
      <3>1. CASE i \in 1..Len(lines) /\ j \in 1..Len(lines)
        BY <2>1, <3>1 DEF UniqueKeys
      <3>2. CASE i = Len(lines) + 1 /\ j \in 1..Len(lines)
        <4>1. lines'[i] = r /\ lines'[j] = lines[j]
          BY <2>1, <3>2
        <4>2. r.key # NoKey /\ lines[j] # Torn => lines[j].key # r.key
          BY <1>2, <3>2 DEF KeyFree
        <4> QED BY <4>1, <4>2
      <3>3. CASE j = Len(lines) + 1 /\ i \in 1..Len(lines)
        <4>1. lines'[j] = r /\ lines'[i] = lines[i]
          BY <2>1, <3>3
        <4>2. r.key # NoKey /\ lines[i] # Torn => lines[i].key # r.key
          BY <1>2, <3>3 DEF KeyFree
        <4> QED BY <4>1, <4>2
      <3> QED BY <1>2, <2>1, <3>1, <3>2, <3>3
    <2>3. OffsetIsOwnRecord'
      BY <1>2, <2>1 DEF OffsetIsOwnRecord
    <2> QED BY <1>2, <1>4, <2>1, <2>2, <2>3 DEF KeyFree
  <1> QED BY <1>2, <1>3, <1>4

\* Completing the last line with the rest of its record.
LEMMA CompletedLine ==
    ASSUME TypeOK, UniqueKeys, OffsetIsOwnRecord, NEW r \in Record, NEW l \in {Torn, r},
           Len(lines) > 0,
           l = r => KeyFree(r, lines, Len(lines)),
           l = r /\ r.kind = "checkpoint" => r.off = Len(lines) - 1,
           lines' = [lines EXCEPT ![Len(lines)] = l]
    PROVE  UniqueKeys' /\ OffsetIsOwnRecord'
  <1>0. Len(lines) \in Nat
    BY DEF TypeOK
  <1>1. lines \in Seq(Line) /\ l \in Line
    BY DEF TypeOK, Line
  <1>2. Len(lines') = Len(lines) /\ lines'[Len(lines)] = l
        /\ \A i \in 1..Len(lines) : i # Len(lines) => lines'[i] = lines[i]
    BY <1>1
  <1>3. CASE l = Torn
    BY <1>1, <1>2, <1>3 DEF UniqueKeys, OffsetIsOwnRecord
  <1>4. CASE l = r
    <2>1. UniqueKeys'
      <3> SUFFICES ASSUME NEW i \in 1..Len(lines'), NEW j \in 1..Len(lines'),
                          lines'[i] # Torn, lines'[j] # Torn,
                          lines'[i].key = lines'[j].key, lines'[i].key # NoKey,
                          i # j
                   PROVE  FALSE
        BY DEF UniqueKeys
      <3>1. CASE i # Len(lines) /\ j # Len(lines)
        BY <1>2, <3>1 DEF UniqueKeys
      <3>2. CASE i = Len(lines)
        <4>1. j \in 1..Len(lines) /\ j # Len(lines)
          BY <1>2, <3>2
        <4>2. lines'[i] = r /\ lines'[j] = lines[j]
          BY <1>2, <1>4, <3>2, <4>1
        <4>3. j \in 1..(Len(lines) - 1)
          BY <1>0, <4>1
        <4>4. r.key # NoKey /\ lines[j] # Torn => lines[j].key # r.key
          BY <1>4, <4>3 DEF KeyFree
        <4> QED BY <4>2, <4>4
      <3>3. CASE j = Len(lines)
        <4>1. i \in 1..Len(lines) /\ i # Len(lines)
          BY <1>2, <3>3
        <4>2. lines'[j] = r /\ lines'[i] = lines[i]
          BY <1>2, <1>4, <3>3, <4>1
        <4>3. i \in 1..(Len(lines) - 1)
          BY <1>0, <4>1
        <4>4. r.key # NoKey /\ lines[i] # Torn => lines[i].key # r.key
          BY <1>4, <4>3 DEF KeyFree
        <4> QED BY <4>2, <4>4
      <3> QED BY <3>1, <3>2, <3>3
    <2>2. OffsetIsOwnRecord'
      BY <1>1, <1>2, <1>4 DEF OffsetIsOwnRecord
    <2> QED BY <2>1, <2>2
  <1> QED BY <1>3, <1>4

\* Every step keeps what the lock protects: the scan, the offset and the write
\* of one call are never separated by the write of another.
LEMMA LockedStep ==
    ASSUME LockWorks, TypeOK, LockedInv, [Next]_vars PROVE LockedInv'
  <1> USE DEF LockedInv
  <1>1. LockInv'
    BY LockStep
  <1> SUFFICES WriterInv' /\ UniqueKeys' /\ OffsetIsOwnRecord'
    BY <1>1
  <1>0. NoReq.kind = "event" /\ \A p \in Procs : req[p] \in Record
    BY DEF NoReq, TypeOK
  <1>2. ASSUME NEW p \in Procs, RecordEvent(p) \/ CreateCheckpoint(p)
        PROVE  WriterInv' /\ UniqueKeys' /\ OffsetIsOwnRecord'
    <2>1. PICK kind \in Kinds, key \in Keys \cup {NoKey} :
            Call(p, kind, key) /\ (kind = "checkpoint" => key = NoKey)
      BY <1>2 DEF RecordEvent, CreateCheckpoint, Kinds
    <2>2. req'[p].kind = "checkpoint" => req'[p].key = NoKey
      BY <2>1 DEF Call, TypeOK
    <2>3. \A q \in Procs \ {p} : req'[q] = req[q]
      BY <2>1 DEF Call, TypeOK
    <2>4. lines' = lines /\ open' = open /\ pc' = [pc EXCEPT ![p] = "lock"]
      BY <2>1 DEF Call, Goto, store
    <2> QED BY <2>2, <2>3, <2>4, FileKept DEF PCs
  <1>3. ASSUME NEW p \in Procs,
               Acquire(p) \/ Fsync(p) \/ ReadForSummary(p) \/ ReadCursors(p)
        PROVE  WriterInv' /\ UniqueKeys' /\ OffsetIsOwnRecord'
    <2>1. lines' = lines /\ open' = open /\ req' = req
      BY <1>3 DEF Acquire, Fsync, ReadForSummary, ReadCursors, store
    <2>2. \E at \in PCs \ {"write", "part", "glued"} : pc' = [pc EXCEPT ![p] = at]
      BY <1>3 DEF Acquire, Fsync, ReadForSummary, ReadCursors, Goto, PCs
    <2>3. req[p].kind = "checkpoint" => req[p].key = NoKey
      BY DEF WriterInv
    <2> QED BY <2>1, <2>2, <2>3, FileKept
  <1>4. ASSUME NEW p \in Procs,
               Replay(p) \/ WriteFails(p) \/ SaveProject(p) \/ RebuildFails(p) \/ Crash(p)
        PROVE  WriterInv' /\ UniqueKeys' /\ OffsetIsOwnRecord'
    <2>1. lines' = lines /\ open' = open /\ Return(p)
      BY <1>4 DEF Replay, WriteFails, SaveProject, RebuildFails, Crash, store
    <2>2. pc' = [pc EXCEPT ![p] = "idle"] /\ req' = [req EXCEPT ![p] = NoReq]
      BY <2>1 DEF Return
    <2>3. req'[p] = NoReq /\ \A q \in Procs \ {p} : req'[q] = req[q]
      BY <2>2 DEF TypeOK
    <2> QED BY <1>0, <2>1, <2>2, <2>3, FileKept DEF PCs
  <1>5. ASSUME NEW p \in Procs, ScanMiss(p)
        PROVE  WriterInv' /\ UniqueKeys' /\ OffsetIsOwnRecord'
    <2>1. KeyFree(req[p], lines, Len(lines) + 1)
      <3>1. req[p].key # NoKey => Existing(req[p].key) = {}
        BY <1>5 DEF ScanMiss
      <3>2. Len(lines) \in Nat
        BY DEF TypeOK
      <3>3. 1..(Len(lines) + 1 - 1) = 1..Len(lines)
        BY <3>2
      <3> QED BY <3>1, <3>3 DEF KeyFree, Existing
    <2>2. lines' = lines /\ open' = open /\ req' = req /\ pc' = [pc EXCEPT ![p] = "write"]
          /\ req[p].kind # "checkpoint"
      BY <1>5 DEF ScanMiss, Goto, store
    <2> QED BY <2>1, <2>2, FileKeptWriter
  <1>6. ASSUME NEW p \in Procs, WriteCheckpointFile(p)
        PROVE  WriterInv' /\ UniqueKeys' /\ OffsetIsOwnRecord'
    <2>1. lines' = lines /\ open' = open /\ pc' = [pc EXCEPT ![p] = "write"]
          /\ req' = [req EXCEPT ![p] = [req[p] EXCEPT !.off = Len(lines)]]
          /\ req[p].kind = "checkpoint"
      BY <1>6 DEF WriteCheckpointFile, Goto
    <2>2. req'[p] = [req[p] EXCEPT !.off = Len(lines)] /\ \A q \in Procs \ {p} : req'[q] = req[q]
      BY <2>1 DEF TypeOK
    <2>3. req'[p].key = NoKey /\ req'[p].off = Len(lines)
      <3>1. req[p].key = NoKey
        BY <2>1 DEF WriterInv
      <3> QED BY <1>0, <2>2, <3>1 DEF Record
    <2>4. KeyFree(req'[p], lines, Len(lines) + 1)
      BY <2>3 DEF KeyFree
    <2> QED BY <2>1, <2>2, <2>3, <2>4, FileKeptWriter
  <1>7. ASSUME NEW p \in Procs, WriteLine(p)
        PROVE  WriterInv' /\ UniqueKeys' /\ OffsetIsOwnRecord'
    <2>1. /\ pc[p] = "write" /\ lines' = AddLine(req[p]) /\ req' = req
          /\ pc' = [pc EXCEPT ![p] = "fsync"]
      BY <1>7 DEF WriteLine, Goto
    <2>2. UniqueKeys' /\ OffsetIsOwnRecord'
      BY <1>0, <2>1, AddedLine DEF WriterInv
    <2>3. \A q \in Procs : pc'[q] \notin {"write", "part", "glued"}
      BY <2>1, OthersOut DEF TypeOK, InLock
    <2> QED BY <2>1, <2>2, <2>3 DEF WriterInv
  <1>8. ASSUME NEW p \in Procs, WritePart(p)
        PROVE  WriterInv' /\ UniqueKeys' /\ OffsetIsOwnRecord'
    <2>1. /\ pc[p] = "write" /\ open' = TRUE /\ req' = req
          /\ pc' = [pc EXCEPT ![p] = IF open THEN "glued" ELSE "part"]
      BY <1>8 DEF WritePart, Goto
    <2>2. PICK l \in {Torn, req[p]} : lines' = AddLine(l)
      BY <1>8 DEF WritePart
    <2>3. /\ KeyFree(req[p], lines, Len(lines) + 1)
          /\ req[p].kind = "checkpoint" => req[p].off = Len(lines)
      BY <2>1 DEF WriterInv
    <2>4. /\ UniqueKeys' /\ OffsetIsOwnRecord'
          /\ KeyFree(req[p], lines', Len(lines'))
          /\ ~open => lines'[Len(lines')] = l /\ Len(lines') = Len(lines) + 1
          /\ open => lines'[Len(lines')] = Torn
      BY <1>0, <2>2, <2>3, AddedLine
    <2>5. \A q \in Procs \ {p} : pc'[q] \notin {"write", "part", "glued"}
      BY <2>1, OthersOut DEF TypeOK, InLock
    <2>6. pc'[p] = (IF open THEN "glued" ELSE "part") /\ Len(lines) \in Nat
      BY <2>1 DEF TypeOK
    <2>7. WriterInv'
      BY <2>1, <2>2, <2>3, <2>4, <2>5, <2>6 DEF WriterInv
    <2> QED BY <2>4, <2>7
  <1>9. ASSUME NEW p \in Procs, WriteRest(p)
        PROVE  WriterInv' /\ UniqueKeys' /\ OffsetIsOwnRecord'
    <2>1. /\ pc[p] \in {"part", "glued"} /\ req' = req /\ pc' = [pc EXCEPT ![p] = "fsync"]
          /\ lines' = [lines EXCEPT ![Len(lines)] = IF pc[p] = "part" THEN req[p] ELSE Torn]
      BY <1>9 DEF WriteRest, Goto
    <2>2. \A q \in Procs : pc'[q] \notin {"write", "part", "glued"}
      BY <2>1, OthersOut DEF TypeOK, InLock
    <2>3. WriterInv'
      BY <2>1, <2>2 DEF WriterInv
    <2>4. UniqueKeys' /\ OffsetIsOwnRecord'
      <3>1. CASE Len(lines) = 0
        <4>1. lines' = lines
          BY <2>1, <3>1 DEF TypeOK
        <4> QED BY <4>1 DEF UniqueKeys, OffsetIsOwnRecord
      <3>2. CASE Len(lines) > 0 /\ pc[p] = "part"
        BY <1>0, <2>1, <3>2, CompletedLine DEF WriterInv
      <3>3. CASE Len(lines) > 0 /\ pc[p] # "part" /\ Torn # req[p]
        BY <1>0, <2>1, <3>3, CompletedLine
      <3> QED BY <1>0, <3>1, <3>2, <3>3, TornIsNoRecord DEF TypeOK
    <2> QED BY <2>3, <2>4
  <1>10. ASSUME NEW p \in Procs, Recover(p)
         PROVE  WriterInv' /\ UniqueKeys' /\ OffsetIsOwnRecord'
    BY <1>10 DEF Recover, store, local, WriterInv, UniqueKeys, OffsetIsOwnRecord
  <1>11. CASE UNCHANGED vars
    BY <1>11 DEF vars, store, local, WriterInv, UniqueKeys, OffsetIsOwnRecord
  <1> QED
    BY <1>2, <1>3, <1>4, <1>5, <1>6, <1>7, <1>8, <1>9, <1>10, <1>11 DEF Next, Step, Rest

\* What the lock protects holds in every behaviour.
LEMMA LockedInvariant == ASSUME LockWorks PROVE Spec => []LockedInv
  <1>1. Init => LockedInv
    BY DEF Init, LockedInv, LockInv, WriterInv, KeyFree, UniqueKeys, OffsetIsOwnRecord,
           InLock, NoReq
  <1>2. TypeOK /\ LockedInv /\ [Next]_vars => LockedInv'
    BY LockWorks, LockedStep
  <1> QED BY <1>1, <1>2, StoreTypeOK, PTL DEF Spec

\* The lock makes the scan for an idempotency key and the append one step: no
\* two readable records ever carry the same key, whatever crashes, is cut short
\* or raises.
THEOREM StoreUniqueKeys == ASSUME LockWorks PROVE Spec => []UniqueKeys
  <1>1. LockedInv => UniqueKeys
    BY DEF LockedInv
  <1> QED BY <1>1, LockedInvariant, PTL

\* The offset of a checkpoint is where its own record starts.
THEOREM StoreOffsets == ASSUME LockWorks PROVE Spec => []OffsetIsOwnRecord
  <1>1. LockedInv => OffsetIsOwnRecord
    BY DEF LockedInv
  <1> QED BY <1>1, LockedInvariant, PTL

-----------------------------------------------------------------------------
(* What holds with or without the lock: acknowledged records stay.         *)

\* A process that is put at a place where it owes nothing, over an unchanged
\* file, keeps DurableInv.
LEMMA DurableKept ==
    ASSUME TypeOK, DurableInv, torn' = 0 => torn = 0,
           NEW p \in Procs, NEW at \in PCs \ {"part", "glued"},
           lines' = lines, open' = open, pc' = [pc EXCEPT ![p] = at],
           \A q \in Procs \ {p} : req'[q] = req[q],
           at \in {"fsync", "rebuild", "cursors", "save"} =>
             req'[p] = req[p] /\ pc[p] \in {"fsync", "rebuild", "cursors", "save"},
           \A r \in acked' : r \in acked \/ InFile(r)
    PROVE  DurableInv'
  <1>1. pc'[p] = at /\ \A q \in Procs \ {p} : pc'[q] = pc[q]
    BY DEF TypeOK
  <1>2. \A r : InFile(r)' <=> InFile(r)
    BY DEF InFile
  <1> QED BY <1>1, <1>2 DEF DurableInv, InFile

\* Every step keeps what callers have been told in the file, until a write is
\* cut short.
LEMMA DurableStep ==
    ASSUME TypeOK, DurableInv, [Next]_vars PROVE DurableInv'
  <1> DEFINE Owed == {"fsync", "rebuild", "cursors", "save"}
  <1>0. torn \in Nat
    BY DEF TypeOK
  <1>1. ASSUME NEW p \in Procs, RecordEvent(p) \/ CreateCheckpoint(p) PROVE DurableInv'
    <2>1. PICK kind \in Kinds, key \in Keys \cup {NoKey} : Call(p, kind, key)
      BY <1>1 DEF RecordEvent, CreateCheckpoint, Kinds
    <2>2. \A q \in Procs \ {p} : req'[q] = req[q]
      BY <2>1 DEF Call, TypeOK
    <2>3. /\ lines' = lines /\ open' = open /\ pc' = [pc EXCEPT ![p] = "lock"]
          /\ acked' = acked /\ torn' = torn
      BY <2>1 DEF Call, Goto, store, faults
    <2> QED BY <2>2, <2>3, DurableKept DEF PCs
  <1>2. ASSUME NEW p \in Procs,
               Acquire(p) \/ ScanMiss(p) \/ Fsync(p) \/ ReadForSummary(p) \/ ReadCursors(p)
        PROVE  DurableInv'
    <2>1. lines' = lines /\ open' = open /\ req' = req /\ acked' = acked /\ torn' = torn
      BY <1>2 DEF Acquire, ScanMiss, Fsync, ReadForSummary, ReadCursors, store, faults
    <2>2. \E at \in PCs \ {"part", "glued"} :
            pc' = [pc EXCEPT ![p] = at] /\ (at \in Owed => pc[p] \in Owed)
      BY <1>2 DEF Acquire, ScanMiss, Fsync, ReadForSummary, ReadCursors, Goto, PCs
    <2> QED BY <2>1, <2>2, DurableKept
  <1>3. ASSUME NEW p \in Procs,
               Replay(p) \/ WriteFails(p) \/ SaveProject(p) \/ RebuildFails(p) \/ Crash(p)
        PROVE  DurableInv'
    <2>1. lines' = lines /\ open' = open /\ Return(p) /\ torn' = torn
      BY <1>3 DEF Replay, WriteFails, SaveProject, RebuildFails, Crash, store, faults
    <2>2. pc' = [pc EXCEPT ![p] = "idle"] /\ \A q \in Procs \ {p} : req'[q] = req[q]
      BY <2>1 DEF Return, TypeOK
    <2>3. torn = 0 => \A r \in acked' : r \in acked \/ InFile(r)
      <3>1. CASE Replay(p)
        <4>1. PICK i \in Existing(req[p].key) : acked' = acked \cup {lines[i]}
          BY <3>1 DEF Replay
        <4>2. InFile(lines[i])
          BY DEF Existing, InFile
        <4> QED BY <4>1, <4>2
      <3>2. CASE SaveProject(p) \/ RebuildFails(p)
        <4>1. acked' \subseteq acked \cup {req[p]} /\ pc[p] \in Owed
          BY <3>2 DEF SaveProject, RebuildFails
        <4>2. torn = 0 => InFile(req[p])
          BY <4>1 DEF DurableInv
        <4> QED BY <4>1, <4>2
      <3>3. CASE WriteFails(p) \/ Crash(p)
        BY <3>3 DEF WriteFails, Crash
      <3> QED BY <1>3, <3>1, <3>2, <3>3
    <2>4. CASE torn = 0
      BY <2>1, <2>2, <2>3, <2>4, DurableKept DEF PCs
    <2>5. CASE torn # 0
      BY <2>1, <2>5 DEF DurableInv
    <2> QED BY <2>4, <2>5
  <1>4. ASSUME NEW p \in Procs, WriteCheckpointFile(p) PROVE DurableInv'
    <2>1. lines' = lines /\ open' = open /\ pc' = [pc EXCEPT ![p] = "write"]
          /\ acked' = acked /\ torn' = torn
      BY <1>4 DEF WriteCheckpointFile, Goto, faults
    <2>2. \A q \in Procs \ {p} : req'[q] = req[q]
      BY <1>4 DEF WriteCheckpointFile, TypeOK
    <2> QED BY <2>1, <2>2, DurableKept DEF PCs
  <1>5. ASSUME NEW p \in Procs, WriteLine(p) PROVE DurableInv'
    <2> SUFFICES ASSUME torn = 0 PROVE DurableInv'
      BY <1>5 DEF WriteLine, faults, DurableInv
    <2>1. /\ lines' = AddLine(req[p]) /\ open' = FALSE /\ req' = req
          /\ pc' = [pc EXCEPT ![p] = "fsync"] /\ acked' = acked /\ torn' = torn
      BY <1>5 DEF WriteLine, Goto, faults
    <2>2. req[p] \in Line /\ lines \in Seq(Line)
      BY DEF TypeOK, Line
    <2>3. ~open
      BY DEF DurableInv
    <2>4. /\ Len(lines') = Len(lines) + 1 /\ lines'[Len(lines) + 1] = req[p]
          /\ \A j \in 1..Len(lines) : lines'[j] = lines[j]
      BY <2>1, <2>2, <2>3, AddLineFacts
    <2>5. \A r : InFile(r) => InFile(r)'
      BY <2>2, <2>4 DEF InFile
    <2>6. InFile(req[p])'
      BY <2>1, <2>2, <2>4 DEF InFile
    <2>7. pc'[p] = "fsync" /\ \A q \in Procs \ {p} : pc'[q] = pc[q]
      BY <2>1 DEF TypeOK
    <2>8. \A r \in acked' : \E i \in 1..Len(lines') : lines'[i] = r
      BY <2>1, <2>5 DEF DurableInv, InFile
    <2>9. ASSUME NEW q \in Procs \ {p}
          PROVE  /\ pc'[q] \notin {"part", "glued"}
                 /\ pc'[q] \in Owed => \E i \in 1..Len(lines') : lines'[i] = req'[q]
      <3>1. pc[q] \in Owed => InFile(req[q])
        BY DEF DurableInv
      <3> QED BY <2>1, <2>5, <2>7, <3>1 DEF DurableInv, InFile
    <2>10. /\ pc'[p] \notin {"part", "glued"}
           /\ \E i \in 1..Len(lines') : lines'[i] = req'[p]
      BY <2>1, <2>6, <2>7 DEF InFile
    <2>11. \A i \in 1..Len(lines') : lines'[i] # Torn
      <3>1. req[p] # Torn
        BY TornIsNoRecord DEF TypeOK
      <3>2. \A i \in 1..Len(lines) : lines[i] # Torn
        BY DEF DurableInv
      <3> QED BY <2>2, <2>4, <3>1, <3>2
    <2> QED BY <2>1, <2>8, <2>9, <2>10, <2>11 DEF DurableInv, InFile
  <1>6. ASSUME NEW p \in Procs, WritePart(p) PROVE DurableInv'
    BY <1>0, <1>6 DEF WritePart, DurableInv
  <1>7. ASSUME NEW p \in Procs, WriteRest(p) PROVE DurableInv'
    BY <1>7 DEF WriteRest, faults, DurableInv
  <1>8. ASSUME NEW p \in Procs, Recover(p) PROVE DurableInv'
    BY <1>8 DEF Recover, store, local, faults, DurableInv, InFile
  <1>9. CASE UNCHANGED vars
    BY <1>9 DEF vars, store, local, faults, DurableInv, InFile
  <1> QED BY <1>1, <1>2, <1>3, <1>4, <1>5, <1>6, <1>7, <1>8, <1>9 DEF Next, Step, Rest

\* The durability invariant holds in every behaviour.
LEMMA DurableInvariant == Spec => []DurableInv
  <1>1. Init => DurableInv
    BY DEF Init, DurableInv
  <1>2. TypeOK /\ DurableInv /\ [Next]_vars => DurableInv'
    BY DurableStep
  <1> QED BY <1>1, <1>2, StoreTypeOK, PTL DEF Spec

\* A record whose caller was told of it is in the file from then on, with or
\* without a lock that works, whatever crashes and whatever write or rebuild
\* raises, until a write is cut short.
THEOREM StoreAckedDurable == Spec => []AckedDurable
  <1>1. DurableInv => AckedDurable
    BY DEF DurableInv, AckedDurable
  <1> QED BY <1>1, DurableInvariant, PTL

\* Idempotency as callers see it: all calls with one key are told of one
\* record.
THEOREM StoreRetryReturnsSame == ASSUME LockWorks PROVE Spec => []RetryReturnsSame
  <1>1. TypeOK /\ AckedDurable /\ UniqueKeys => RetryReturnsSame
    <2> SUFFICES ASSUME TypeOK, AckedDurable, UniqueKeys, torn = 0,
                        NEW r \in acked, NEW s \in acked, r.key = s.key, r.key # NoKey
                 PROVE  r = s
      BY DEF RetryReturnsSame
    <2>1. PICK i \in 1..Len(lines) : lines[i] = r
      BY DEF AckedDurable, InFile
    <2>2. PICK j \in 1..Len(lines) : lines[j] = s
      BY DEF AckedDurable, InFile
    <2>3. r # Torn /\ s # Torn
      BY TornIsNoRecord DEF TypeOK
    <2> QED BY <2>1, <2>2, <2>3 DEF UniqueKeys
  <1> QED BY <1>1, StoreTypeOK, StoreAckedDurable, StoreUniqueKeys, PTL

-----------------------------------------------------------------------------
(* Checkpoint records and checkpoint files.                                *)

\* Files that were only added.
LEMMA HaveMoreFiles ==
    ASSUME NEW ls, NEW fs, NEW gs, fs \subseteq gs, HaveFiles(ls, fs)
    PROVE  HaveFiles(ls, gs)
  BY DEF HaveFiles

\* No step makes a readable checkpoint record lose its file, in
\* records.jsonl, in project.json or in a process that is rebuilding it.
LEMMA FilesStep == ASSUME TypeOK, FilesInv, [Next]_vars PROVE FilesInv'
  <1> DEFINE Writers == {"write", "part"}
  <1>0. NoReq.kind = "event" /\ <<>> \in Seq(Line) /\ (\A fs : HaveFiles(<<>>, fs))
    BY DEF NoReq, HaveFiles, CheckpointsIn
  <1>1. ASSUME NEW p \in Procs, WriteFails(p) PROVE FilesInv'
    BY <1>1 DEF WriteFails, FilesInv, TypeOK
  <1>2. ASSUME NEW p \in Procs, RecordEvent(p) \/ CreateCheckpoint(p) PROVE FilesInv'
    <2>1. PICK kind \in Kinds, key \in Keys \cup {NoKey} : Call(p, kind, key)
      BY <1>2 DEF RecordEvent, CreateCheckpoint, Kinds
    <2>2. /\ store' = store /\ snap' = snap /\ found' = found /\ errors' = errors
          /\ pc' = [pc EXCEPT ![p] = "lock"]
      BY <2>1 DEF Call, Goto, faults
    <2>3. pc'[p] = "lock" /\ \A q \in Procs \ {p} : pc'[q] = pc[q] /\ req'[q] = req[q]
      BY <2>1, <2>2 DEF Call, TypeOK
    <2> QED BY <2>2, <2>3 DEF FilesInv, store
  <1>3. ASSUME NEW p \in Procs, Acquire(p) \/ Fsync(p) \/ ReadCursors(p) PROVE FilesInv'
    <2>1. /\ store' = store /\ snap' = snap /\ found' = found /\ errors' = errors /\ req' = req
          /\ \A q \in Procs : pc'[q] \in Writers => pc'[q] = pc[q]
      BY <1>3 DEF Acquire, Fsync, ReadCursors, Goto, faults, TypeOK
    <2> QED BY <2>1 DEF FilesInv, store
  <1>4. ASSUME NEW p \in Procs, ScanMiss(p) PROVE FilesInv'
    <2>1. /\ store' = store /\ snap' = snap /\ found' = found /\ errors' = errors /\ req' = req
          /\ req[p].kind = "event" /\ \A q \in Procs \ {p} : pc'[q] = pc[q]
      BY <1>4 DEF ScanMiss, Goto, faults, TypeOK
    <2> QED BY <2>1 DEF FilesInv, store
  <1>5. ASSUME NEW p \in Procs,
               Replay(p) \/ SaveProject(p) \/ RebuildFails(p) \/ Crash(p)
        PROVE  FilesInv'
    <2>1. lines' = lines /\ files' = files /\ found' = found /\ errors' = errors /\ Return(p)
      BY <1>5 DEF Replay, SaveProject, RebuildFails, Crash, store, faults
    <2>2. project' = project \/ project'.lines = snap[p]
      BY <1>5 DEF Replay, SaveProject, RebuildFails, Crash, store
    <2>3. /\ snap'[p] = <<>> /\ pc'[p] = "idle"
          /\ \A q \in Procs \ {p} : pc'[q] = pc[q] /\ req'[q] = req[q] /\ snap'[q] = snap[q]
      BY <2>1 DEF Return, TypeOK
    <2>4. \A q \in Procs : snap'[q] = <<>> \/ snap'[q] = snap[q]
      BY <2>3
    <2>5. \A q \in Procs : pc'[q] \in Writers => pc'[q] = pc[q] /\ req'[q] = req[q]
      BY <2>3
    <2> QED BY <1>0, <2>1, <2>2, <2>4, <2>5 DEF FilesInv
  <1>6. ASSUME NEW p \in Procs, WriteCheckpointFile(p) PROVE FilesInv'
    <2>1. /\ lines' = lines /\ project' = project /\ snap' = snap /\ found' = found
          /\ errors' = errors /\ files' = files \cup {req[p].id}
      BY <1>6 DEF WriteCheckpointFile, faults
    <2>2. req' = [req EXCEPT ![p] = [req[p] EXCEPT !.off = Len(lines)]]
      BY <1>6 DEF WriteCheckpointFile
    <2>3. req'[p] = [req[p] EXCEPT !.off = Len(lines)] /\ req[p] \in Record
      BY <2>2 DEF TypeOK
    <2>4. req'[p].id = req[p].id
      BY <2>3 DEF Record
    <2>5. \A q \in Procs \ {p} : pc'[q] = pc[q] /\ req'[q] = req[q]
      BY <1>6, <2>2 DEF WriteCheckpointFile, Goto, TypeOK
    <2>6. files \subseteq files'
      BY <2>1
    <2> QED BY <2>1, <2>4, <2>5, <2>6, HaveMoreFiles DEF FilesInv
  <1>7. ASSUME NEW p \in Procs, WriteLine(p) \/ WritePart(p) \/ WriteRest(p) PROVE FilesInv'
    <2>1. /\ files' = files /\ project' = project /\ snap' = snap /\ found' = found
          /\ errors' = errors /\ req' = req /\ pc[p] \in {"write", "part", "glued"}
          /\ \A q \in Procs \ {p} : pc'[q] = pc[q]
      BY <1>7 DEF WriteLine, WritePart, WriteRest, Goto, faults, TypeOK
    <2>2. pc'[p] \in Writers => pc[p] \in Writers
      BY <1>7 DEF WriteLine, WritePart, WriteRest, Goto, TypeOK
    <2>3. lines \in Seq(Line) /\ req[p] \in Line /\ Torn \in Line
      BY DEF TypeOK, Line
    <2>4. ASSUME NEW l \in {Torn, req[p]}, lines' = AddLine(l)
          PROVE  \A i \in 1..Len(lines') : lines'[i] = Torn \/ lines'[i] = req[p]
                      \/ (i \in 1..Len(lines) /\ lines'[i] = lines[i])
      BY <2>3, <2>4 DEF AddLine
    <2>5. ASSUME NEW l \in {Torn, req[p]}, lines' = [lines EXCEPT ![Len(lines)] = l]
          PROVE  \A i \in 1..Len(lines') : lines'[i] = Torn \/ lines'[i] = req[p]
                      \/ (i \in 1..Len(lines) /\ lines'[i] = lines[i])
      BY <2>3, <2>5
    <2>6. CASE pc[p] \in Writers
      <3>1. \A i \in 1..Len(lines') : lines'[i] = Torn \/ lines'[i] = req[p]
                      \/ (i \in 1..Len(lines) /\ lines'[i] = lines[i])
        BY <1>7, <2>4, <2>5 DEF WriteLine, WritePart, WriteRest
      <3>2. errors = 0 =>
              HaveFiles(lines, files) /\ (req[p].kind = "checkpoint" => req[p].id \in files)
        BY <2>6 DEF FilesInv
      <3>3. errors = 0 => HaveFiles(lines', files)
        BY <3>1, <3>2 DEF HaveFiles, CheckpointsIn
      <3> QED BY <2>1, <2>2, <3>3 DEF FilesInv
    <2>7. CASE pc[p] = "glued"
      <3>1. lines' = [lines EXCEPT ![Len(lines)] = Torn]
        BY <1>7, <2>7 DEF WriteLine, WritePart, WriteRest
      <3>2. \A i \in 1..Len(lines') : lines'[i] = Torn \/ lines'[i] = NoReq
                      \/ (i \in 1..Len(lines) /\ lines'[i] = lines[i])
        BY <2>3, <3>1
      <3>3. errors = 0 => HaveFiles(lines', files)
        <4>1. errors = 0 => HaveFiles(lines, files)
          BY DEF FilesInv
        <4> QED BY <1>0, <3>2, <4>1 DEF HaveFiles, CheckpointsIn
      <3> QED BY <2>1, <2>2, <2>7, <3>3 DEF FilesInv
    <2> QED BY <2>1, <2>6, <2>7
  <1>8. ASSUME NEW p \in Procs, ReadForSummary(p) PROVE FilesInv'
    <2>1. store' = store /\ found' = found /\ errors' = errors /\ req' = req
      BY <1>8 DEF ReadForSummary, faults
    <2>2. /\ \A q \in Procs : pc'[q] \in Writers => pc'[q] = pc[q]
          /\ \A q \in Procs : snap'[q] = lines \/ snap'[q] = snap[q]
      BY <1>8 DEF ReadForSummary, Goto, TypeOK
    <2> QED BY <2>1, <2>2 DEF FilesInv, store
  <1>9. ASSUME NEW p \in Procs, Recover(p) PROVE FilesInv'
    <2>1. PICK i \in LatestCheckpoint(project.lines) :
            found' = found \cup {[id |-> project.lines[i].id,
                                  exists |-> project.lines[i].id \in files]}
      BY <1>9 DEF Recover
    <2>2. errors = 0 => project.lines[i].id \in files
      BY DEF FilesInv, HaveFiles, LatestCheckpoint
    <2>3. errors = 0 => \A f \in found' : f.exists
      <3> DEFINE new == [id |-> project.lines[i].id, exists |-> project.lines[i].id \in files]
      <3>1. errors = 0 => \A f \in found : f.exists
        BY DEF FilesInv
      <3>2. errors = 0 => new.exists
        BY <2>2
      <3>3. found' = found \cup {new}
        BY <2>1
      <3> HIDE DEF new
      <3> QED BY <3>1, <3>2, <3>3
    <2> QED BY <1>9, <2>3 DEF Recover, FilesInv, store, local, faults
  <1>10. CASE UNCHANGED vars
    BY <1>10 DEF vars, store, local, faults, FilesInv
  <1> QED BY <1>1, <1>2, <1>3, <1>4, <1>5, <1>6, <1>7, <1>8, <1>9, <1>10 DEF Next, Step, Rest

\* The invariant of the checkpoint files holds in every behaviour.
LEMMA FilesInvariant == Spec => []FilesInv
  <1>1. Init => FilesInv
    BY DEF Init, FilesInv, HaveFiles, CheckpointsIn
  <1>2. TypeOK /\ FilesInv /\ [Next]_vars => FilesInv'
    BY FilesStep
  <1> QED BY <1>1, <1>2, StoreTypeOK, PTL DEF Spec

\* Every checkpoint record that can be read names a file that exists, with or
\* without a lock that works, until a write raises.
THEOREM StoreCheckpointHasFile == Spec => []CheckpointHasFile
  <1>1. FilesInv => CheckpointHasFile
    BY DEF FilesInv, CheckpointHasFile
  <1> QED BY <1>1, FilesInvariant, PTL

\* recover without checkpoint_id finds the file of the checkpoint it is sent
\* to, until a write raises.
THEOREM StoreRecoverNotDangling == Spec => []RecoverNotDangling
  <1>1. FilesInv => RecoverNotDangling
    BY DEF FilesInv, RecoverNotDangling
  <1> QED BY <1>1, FilesInvariant, PTL

-----------------------------------------------------------------------------
(* One server on its own.                                                  *)

\* Nothing happens between the two reads of a server that is alone.
LEMMA SoloStep ==
    ASSUME NEW s, Procs = {s}, TypeOK, SoloInv, [Next]_vars PROVE SoloInv'
  <1>0. s \in Procs /\ Cursors.lines = lines
    BY DEF Cursors
  <1>1. CASE ReadForSummary(s)
    BY <1>0, <1>1 DEF ReadForSummary, Goto, store, SoloInv, TypeOK
  <1>2. CASE ReadCursors(s)
    <2>1. pc' = [pc EXCEPT ![s] = "save"] /\ cursor' = [cursor EXCEPT ![s] = Cursors]
          /\ snap' = snap /\ lines' = lines /\ open' = open /\ files' = files
          /\ project' = project /\ pc[s] = "cursors"
      BY <1>2 DEF ReadCursors, Goto, store
    <2>2. pc'[s] = "save" /\ cursor'[s] = Cursors /\ snap'[s] = lines
      BY <1>0, <2>1 DEF TypeOK, SoloInv
    <2>3. Cursors' = Cursors
      BY <2>1 DEF Cursors
    <2> QED BY <2>1, <2>2, <2>3 DEF SoloInv
  <1>3. CASE SaveProject(s)
    <2>1. project' = [lines |-> snap[s], cursor |-> cursor[s], present |-> TRUE]
          /\ snap[s] = lines /\ cursor[s] = Cursors
      BY <1>0, <1>3 DEF SaveProject, SoloInv
    <2>2. pc'[s] = "idle"
      BY <1>0, <1>3 DEF SaveProject, Return, TypeOK
    <2>3. project'.lines = project'.cursor.lines
      BY <1>0, <2>1
    <2> QED BY <2>2, <2>3 DEF SoloInv
  <1>4. CASE RecordEvent(s) \/ CreateCheckpoint(s) \/ Acquire(s) \/ Replay(s) \/ ScanMiss(s)
             \/ WriteCheckpointFile(s) \/ WriteLine(s) \/ WritePart(s) \/ WriteRest(s) \/ Fsync(s)
             \/ WriteFails(s) \/ RebuildFails(s) \/ Crash(s)
    <2>1. project' = project /\ pc'[s] \notin {"cursors", "save"}
      BY <1>0, <1>4 DEF RecordEvent, CreateCheckpoint, Call, Acquire, Replay, ScanMiss,
           WriteCheckpointFile, WriteLine, WritePart, WriteRest, Fsync, WriteFails,
           RebuildFails, Crash, Goto, Return, store, TypeOK
    <2> QED BY <2>1 DEF SoloInv
  <1>5. CASE Recover(s) \/ UNCHANGED vars
    <2>1. store' = store /\ local' = local
      BY <1>5 DEF Recover, vars
    <2> QED BY <2>1 DEF SoloInv, Cursors, store, local
  <1> QED BY <1>1, <1>2, <1>3, <1>4, <1>5 DEF Next, Step, Rest

\* With a single server, a summary that project_summary_is_stale calls current
\* tells what the records tell, whatever crashes, whatever is cut short and
\* whatever raises.
THEOREM StoreSoloFresh ==
    ASSUME NEW s, Procs = {s} PROVE Spec => []FreshMeansCurrent
  <1>1. Init => SoloInv
    BY DEF Init, SoloInv
  <1>2. TypeOK /\ SoloInv /\ [Next]_vars => SoloInv'
    BY SoloStep
  <1>3. SoloInv => FreshMeansCurrent
    <2>1. Cursors.lines = lines
      BY DEF Cursors
    <2> QED BY <2>1 DEF SoloInv, FreshMeansCurrent, Stale
  <1> QED BY <1>1, <1>2, <1>3, StoreTypeOK, PTL DEF Spec

-----------------------------------------------------------------------------
(* The store implements the abstract history.                              *)

\* No write has been cut short.
NothingTorn == torn = 0

\* Each step of the store appends one record with a new key, tells a caller of
\* a record of the history, or does neither.
LEMMA AbstractStep ==
    ASSUME TypeOK, LockedInv, DurableInv, NothingTorn, NothingTorn', [Next]_vars
    PROVE  [Log!LogNext]_(Log!lvars)
  <1> USE DEF NothingTorn
  <1>0. ~open /\ \A p \in Procs : pc[p] \notin {"part", "glued"}
    BY DEF DurableInv
  <1>1. ASSUME NEW p \in Procs, WriteLine(p) PROVE Log!LogAppend
    <2>1. pc[p] = "write" /\ lines' = AddLine(req[p]) /\ acked' = acked
      BY <1>1 DEF WriteLine
    <2>2. lines' = Append(lines, req[p]) /\ lines \in Seq(Line) /\ req[p] \in Line
      BY <1>0, <2>1 DEF AddLine, TypeOK, Line
    <2>3. Len(lines') = Len(lines) + 1 /\ lines'[Len(lines')] = req[p]
      BY <2>2
    <2>4. \A i \in 1..Len(lines) : lines[i] # Torn
      BY DEF DurableInv
    <2>5. KeyFree(req[p], lines, Len(lines) + 1)
      BY <2>1 DEF LockedInv, WriterInv
    <2>6. 1..(Len(lines) + 1 - 1) = 1..Len(lines)
      BY <2>2
    <2>7. Log!KeyUnused(req[p])
      BY <2>4, <2>5, <2>6 DEF Log!KeyUnused, KeyFree
    <2> QED BY <2>1, <2>2, <2>3, <2>7 DEF Log!LogAppend
  <1>2. ASSUME NEW p \in Procs, Replay(p) PROVE Log!LogAck
    <2>1. PICK i \in Existing(req[p].key) : acked' = acked \cup {lines[i]}
      BY <1>2 DEF Replay
    <2> QED BY <1>2, <2>1 DEF Replay, store, Existing, Log!LogAck
  <1>3. ASSUME NEW p \in Procs, SaveProject(p) \/ RebuildFails(p)
        PROVE  Log!LogAck \/ UNCHANGED <<lines, acked>>
    <2>1. lines' = lines /\ (acked' = acked \/ acked' = acked \cup {req[p]})
      BY <1>3 DEF SaveProject, RebuildFails, store
    <2>2. \E i \in 1..Len(lines) : lines[i] = req[p]
      BY <1>3 DEF SaveProject, RebuildFails, DurableInv, InFile
    <2> QED BY <2>1, <2>2 DEF Log!LogAck
  <1>4. ASSUME NEW p \in Procs, WritePart(p) \/ WriteRest(p) PROVE FALSE
    BY <1>0, <1>4 DEF WritePart, WriteRest
  <1>5. ASSUME NEW p \in Procs,
               RecordEvent(p) \/ CreateCheckpoint(p) \/ Acquire(p) \/ ScanMiss(p)
               \/ WriteCheckpointFile(p) \/ Fsync(p) \/ WriteFails(p) \/ ReadForSummary(p)
               \/ ReadCursors(p) \/ Recover(p) \/ Crash(p)
        PROVE  UNCHANGED <<lines, acked>>
    BY <1>5 DEF RecordEvent, CreateCheckpoint, Call, Acquire, ScanMiss, WriteCheckpointFile,
                Fsync, WriteFails, ReadForSummary, ReadCursors, Recover, Crash, store
  <1>6. CASE UNCHANGED vars
    BY <1>6 DEF vars, store, Log!lvars
  <1> QED BY <1>1, <1>2, <1>3, <1>4, <1>5, <1>6 DEF Next, Step, Rest, Log!LogNext, Log!lvars

\* Where the lock works, records.jsonl is the abstract history until a write is
\* cut short: it only grows, a key enters it once, and callers are only told of
\* what is in it.
THEOREM StoreImplementsLog == ASSUME LockWorks PROVE Spec => Abstract
  <1>1. Init => Log!LogInit
    BY DEF Init, Log!LogInit
  <1>2. TypeOK /\ LockedInv /\ DurableInv /\ [Next]_vars
          => (torn = 0 /\ torn' = 0 => [Log!LogNext]_(Log!lvars))
    <2> SUFFICES ASSUME TypeOK, LockedInv, DurableInv, [Next]_vars, torn = 0, torn' = 0
                 PROVE  [Log!LogNext]_(Log!lvars)
      OBVIOUS
    <2> NothingTorn /\ NothingTorn'
      BY DEF NothingTorn
    <2> QED BY AbstractStep
  <1>3. Spec => [](TypeOK /\ LockedInv /\ DurableInv)
    BY StoreTypeOK, LockedInvariant, DurableInvariant, PTL
  <1>4. Spec => Log!LogInit /\ [][torn = 0 /\ torn' = 0 => [Log!LogNext]_(Log!lvars)]_vars
    BY <1>1, <1>2, <1>3, PTL DEF Spec
  <1> QED BY <1>4, PTL DEF Abstract
=============================================================================
