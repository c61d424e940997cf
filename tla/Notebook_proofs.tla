--------------------------- MODULE Notebook_proofs ---------------------------
(***************************************************************************)
(* Proofs about Notebook, for any number of server processes, experiments, *)
(* attempts, keys, calls, crashes and errors.                              *)
(***************************************************************************)
EXTENDS Notebook, SequenceTheorems, FiniteSetTheorems, WellFoundedInduction, TLAPS

Line == Entry \cup {Broken}

\* A process that has started a file and not yet written into it.
Creating == {"lockNew", "newLocked"}

\* A process whose entry is not in a file yet.
Asking == {"check", "open", "lock", "locked", "write"} \cup Creating

\* A process whose entry is in the file.
Written == {"fsync", "list", "parse"}

\* A process in the locked part of a call holds the lock.
LockInv == \A p \in Procs : pc[p] \in InLock => holder[X(p)] = p

\* As long as no write has stopped part-way, none is part of the way, no marker
\* is open, and what has entries parses.
FileInv ==
    /\ open = {}
    /\ \A p \in Procs : pc[p] \notin {"newPart", "part", "glued"}
    /\ \A x \in Exps : entries[x] # <<>> => x \in present /\ Readable(x)

\* A file that is being created is empty, and one process creates it.
CreateInv ==
    /\ \A p \in Procs : pc[p] \in Creating => X(p) \in present /\ entries[X(p)] = <<>>
    /\ \A p, q \in Procs : pc[p] \in Creating /\ pc[q] \in Creating /\ X(p) = X(q) => p = q

\* The first entry of a notebook is an experiment entry without an attempt;
\* what is written at the end of one is still new and valid when it is.
RequestInv ==
    /\ \A p \in Procs : pc[p] \in {"check", "open"} \cup Creating =>
            E(p).type = "experiment" /\ E(p).attempt = NoAttempt
    /\ \A p \in Procs : pc[p] = "write" =>
            Readable(X(p)) /\ IsNew(X(p), E(p)) /\ Valid(E(p), entries[X(p)])

\* The id of an entry that is not written yet is nobody else's.
IdInv ==
    /\ \A x \in Exps : \A i \in 1..Len(entries[x]) : entries[x][i] # Broken => entries[x][i].id < nextId
    /\ \A p \in Procs : pc[p] \in Asking =>
            /\ E(p).id < nextId
            /\ \A x \in Exps : \A i \in 1..Len(entries[x]) :
                    entries[x][i] # Broken => entries[x][i].id # E(p).id
            /\ \A q \in Procs : pc[q] \in Asking /\ q # p => E(q).id # E(p).id

\* r.entry is an entry of the notebook r.exp.
IsIn(r) == \E i \in 1..Len(entries[r.exp]) : entries[r.exp][i] = r.entry

\* What a call is going to answer, or has answered, is in its notebook.
DoneInv ==
    /\ \A p \in Procs : pc[p] \in Written => IsIn(req[p])
    /\ \A r \in acked : IsIn(r)

WholeInv == torn = 0 => FileInv /\ CreateInv /\ RequestInv /\ IdInv /\ DoneInv

Inv == TypeOK /\ LockInv /\ WholeInv

-----------------------------------------------------------------------------
(* Sequences of entries.                                                   *)

\* The part of a longer sequence that was there before is as it was.
LEMMA PrefixOfAppend ==
    ASSUME NEW S, NEW es \in Seq(S), NEW e \in S, NEW n \in 0..Len(es)
    PROVE  SubSeq(Append(es, e), 1, n) = SubSeq(es, 1, n)
  <1> DEFINE a == Append(es, e)
             s == SubSeq(a, 1, n)
             t == SubSeq(es, 1, n)
  <1>1. a \in Seq(S) /\ Len(a) = Len(es) + 1 /\ \A i \in 1..Len(es) : a[i] = es[i]
    BY AppendProperties
  <1>2. \A i \in 1..n : a[i] \in S /\ es[i] \in S /\ a[i] = es[i]
    BY <1>1
  <1> HIDE DEF a
  <1>3. s \in Seq(S) /\ Len(s) = n /\ \A i \in 1..n : s[i] = a[i]
    <2>1. /\ s \in Seq(S) /\ Len(s) = (IF 1 <= n THEN n - 1 + 1 ELSE 0)
          /\ \A i \in 1..(n - 1 + 1) : s[i] = a[1 + i - 1]
      BY <1>2, SubSeqProperties
    <2> QED BY <2>1
  <1>4. t \in Seq(S) /\ Len(t) = n /\ \A i \in 1..n : t[i] = es[i]
    <2>1. /\ t \in Seq(S) /\ Len(t) = (IF 1 <= n THEN n - 1 + 1 ELSE 0)
          /\ \A i \in 1..(n - 1 + 1) : t[i] = es[1 + i - 1]
      BY <1>2, SubSeqProperties
    <2> QED BY <2>1
  <1> HIDE DEF s, t
  <1>5. s = t
    BY <1>2, <1>3, <1>4, SeqEqual
  <1> QED BY <1>5 DEF s, t, a

\* _validate_entry: a notebook that parses still parses after an entry that is
\* valid in it and has an id and a key of its own.
LEMMA ParsesAppend ==
    ASSUME NEW es \in Seq(Line), Parses(es), NEW e \in Entry, Valid(e, es),
           \A i \in 1..Len(es) : es[i].id # e.id,
           e.key = NoKey \/ \A i \in 1..Len(es) : es[i].key # e.key
    PROVE  Parses(Append(es, e))
  <1> DEFINE a == Append(es, e)
             n == Len(es)
  <1>1. e \in Line /\ e # Broken /\ n \in Nat
    BY BrokenIsNoEntry DEF Line
  <1>2. Len(a) = n + 1 /\ (\A i \in 1..n : a[i] = es[i]) /\ a[n + 1] = e
    BY <1>1, AppendProperties
  <1>3. \A i \in 1..(n + 1) : i \in 1..n \/ i = n + 1
    BY <1>1
  <1>4. \A i \in 1..n : Valid(a[i], SubSeq(a, 1, i - 1))
    <2> SUFFICES ASSUME NEW i \in 1..n PROVE Valid(a[i], SubSeq(a, 1, i - 1))
      OBVIOUS
    <2>1. i - 1 \in 0..n
      BY <1>1
    <2>2. SubSeq(a, 1, i - 1) = SubSeq(es, 1, i - 1)
      BY <1>1, <2>1, PrefixOfAppend
    <2>3. Valid(es[i], SubSeq(es, 1, i - 1))
      BY DEF Parses
    <2> QED BY <1>2, <2>2, <2>3
  <1>5. ASSUME NEW i, i = n + 1 PROVE Valid(a[i], SubSeq(a, 1, i - 1))
    <2>1. SubSeq(a, 1, n) = es
      BY <1>1, PrefixOfAppend, SubSeqFull
    <2>2. i - 1 = n
      BY <1>1, <1>5
    <2>3. a[i] = e
      BY <1>2, <1>5
    <2> QED BY <2>1, <2>2, <2>3
  <1>6. /\ n > 0 /\ es[1].type = "experiment"
        /\ \A i \in 1..n : es[i] # Broken
        /\ \A i, j \in 1..n : i # j => /\ es[i].id # es[j].id
                                       /\ es[i].key # NoKey => es[i].key # es[j].key
    BY DEF Parses
  <1> HIDE DEF a, n
  <1>7. Len(a) > 0 /\ a[1].type = "experiment"
    BY <1>1, <1>2, <1>6
  <1>8. \A i \in 1..Len(a) : a[i] # Broken
    BY <1>1, <1>2, <1>3, <1>6
  <1>9. \A i \in 1..Len(a) : Valid(a[i], SubSeq(a, 1, i - 1))
    <2> SUFFICES ASSUME NEW i \in 1..(n + 1) PROVE Valid(a[i], SubSeq(a, 1, i - 1))
      BY <1>2
    <2>1. CASE i \in 1..n
      BY <1>4, <2>1
    <2>2. CASE i = n + 1
      BY <1>5, <2>2
    <2> QED BY <1>3, <2>1, <2>2
  <1>10. \A i, j \in 1..Len(a) : i # j => /\ a[i].id # a[j].id
                                          /\ a[i].key # NoKey => a[i].key # a[j].key
    <2> SUFFICES ASSUME NEW i \in 1..(n + 1), NEW j \in 1..(n + 1), i # j
                 PROVE  a[i].id # a[j].id /\ (a[i].key # NoKey => a[i].key # a[j].key)
      BY <1>2
    <2>1. CASE i \in 1..n /\ j \in 1..n
      BY <1>2, <1>6, <2>1
    <2>2. CASE i \in 1..n /\ j = n + 1
      <3>1. a[i] = es[i] /\ a[j] = e /\ es[i].id # e.id
        BY <1>2, <2>2 DEF n
      <3> QED BY <2>2, <3>1 DEF n
    <2>3. CASE i = n + 1 /\ j \in 1..n
      <3>1. a[j] = es[j] /\ a[i] = e /\ es[j].id # e.id
        BY <1>2, <2>3 DEF n
      <3> QED BY <2>3, <3>1 DEF n
    <2> QED BY <1>3, <2>1, <2>2, <2>3
  <1> QED BY <1>7, <1>8, <1>9, <1>10 DEF Parses, a

\* A notebook of one experiment entry parses.
LEMMA ParsesFirst ==
    ASSUME NEW e \in Entry, e.type = "experiment", e.attempt = NoAttempt
    PROVE  Parses(<<e>>)
  <1>1. Len(<<e>>) = 1 /\ <<e>>[1] = e /\ e # Broken /\ \A i \in 1..1 : i = 1
    BY BrokenIsNoEntry
  <1>2. Valid(e, SubSeq(<<e>>, 1, 1 - 1))
    BY DEF Valid
  <1> QED BY <1>1, <1>2 DEF Parses

-----------------------------------------------------------------------------
(* Types.                                                                  *)

\* NoEntry is an entry.
LEMMA NoEntryType == NoEntry \in Entry
  BY DEF NoEntry, Entry, Types, Statuses

\* The initial state satisfies the invariant.
LEMMA InitInv == Init => Inv
  <1> SUFFICES ASSUME Init PROVE Inv
    OBVIOUS
  <1>1. (CHOOSE x \in Exps : TRUE) \in Exps
    BY NotebookAssumption
  <1>2. TypeOK
    BY <1>1, NoEntryType DEF Init, TypeOK, PCs
  <1>3. LockInv
    BY DEF Init, LockInv, InLock
  <1>4. FileInv /\ CreateInv
    BY DEF Init, FileInv, CreateInv, Creating
  <1>5. RequestInv
    BY DEF Init, RequestInv, Creating
  <1>6. IdInv /\ DoneInv
    BY DEF Init, IdInv, DoneInv, Asking, Creating, Written
  <1> QED BY <1>2, <1>3, <1>4, <1>5, <1>6 DEF Inv, WholeInv

\* The end of a call keeps the types.
LEMMA ReturnType ==
    ASSUME TypeOK, NEW p \in Procs, Return(p)
    PROVE  /\ pc' \in [Procs -> PCs]
           /\ req' \in [Procs -> [exp : Exps, entry : Entry]]
           /\ todo' \in [Procs -> SUBSET Exps]
  BY NoEntryType DEF TypeOK, Return, PCs

\* A new call keeps the types.
LEMMA CallType ==
    ASSUME TypeOK, NEW p \in Procs, NEW x \in Exps, NEW type \in Types, NEW status \in Statuses \cup {"none"},
           NEW attempt \in Attempts \cup {NoAttempt}, NEW key \in Keys \cup {NoKey}, NEW at \in PCs,
           Call(p, x, type, status, attempt, key, at)
    PROVE  TypeOK'
  <1>1. nextId \in Nat /\ nextId' \in Nat
    BY DEF TypeOK, Call
  <1>2. [id |-> nextId, type |-> type, attempt |-> attempt, key |-> key, status |-> status] \in Entry
    BY <1>1 DEF Entry
  <1>3. req' \in [Procs -> [exp : Exps, entry : Entry]] /\ pc' \in [Procs -> PCs]
    BY <1>2 DEF TypeOK, Call, Goto
  <1> QED BY <1>1, <1>3 DEF TypeOK, Call, books, faults

\* The entries of a notebook stay a sequence of lines.
LEMMA EntriesType ==
    ASSUME TypeOK, NEW x \in Exps, NEW es \in Seq(Line)
    PROVE  [entries EXCEPT ![x] = es] \in [Exps -> Seq(Line)]
  BY DEF TypeOK, Line

\* No step takes a variable out of its type.
LEMMA NextType == TypeOK /\ [Next]_vars => TypeOK'
  <1> SUFFICES ASSUME TypeOK, [Next]_vars PROVE TypeOK'
    OBVIOUS
  <1>1. CASE UNCHANGED vars
    BY <1>1 DEF TypeOK, vars, books, local, faults
  <1>2. ASSUME NEW p \in Procs, CreateExperiment(p) PROVE TypeOK'
    <2>1. PICK x \in Exps, k \in Keys \cup {NoKey} :
            Call(p, x, "experiment", "active", NoAttempt, k, "check")
      BY <1>2 DEF CreateExperiment
    <2> QED BY <2>1, CallType DEF Types, Statuses, PCs
  <1>3. ASSUME NEW p \in Procs, AppendEntry(p) PROVE TypeOK'
    <2>1. PICK x \in present, t \in Types, a \in Attempts \cup {NoAttempt}, k \in Keys \cup {NoKey} :
            \E s \in {"none"} \cup IF t = "experiment" THEN Updates ELSE {} : Call(p, x, t, s, a, k, "lock")
      BY <1>3 DEF AppendEntry
    <2>2. PICK s \in Statuses \cup {"none"} : Call(p, x, t, s, a, k, "lock")
      BY <2>1 DEF Statuses
    <2>3. x \in Exps /\ "lock" \in PCs
      BY DEF TypeOK, PCs
    <2> QED BY <2>2, <2>3, CallType
  <1>4. ASSUME NEW p \in Procs, Step(p) \/ WriteFails(p) \/ Crash(p) PROVE TypeOK'
    <2> USE DEF books, local, faults
    <2>1. /\ X(p) \in Exps /\ E(p) \in Entry /\ entries[X(p)] \in Seq(Line)
          /\ pc \in [Procs -> PCs]
      BY DEF TypeOK, X, E, Line
    <2>2. /\ InLock \subseteq PCs
          /\ {"list", "parse", "open", "lockNew", "idle"} \subseteq PCs
      BY DEF PCs, InLock
    <2>3. holder' = [holder EXCEPT ![X(p)] = NoProc] => holder' \in [Exps -> Procs \cup {NoProc}]
      BY <2>1 DEF TypeOK
    <2>4. CASE CreateReplay(p)
      <3>1. entries[X(p)][1] \in Entry
        BY <2>1, <2>4 DEF CreateReplay, Readable, Parses, Line
      <3>2. req' \in [Procs -> [exp : Exps, entry : Entry]]
        BY <2>1, <2>4, <3>1 DEF CreateReplay, TypeOK
      <3> QED BY <2>2, <2>4, <3>2 DEF CreateReplay, Goto, TypeOK
    <2>5. CASE CreateRefused(p) \/ OpenExists(p)
      BY <2>5, ReturnType DEF CreateRefused, OpenExists, TypeOK
    <2>6. CASE CreateMissing(p) \/ OpenNew(p)
      BY <2>1, <2>2, <2>6 DEF CreateMissing, OpenNew, Goto, TypeOK
    <2>7. CASE Acquire(p)
      <3>1. (IF pc[p] = "lock" THEN "locked" ELSE "newLocked") \in PCs
        BY <2>2 DEF InLock
      <3> QED BY <2>1, <2>7, <3>1 DEF Acquire, Goto, TypeOK
    <2>8. CASE WriteNew(p)
      <3>1. <<E(p)>> \in Seq(Line)
        BY <2>1 DEF Line
      <3>2. entries' \in [Exps -> Seq(Line)]
        BY <2>1, <2>8, <3>1, EntriesType DEF WriteNew
      <3> QED BY <2>1, <2>2, <2>8, <3>2 DEF WriteNew, Goto, TypeOK, Line, InLock
    <2>9. CASE WriteNewPart(p)
      <3>1. headed' \in SUBSET Exps /\ open' \in SUBSET Exps /\ torn' \in Nat
        BY <2>1, <2>9 DEF WriteNewPart, TypeOK
      <3> QED BY <2>2, <2>9, <3>1 DEF WriteNewPart, Goto, TypeOK, InLock
    <2>10. CASE AppendReplay(p)
      <3>1. PICK i \in Existing(X(p), E(p).key) : req' = [req EXCEPT ![p].entry = entries[X(p)][i]]
        BY <2>10 DEF AppendReplay
      <3>2. entries[X(p)][i] \in Entry
        BY <2>1 DEF Existing, Line
      <3>3. req' \in [Procs -> [exp : Exps, entry : Entry]]
        BY <2>1, <3>1, <3>2 DEF TypeOK
      <3> QED BY <2>2, <2>3, <2>10, <3>3 DEF AppendReplay, Release, Goto, TypeOK
    <2>11. CASE AppendRefused(p)
      BY <2>3, <2>11, ReturnType DEF AppendRefused, Release, TypeOK
    <2>12. CASE AppendAccepted(p)
      BY <2>2, <2>12 DEF AppendAccepted, Goto, TypeOK, InLock
    <2>13. CASE WriteEntry(p)
      <3>1. (IF X(p) \in open THEN Broken ELSE E(p)) \in Line
        BY <2>1 DEF Line
      <3>2. Closed(X(p), E(p)) \in Seq(Line)
        BY <2>1, <3>1, AppendProperties DEF Closed
      <3>3. entries' \in [Exps -> Seq(Line)]
        BY <2>1, <2>13, <3>2, EntriesType DEF WriteEntry
      <3> QED BY <2>1, <2>2, <2>13, <3>3 DEF WriteEntry, Goto, TypeOK, Line, InLock
    <2>14. CASE WritePart(p)
      <3>1. headed' \in SUBSET Exps /\ open' \in SUBSET Exps /\ torn' \in Nat
        BY <2>1, <2>14 DEF WritePart, TypeOK
      <3>2. (IF X(p) \in open THEN "glued" ELSE "part") \in PCs
        BY <2>2 DEF InLock
      <3> QED BY <2>14, <3>1, <3>2 DEF WritePart, Goto, TypeOK
    <2>15. CASE WriteRest(p)
      <3> DEFINE l == IF pc[p] = "part" THEN E(p) ELSE Broken
      <3>1. l \in Line
        BY <2>1 DEF Line
      <3>2. Append(entries[X(p)], l) \in Seq(Line)
        BY <2>1, <3>1, AppendProperties
      <3>3. entries' = [entries EXCEPT ![X(p)] = Append(entries[X(p)], l)]
        BY <2>15 DEF WriteRest
      <3> HIDE DEF l
      <3>4. entries' \in [Exps -> Seq(Line)]
        BY <2>1, <3>2, <3>3, EntriesType
      <3> QED BY <2>1, <2>2, <2>15, <3>4 DEF WriteRest, Goto, TypeOK, Line, InLock
    <2>16. CASE Fsync(p)
      BY <2>2, <2>3, <2>16 DEF Fsync, Release, Goto, TypeOK
    <2>17. CASE ListBooks(p) \/ ParseBook(p)
      BY <2>2, <2>17 DEF ListBooks, ParseBook, Goto, TypeOK
    <2>18. CASE RebuildFails(p)
      BY <2>18, ReturnType DEF RebuildFails, TypeOK
    <2>19. CASE Answer(p)
      BY <2>19, ReturnType DEF Answer, TypeOK
    <2>20. CASE WriteFails(p)
      BY <2>3, <2>20, ReturnType DEF WriteFails, Release, TypeOK
    <2>21. CASE Crash(p)
      BY <2>21, ReturnType DEF Crash, TypeOK
    <2> QED BY <1>4, <2>4, <2>5, <2>6, <2>7, <2>8, <2>9, <2>10, <2>11, <2>12, <2>13, <2>14, <2>15,
               <2>16, <2>17, <2>18, <2>19, <2>20, <2>21 DEF Step
  <1> QED BY <1>1, <1>2, <1>3, <1>4 DEF Next, Rest

-----------------------------------------------------------------------------
(* What a step of one process leaves of the others, and of the notebooks.  *)

Acts(p) == CreateExperiment(p) \/ AppendEntry(p) \/ Step(p) \/ WriteFails(p) \/ Crash(p)

\* A step of one process changes no other process.
LEMMA OthersKeep ==
    ASSUME TypeOK, NEW p \in Procs, Acts(p), NEW q \in Procs, q # p
    PROVE  pc'[q] = pc[q] /\ req'[q] = req[q]
  <1>1. pc \in [Procs -> PCs] /\ req \in [Procs -> [exp : Exps, entry : Entry]]
    BY DEF TypeOK
  <1>2. Return(p) => pc'[q] = pc[q] /\ req'[q] = req[q]
    BY <1>1 DEF Return
  <1>3. CASE CreateExperiment(p) \/ AppendEntry(p)
    BY <1>1, <1>3 DEF CreateExperiment, AppendEntry, Call, Goto
  <1>4. CASE CreateReplay(p) \/ CreateMissing(p) \/ OpenNew(p) \/ Acquire(p) \/ AppendReplay(p) \/ AppendAccepted(p)
    BY <1>1, <1>4 DEF CreateReplay, CreateMissing, OpenNew, Acquire, AppendReplay, AppendAccepted, Goto
  <1>5. CASE WriteNew(p) \/ WriteNewPart(p) \/ WriteEntry(p) \/ WritePart(p) \/ WriteRest(p) \/ Fsync(p)
             \/ ListBooks(p) \/ ParseBook(p)
    BY <1>1, <1>5 DEF WriteNew, WriteNewPart, WriteEntry, WritePart, WriteRest, Fsync, ListBooks, ParseBook, Goto
  <1>6. CASE CreateRefused(p) \/ OpenExists(p) \/ AppendRefused(p) \/ RebuildFails(p) \/ Answer(p)
             \/ WriteFails(p) \/ Crash(p)
    BY <1>2, <1>6 DEF CreateRefused, OpenExists, AppendRefused, RebuildFails, Answer, WriteFails, Crash
  <1> QED BY <1>3, <1>4, <1>5, <1>6 DEF Acts, Step

\* _locked_file: no process is in the locked part of a call without its lock.
LEMMA NextLock ==
    ASSUME TypeOK, LockInv, [Next]_vars
    PROVE  LockInv'
  <1> SUFFICES ASSUME NEW q \in Procs, pc'[q] \in InLock PROVE holder'[req'[q].exp] = q
    BY DEF LockInv, X
  <1>1. /\ holder \in [Exps -> Procs \cup {NoProc}] /\ X(q) \in Exps /\ X(q) = req[q].exp
        /\ pc \in [Procs -> PCs] /\ req \in [Procs -> [exp : Exps, entry : Entry]]
    BY DEF TypeOK, X
  <1>2. CASE UNCHANGED vars
    BY <1>1, <1>2 DEF LockInv, vars, local
  <1>3. ASSUME NEW p \in Procs, Acts(p) PROVE holder'[req'[q].exp] = q
    <2>1. X(p) \in Exps /\ (pc[p] \in InLock => holder[X(p)] = p)
      BY DEF TypeOK, X, LockInv
    <2>2. CASE q # p
      <3>1. req'[q].exp = X(q) /\ holder[X(q)] = q
        BY <1>1, <1>3, <2>2, OthersKeep DEF LockInv
      <3>2. CASE UNCHANGED holder
        BY <3>1, <3>2
      <3>3. CASE pc[p] \in InLock /\ Release(p)
        BY <1>1, <2>1, <2>2, <3>1, <3>3 DEF Release
      <3>4. CASE Acquire(p)
        BY <1>1, <2>1, <3>1, <3>4, NotebookAssumption DEF Acquire
      <3>5. CASE Crash(p)
        BY <1>1, <2>2, <3>1, <3>5 DEF Crash
      <3>6. CASE CreateExperiment(p) \/ AppendEntry(p)
        BY <3>2, <3>6 DEF CreateExperiment, AppendEntry, Call
      <3>7. CASE CreateReplay(p) \/ CreateRefused(p) \/ CreateMissing(p) \/ OpenNew(p) \/ OpenExists(p)
                 \/ WriteNew(p) \/ WriteNewPart(p) \/ AppendAccepted(p) \/ WriteEntry(p) \/ WritePart(p)
                 \/ WriteRest(p) \/ ListBooks(p) \/ ParseBook(p) \/ RebuildFails(p) \/ Answer(p)
        BY <3>2, <3>7 DEF CreateReplay, CreateRefused, CreateMissing, OpenNew, OpenExists, WriteNew, WriteNewPart,
                          AppendAccepted, WriteEntry, WritePart, WriteRest, ListBooks, ParseBook, RebuildFails, Answer
      <3>8. CASE AppendReplay(p) \/ AppendRefused(p) \/ Fsync(p) \/ WriteFails(p)
        BY <3>3, <3>8 DEF AppendReplay, AppendRefused, Fsync, WriteFails, InLock
      <3> QED BY <1>3, <3>4, <3>5, <3>6, <3>7, <3>8 DEF Acts, Step
    <2>3. CASE q = p
      <3>1. CASE Acquire(p)
        BY <1>1, <2>1, <2>3, <3>1 DEF Acquire
      <3>2. CASE AppendAccepted(p) \/ WriteNew(p) \/ WriteNewPart(p) \/ WriteEntry(p) \/ WritePart(p) \/ WriteRest(p)
        BY <1>1, <2>1, <2>3, <3>2 DEF AppendAccepted, WriteNew, WriteNewPart, WriteEntry, WritePart, WriteRest, InLock
      <3>3. CASE CreateExperiment(p) \/ AppendEntry(p)
        BY <1>1, <2>3, <3>3 DEF CreateExperiment, AppendEntry, Call, Goto, InLock
      <3>4. CASE CreateReplay(p) \/ CreateMissing(p) \/ OpenNew(p) \/ AppendReplay(p) \/ Fsync(p) \/ ListBooks(p)
        BY <1>1, <2>3, <3>4 DEF CreateReplay, CreateMissing, OpenNew, AppendReplay, Fsync, ListBooks, Goto, InLock
      <3>5. CASE ParseBook(p)
        BY <1>1, <2>3, <3>5 DEF ParseBook, InLock
      <3>6. CASE CreateRefused(p) \/ OpenExists(p) \/ AppendRefused(p) \/ RebuildFails(p) \/ Answer(p)
                 \/ WriteFails(p) \/ Crash(p)
        BY <1>1, <2>3, <3>6 DEF CreateRefused, OpenExists, AppendRefused, RebuildFails, Answer, WriteFails, Crash,
                                Return, InLock
      <3> QED BY <1>3, <3>1, <3>2, <3>3, <3>4, <3>5, <3>6 DEF Acts, Step
    <2> QED BY <2>2, <2>3
  <1> QED BY <1>2, <1>3 DEF Next, Rest, Acts

\* As long as no write has stopped part-way, a notebook changes in two ways:
\* it gets its first entry, or one more.
FirstEntry(p) ==
    /\ pc[p] = "newLocked" /\ entries[X(p)] = <<>>
    /\ entries' = [entries EXCEPT ![X(p)] = <<E(p)>>]
    /\ headed' = headed \cup {X(p)}

OneMore(p) ==
    /\ pc[p] = "write"
    /\ entries' = [entries EXCEPT ![X(p)] = Append(entries[X(p)], E(p))]
    /\ headed' = headed

\* The two ways are all: the other steps touch no entry.
LEMMA BooksStep ==
    ASSUME Inv, NEW p \in Procs, Acts(p), torn' = 0
    PROVE  /\ torn = 0 /\ open' = open /\ present \subseteq present'
           /\ ~WriteNewPart(p) /\ ~WritePart(p) /\ ~WriteRest(p)
           /\ \/ FirstEntry(p) /\ WriteNew(p)
              \/ OneMore(p) /\ WriteEntry(p)
              \/ UNCHANGED <<entries, headed>> /\ ~WriteNew(p) /\ ~WriteEntry(p)
  <1>1. TypeOK /\ X(p) \in Exps /\ E(p) \in Entry /\ (torn = 0 => FileInv /\ CreateInv) /\ torn \in Nat
    BY DEF Inv, WholeInv, TypeOK, X, E
  <1>2. CASE CreateExperiment(p) \/ AppendEntry(p)
    <2>1. UNCHANGED <<present, headed, entries, open, torn>> /\ pc[p] = "idle"
      BY <1>2 DEF CreateExperiment, AppendEntry, Call, books, faults
    <2> QED BY <2>1 DEF WriteNewPart, WritePart, WriteRest, WriteNew, WriteEntry
  <1>3. CASE CreateReplay(p) \/ CreateRefused(p) \/ CreateMissing(p) \/ OpenExists(p) \/ Acquire(p)
             \/ AppendReplay(p) \/ AppendRefused(p) \/ AppendAccepted(p)
    <2>1. /\ UNCHANGED <<present, headed, entries, open, torn>>
          /\ pc[p] \in {"check", "open", "lock", "lockNew", "locked"}
      BY <1>3 DEF CreateReplay, CreateRefused, CreateMissing, OpenExists, Acquire, AppendReplay, AppendRefused,
                  AppendAccepted, books, faults
    <2> QED BY <2>1 DEF WriteNewPart, WritePart, WriteRest, WriteNew, WriteEntry
  <1>4. CASE OpenNew(p)
    BY <1>4 DEF OpenNew, faults, WriteNewPart, WritePart, WriteRest, WriteNew, WriteEntry
  <1>5. CASE Fsync(p) \/ ListBooks(p) \/ ParseBook(p) \/ RebuildFails(p) \/ Answer(p)
    <2>1. UNCHANGED <<present, headed, entries, open, torn>> /\ pc[p] \in {"fsync", "list", "parse"}
      BY <1>5 DEF Fsync, ListBooks, ParseBook, RebuildFails, Answer, books, faults
    <2> QED BY <2>1 DEF WriteNewPart, WritePart, WriteRest, WriteNew, WriteEntry
  <1>6. CASE WriteFails(p) \/ Crash(p)
    <2>1. UNCHANGED <<present, headed, entries, open, torn>> /\ pc'[p] = "idle"
      BY <1>1, <1>6 DEF WriteFails, Crash, Return, books, TypeOK
    <2>2. ~WriteNewPart(p) /\ ~WritePart(p) /\ ~WriteRest(p) /\ ~WriteNew(p) /\ ~WriteEntry(p)
      BY <1>1, <2>1 DEF WriteNewPart, WritePart, WriteRest, WriteNew, WriteEntry, Goto, TypeOK
    <2> QED BY <2>1, <2>2
  <1>7. CASE WriteNewPart(p) \/ WritePart(p)
    <2>1. torn' = torn + 1
      BY <1>7 DEF WriteNewPart, WritePart
    <2> QED BY <1>1, <2>1
  <1>8. CASE WriteRest(p)
    BY <1>1, <1>8 DEF WriteRest, faults, FileInv
  <1>9. CASE WriteNew(p)
    <2>1. torn = 0 /\ pc[p] = "newLocked" /\ open = {}
      BY <1>1, <1>9 DEF WriteNew, faults, FileInv
    <2>2. entries[X(p)] = <<>>
      BY <1>1, <2>1 DEF CreateInv, Creating
    <2> QED BY <1>9, <2>1, <2>2 DEF WriteNew, FirstEntry, WriteNewPart, WritePart, WriteRest, Goto
  <1>10. CASE WriteEntry(p)
    <2>1. torn = 0 /\ pc[p] = "write" /\ open = {}
      BY <1>1, <1>10 DEF WriteEntry, faults, FileInv
    <2> QED BY <1>10, <2>1 DEF WriteEntry, OneMore, Closed, WriteNewPart, WritePart, WriteRest
  <1> QED BY <1>2, <1>3, <1>4, <1>5, <1>6, <1>7, <1>8, <1>9, <1>10 DEF Acts, Step

\* No entry is ever lost or changed, and a new one is that of the process.
LEMMA Grown ==
    ASSUME Inv, NEW p \in Procs, Acts(p), torn' = 0, NEW x \in Exps
    PROVE  /\ Len(entries[x]) \in Nat /\ Len(entries'[x]) \in Nat /\ Len(entries[x]) <= Len(entries'[x])
           /\ \A i \in 1..Len(entries[x]) : entries'[x][i] = entries[x][i]
           /\ \A i \in 1..Len(entries'[x]) :
                \/ i \in 1..Len(entries[x])
                \/ /\ entries'[x][i] = E(p) /\ pc[p] \in {"newLocked", "write"}
                   /\ pc'[p] = "fsync" /\ req'[p] = req[p]
           /\ x # X(p) => entries'[x] = entries[x]
  <1>1. /\ entries \in [Exps -> Seq(Line)] /\ X(p) \in Exps /\ E(p) \in Line /\ pc \in [Procs -> PCs]
    BY DEF Inv, TypeOK, X, E, Line
  <1>2. entries[x] \in Seq(Line) /\ Len(entries[x]) \in Nat
    BY <1>1
  <1>3. CASE UNCHANGED entries
    BY <1>2, <1>3
  <1>4. CASE FirstEntry(p) /\ WriteNew(p)
    <2>1. pc'[p] = "fsync" /\ req' = req
      BY <1>1, <1>4 DEF WriteNew, Goto
    <2>2. entries' = [entries EXCEPT ![X(p)] = <<E(p)>>] /\ entries[X(p)] = <<>> /\ pc[p] = "newLocked"
      BY <1>4 DEF FirstEntry
    <2>3. CASE x = X(p)
      <3>1. entries'[x] = <<E(p)>> /\ entries[x] = <<>>
        BY <1>1, <2>2, <2>3
      <3> QED BY <2>1, <2>2, <2>3, <3>1
    <2>4. CASE x # X(p)
      <3>1. entries'[x] = entries[x]
        BY <1>1, <2>2, <2>4
      <3> QED BY <1>2, <2>4, <3>1
    <2> QED BY <2>3, <2>4
  <1>5. CASE OneMore(p) /\ WriteEntry(p)
    <2>1. pc'[p] = "fsync" /\ req' = req
      BY <1>1, <1>5 DEF WriteEntry, Goto
    <2>2. entries' = [entries EXCEPT ![X(p)] = Append(entries[X(p)], E(p))] /\ pc[p] = "write"
      BY <1>5 DEF OneMore
    <2>3. CASE x = X(p)
      <3>1. entries'[x] = Append(entries[x], E(p))
        BY <1>1, <2>2, <2>3
      <3>2. /\ Len(entries'[x]) = Len(entries[x]) + 1 /\ entries'[x][Len(entries[x]) + 1] = E(p)
            /\ \A i \in 1..Len(entries[x]) : entries'[x][i] = entries[x][i]
        BY <1>1, <1>2, <3>1, AppendProperties
      <3>3. \A i \in 1..(Len(entries[x]) + 1) : i \in 1..Len(entries[x]) \/ i = Len(entries[x]) + 1
        BY <1>2
      <3> QED BY <1>2, <2>1, <2>2, <2>3, <3>2, <3>3
    <2>4. CASE x # X(p)
      <3>1. entries'[x] = entries[x]
        BY <1>1, <2>2, <2>4
      <3> QED BY <1>2, <2>4, <3>1
    <2> QED BY <2>3, <2>4
  <1> QED BY <1>3, <1>4, <1>5, BooksStep

\* parse_experiment_notebook: an entry that was found new and valid under the
\* lock keeps the notebook readable.
LEMMA NextFile ==
    ASSUME Inv, NEW p \in Procs, Acts(p), torn' = 0
    PROVE  FileInv'
  <1>1. /\ TypeOK /\ LockInv /\ FileInv /\ CreateInv /\ RequestInv /\ IdInv
        /\ torn = 0 /\ open' = open /\ present \subseteq present'
        /\ ~WriteNewPart(p) /\ ~WritePart(p) /\ ~WriteRest(p)
    BY BooksStep DEF Inv, WholeInv
  <1>2. /\ X(p) \in Exps /\ E(p) \in Entry /\ entries \in [Exps -> Seq(Line)]
        /\ pc \in [Procs -> PCs] /\ headed \subseteq Exps
    BY <1>1 DEF TypeOK, X, E, Line
  <1>3. \A q \in Procs : pc'[q] \notin {"newPart", "part", "glued"}
    <2> SUFFICES ASSUME NEW q \in Procs PROVE pc'[q] \notin {"newPart", "part", "glued"}
      OBVIOUS
    <2>1. CASE q # p
      BY <1>1, <2>1, OthersKeep DEF FileInv
    <2>2. CASE q = p
      <3>1. CASE CreateExperiment(p) \/ AppendEntry(p) \/ CreateReplay(p) \/ CreateMissing(p) \/ OpenNew(p)
                 \/ Acquire(p) \/ AppendReplay(p) \/ AppendAccepted(p) \/ WriteNew(p) \/ WriteEntry(p)
                 \/ Fsync(p) \/ ListBooks(p)
        BY <1>2, <2>2, <3>1 DEF CreateExperiment, AppendEntry, Call, CreateReplay, CreateMissing, OpenNew, Acquire,
                 AppendReplay, AppendAccepted, WriteNew, WriteEntry, Fsync, ListBooks, Goto
      <3>2. CASE ParseBook(p)
        BY <1>1, <2>2, <3>2 DEF ParseBook, FileInv
      <3>3. CASE CreateRefused(p) \/ OpenExists(p) \/ AppendRefused(p) \/ RebuildFails(p) \/ Answer(p)
                 \/ WriteFails(p) \/ Crash(p)
        BY <1>2, <2>2, <3>3 DEF CreateRefused, OpenExists, AppendRefused, RebuildFails, Answer, WriteFails, Crash,
                                Return
      <3> QED BY <1>1, <3>1, <3>2, <3>3 DEF Acts, Step
    <2> QED BY <2>1, <2>2
  <1>4. ASSUME NEW x \in Exps, entries'[x] # <<>>
        PROVE  x \in present' /\ x \in headed' /\ Parses(entries'[x])
    <2>1. CASE UNCHANGED <<entries, headed>>
      BY <1>1, <1>4, <2>1 DEF FileInv, Readable
    <2>2. CASE FirstEntry(p)
      <3>1. X(p) \in present /\ E(p).type = "experiment" /\ E(p).attempt = NoAttempt
        BY <1>1, <2>2 DEF FirstEntry, CreateInv, RequestInv, Creating
      <3>2. CASE x = X(p)
        <4>1. entries'[x] = <<E(p)>> /\ x \in headed'
          BY <1>2, <2>2, <3>2 DEF FirstEntry
        <4> QED BY <1>1, <1>2, <3>1, <3>2, <4>1, ParsesFirst
      <3>3. CASE x # X(p)
        <4>1. entries'[x] = entries[x] /\ headed \subseteq headed'
          BY <1>2, <2>2, <3>3 DEF FirstEntry
        <4> QED BY <1>1, <1>4, <4>1 DEF FileInv, Readable
      <3> QED BY <3>2, <3>3
    <2>3. CASE OneMore(p)
      <3>1. Readable(X(p)) /\ IsNew(X(p), E(p)) /\ Valid(E(p), entries[X(p)]) /\ headed' = headed
        BY <1>1, <2>3 DEF OneMore, RequestInv
      <3>2. CASE x = X(p)
        <4>1. entries'[x] = Append(entries[x], E(p))
          BY <1>2, <2>3, <3>2 DEF OneMore
        <4>2. entries[x] \in Seq(Line) /\ Parses(entries[x]) /\ Valid(E(p), entries[x])
          BY <1>2, <3>1, <3>2 DEF Readable
        <4>3. \A i \in 1..Len(entries[x]) : entries[x][i] # Broken
          BY <4>2 DEF Parses
        <4>4. \A i \in 1..Len(entries[x]) : entries[x][i].id # E(p).id
          BY <1>1, <2>3, <4>3 DEF IdInv, OneMore, Asking
        <4>5. E(p).key = NoKey \/ \A i \in 1..Len(entries[x]) : entries[x][i].key # E(p).key
          BY <3>1, <3>2, <4>3 DEF IsNew, Existing
        <4>6. Parses(Append(entries[x], E(p)))
          BY <1>2, <4>2, <4>4, <4>5, ParsesAppend
        <4>7. entries[x] # <<>>
          BY <4>2 DEF Parses
        <4> QED BY <1>1, <3>1, <3>2, <4>1, <4>6, <4>7 DEF Readable, FileInv
      <3>3. CASE x # X(p)
        <4>1. entries'[x] = entries[x]
          BY <1>2, <2>3, <3>3 DEF OneMore
        <4> QED BY <1>1, <1>4, <3>1, <4>1 DEF FileInv, Readable
      <3> QED BY <3>2, <3>3
    <2> QED BY <2>1, <2>2, <2>3, BooksStep
  <1> QED BY <1>1, <1>3, <1>4 DEF FileInv, Readable

\* open(path, "x"): one process creates a file, and nobody appends to it before
\* it is written.
LEMMA NextCreate ==
    ASSUME Inv, NEW p \in Procs, Acts(p), torn' = 0
    PROVE  CreateInv'
  <1>1. /\ TypeOK /\ LockInv /\ FileInv /\ CreateInv /\ RequestInv
        /\ torn = 0 /\ present \subseteq present'
    BY BooksStep DEF Inv, WholeInv
  <1>2. /\ X(p) \in Exps /\ entries \in [Exps -> Seq(Line)] /\ pc \in [Procs -> PCs]
    BY <1>1 DEF TypeOK, X, Line
  \* Who creates a file now has opened it just now or was creating it before.
  <1>3. pc'[p] \in Creating => \/ OpenNew(p)
                               \/ pc[p] \in Creating /\ req'[p] = req[p] /\ UNCHANGED entries
    <2>1. CASE CreateExperiment(p) \/ AppendEntry(p) \/ CreateReplay(p) \/ CreateMissing(p)
               \/ AppendReplay(p) \/ AppendAccepted(p) \/ WriteNew(p) \/ WriteEntry(p)
               \/ Fsync(p) \/ ListBooks(p)
      BY <1>2, <2>1 DEF CreateExperiment, AppendEntry, Call, CreateReplay, CreateMissing,
               AppendReplay, AppendAccepted, WriteNew, WriteEntry, Fsync, ListBooks, Goto, Creating
    <2>2. CASE ParseBook(p)
      BY <1>2, <2>2 DEF ParseBook, Creating
    <2>3. CASE CreateRefused(p) \/ OpenExists(p) \/ AppendRefused(p) \/ RebuildFails(p) \/ Answer(p)
               \/ WriteFails(p) \/ Crash(p)
      BY <1>2, <2>3 DEF CreateRefused, OpenExists, AppendRefused, RebuildFails, Answer, WriteFails, Crash,
                        Return, Creating
    <2>4. CASE Acquire(p)
      BY <1>2, <2>4 DEF Acquire, Goto, Creating, books
    <2>5. ~WriteNewPart(p) /\ ~WritePart(p) /\ ~WriteRest(p)
      BY BooksStep
    <2> QED BY <2>1, <2>2, <2>3, <2>4, <2>5 DEF Acts, Step
  <1>4. OpenNew(p) => /\ X(p) \notin present /\ X(p) \in present' /\ UNCHANGED <<entries, req>>
                      /\ entries[X(p)] = <<>>
    BY <1>1, <1>2 DEF OpenNew, FileInv
  <1>5. ASSUME NEW q \in Procs, q # p, pc[q] \in Creating
        PROVE  entries'[X(q)] = <<>>
    <2>1. X(q) \in Exps /\ entries[X(q)] = <<>>
      BY <1>1, <1>5 DEF TypeOK, X, CreateInv
    <2>2. CASE UNCHANGED entries
      BY <2>1, <2>2
    <2>3. CASE FirstEntry(p)
      <3>1. X(p) # X(q)
        BY <1>1, <1>5, <2>3 DEF FirstEntry, CreateInv, Creating
      <3> QED BY <1>2, <2>1, <2>3, <3>1 DEF FirstEntry
    <2>4. CASE OneMore(p)
      <3>1. X(p) # X(q)
        BY <1>1, <2>1, <2>4 DEF OneMore, RequestInv, Readable, Parses
      <3> QED BY <1>2, <2>1, <2>4, <3>1 DEF OneMore
    <2> QED BY <2>2, <2>3, <2>4, BooksStep
  <1>6. ASSUME NEW q \in Procs, pc'[q] \in Creating
        PROVE  req'[q].exp \in present' /\ entries'[req'[q].exp] = <<>>
    <2>1. CASE q # p
      <3>1. pc[q] \in Creating /\ req'[q].exp = X(q)
        BY <1>1, <1>6, <2>1, OthersKeep DEF X
      <3> QED BY <1>1, <1>5, <2>1, <3>1 DEF CreateInv
    <2>2. CASE q = p
      BY <1>1, <1>3, <1>4, <1>6, <2>2 DEF CreateInv, X
    <2> QED BY <2>1, <2>2
  <1>7. ASSUME NEW q \in Procs, NEW r \in Procs, pc'[q] \in Creating, pc'[r] \in Creating,
               req'[q].exp = req'[r].exp, q # p, q # r
        PROVE  FALSE
    <2>1. pc[q] \in Creating /\ req'[q].exp = X(q)
      BY <1>1, <1>7, OthersKeep DEF X
    <2>2. CASE r # p
      <3>1. pc[r] \in Creating /\ req'[r].exp = X(r)
        BY <1>1, <1>7, <2>2, OthersKeep DEF X
      <3> QED BY <1>1, <1>7, <2>1, <3>1 DEF CreateInv
    <2>3. CASE r = p /\ OpenNew(p)
      BY <1>1, <1>4, <1>7, <2>1, <2>3 DEF CreateInv, X
    <2>4. CASE r = p /\ ~OpenNew(p)
      BY <1>1, <1>3, <1>7, <2>1, <2>4 DEF CreateInv, X
    <2> QED BY <2>2, <2>3, <2>4
  <1>8. \A q, r \in Procs : pc'[q] \in Creating /\ pc'[r] \in Creating /\ req'[q].exp = req'[r].exp => q = r
    BY <1>7
  <1> QED BY <1>6, <1>8 DEF CreateInv, X

\* An append writes what it has found to be new and valid: the lock keeps the
\* notebook as it was.
LEMMA NextRequest ==
    ASSUME Inv, NEW p \in Procs, Acts(p), torn' = 0
    PROVE  RequestInv'
  <1>1. /\ TypeOK /\ LockInv /\ FileInv /\ CreateInv /\ RequestInv /\ torn = 0
        /\ ~WriteNewPart(p) /\ ~WritePart(p) /\ ~WriteRest(p)
    BY BooksStep DEF Inv, WholeInv
  <1>2. /\ X(p) \in Exps /\ E(p) \in Entry /\ entries \in [Exps -> Seq(Line)] /\ pc \in [Procs -> PCs]
        /\ req \in [Procs -> [exp : Exps, entry : Entry]]
    BY <1>1 DEF TypeOK, X, E, Line
  \* The process that takes the step.
  <1>3. /\ pc'[p] \in {"check", "open"} \cup Creating =>
                req'[p].entry.type = "experiment" /\ req'[p].entry.attempt = NoAttempt
        /\ pc'[p] = "write" => /\ UNCHANGED <<entries, headed>> /\ req'[p] = req[p]
                               /\ Readable(X(p)) /\ IsNew(X(p), E(p)) /\ Valid(E(p), entries[X(p)])
    <2>1. CASE CreateExperiment(p)
      <3>1. PICK k \in Keys \cup {NoKey} : \E x \in Exps :
              Call(p, x, "experiment", "active", NoAttempt, k, "check")
        BY <2>1 DEF CreateExperiment
      <3>2. req'[p].entry = [id |-> nextId, type |-> "experiment", attempt |-> NoAttempt, key |-> k,
                             status |-> "active"]
        BY <1>2, <3>1 DEF Call
      <3>3. pc'[p] = "check"
        BY <1>2, <3>1 DEF Call, Goto
      <3> QED BY <3>2, <3>3
    <2>2. CASE AppendEntry(p)
      BY <1>2, <2>2 DEF AppendEntry, Call, Goto, Creating
    <2>3. CASE CreateReplay(p) \/ AppendReplay(p) \/ WriteNew(p) \/ WriteEntry(p) \/ Fsync(p) \/ ListBooks(p)
      BY <1>2, <2>3 DEF CreateReplay, AppendReplay, WriteNew, WriteEntry, Fsync, ListBooks, Goto, Creating
    <2>4. CASE CreateMissing(p) \/ OpenNew(p) \/ Acquire(p)
      BY <1>1, <1>2, <2>4 DEF CreateMissing, OpenNew, Acquire, Goto, Creating, RequestInv, E
    <2>5. CASE ParseBook(p)
      BY <1>2, <2>5 DEF ParseBook, Creating
    <2>6. CASE CreateRefused(p) \/ OpenExists(p) \/ AppendRefused(p) \/ RebuildFails(p) \/ Answer(p)
               \/ WriteFails(p) \/ Crash(p)
      BY <1>2, <2>6 DEF CreateRefused, OpenExists, AppendRefused, RebuildFails, Answer, WriteFails, Crash,
                        Return, Creating
    <2>7. CASE AppendAccepted(p)
      BY <1>2, <2>7 DEF AppendAccepted, Goto, Creating, books
    <2> QED BY <1>1, <2>1, <2>2, <2>3, <2>4, <2>5, <2>6, <2>7 DEF Acts, Step
  \* A process that holds the lock on a notebook finds it as it was.
  <1>4. ASSUME NEW q \in Procs, q # p, pc[q] = "write"
        PROVE  /\ entries'[X(q)] = entries[X(q)] /\ (X(q) \in headed => X(q) \in headed')
               /\ X(q) \in Exps
    <2>1. X(q) \in Exps /\ holder[X(q)] = q
      BY <1>1, <1>4 DEF TypeOK, X, LockInv, InLock
    <2>2. CASE UNCHANGED <<entries, headed>>
      BY <2>1, <2>2
    <2>3. CASE FirstEntry(p) \/ OneMore(p)
      <3>1. X(p) # X(q)
        BY <1>1, <1>4, <2>1, <2>3 DEF FirstEntry, OneMore, LockInv, InLock
      <3> QED BY <1>2, <2>1, <2>3, <3>1 DEF FirstEntry, OneMore
    <2> QED BY <2>2, <2>3, BooksStep
  <1>5. ASSUME NEW q \in Procs, pc'[q] \in {"check", "open"} \cup Creating
        PROVE  req'[q].entry.type = "experiment" /\ req'[q].entry.attempt = NoAttempt
    BY <1>1, <1>3, <1>5, OthersKeep DEF RequestInv, E
  <1>6. ASSUME NEW q \in Procs, pc'[q] = "write"
        PROVE  /\ req'[q] = req[q] /\ X(q) \in headed' /\ Parses(entries[X(q)])
               /\ entries'[X(q)] = entries[X(q)] /\ IsNew(X(q), E(q)) /\ Valid(E(q), entries[X(q)])
    <2>1. CASE q # p
      BY <1>1, <1>4, <1>6, <2>1, OthersKeep DEF RequestInv, Readable
    <2>2. CASE q = p
      BY <1>3, <1>6, <2>2 DEF Readable
    <2> QED BY <2>1, <2>2
  <1>7. ASSUME NEW q \in Procs, pc'[q] = "write"
        PROVE  Readable(X(q))' /\ IsNew(X(q), E(q))' /\ Valid(E(q), entries[X(q)])'
    BY <1>6, <1>7 DEF Readable, IsNew, Existing, X, E
  <1> QED BY <1>5, <1>7 DEF RequestInv, E

\* A process that asks again has a new id, or the one it had.
LEMMA AskingStep ==
    ASSUME TypeOK, NEW p \in Procs, Acts(p), pc'[p] \in Asking
    PROVE  \/ nextId' = nextId + 1 /\ req'[p].entry.id = nextId /\ UNCHANGED entries
           \/ nextId' = nextId /\ pc[p] \in Asking /\ req'[p] = req[p]
  <1>1. pc \in [Procs -> PCs] /\ req \in [Procs -> [exp : Exps, entry : Entry]]
    BY DEF TypeOK
  <1>2. CASE CreateExperiment(p)
    <2>1. PICK x \in Exps, k \in Keys \cup {NoKey} : Call(p, x, "experiment", "active", NoAttempt, k, "check")
      BY <1>2 DEF CreateExperiment
    <2>2. req'[p].entry = [id |-> nextId, type |-> "experiment", attempt |-> NoAttempt, key |-> k,
                           status |-> "active"]
      BY <1>1, <2>1 DEF Call
    <2>3. nextId' = nextId + 1 /\ UNCHANGED entries
      BY <2>1 DEF Call, books
    <2> QED BY <2>2, <2>3
  <1>3. CASE AppendEntry(p)
    <2>1. PICK x \in present, t \in Types, a \in Attempts \cup {NoAttempt}, k \in Keys \cup {NoKey} :
            \E s \in {"none"} \cup IF t = "experiment" THEN Updates ELSE {} : Call(p, x, t, s, a, k, "lock")
      BY <1>3 DEF AppendEntry
    <2>2. PICK s : Call(p, x, t, s, a, k, "lock")
      BY <2>1
    <2>3. req'[p].entry = [id |-> nextId, type |-> t, attempt |-> a, key |-> k, status |-> s]
      BY <1>1, <2>2 DEF Call
    <2>4. nextId' = nextId + 1 /\ UNCHANGED entries
      BY <2>2 DEF Call, books
    <2> QED BY <2>3, <2>4
  <1>4. CASE CreateReplay(p) \/ AppendReplay(p) \/ WriteNew(p) \/ WriteEntry(p) \/ Fsync(p) \/ ListBooks(p)
             \/ WriteNewPart(p) \/ WritePart(p) \/ WriteRest(p)
    BY <1>1, <1>4 DEF CreateReplay, AppendReplay, WriteNew, WriteEntry, Fsync, ListBooks, WriteNewPart, WritePart,
                      WriteRest, Goto, Asking, Creating
  <1>5. CASE CreateMissing(p) \/ OpenNew(p) \/ Acquire(p) \/ AppendAccepted(p)
    BY <1>1, <1>5 DEF CreateMissing, OpenNew, Acquire, AppendAccepted, Goto, Asking, Creating
  <1>6. CASE ParseBook(p)
    BY <1>1, <1>6 DEF ParseBook, Asking, Creating
  <1>7. CASE CreateRefused(p) \/ OpenExists(p) \/ AppendRefused(p) \/ RebuildFails(p) \/ Answer(p)
             \/ WriteFails(p) \/ Crash(p)
    BY <1>1, <1>7 DEF CreateRefused, OpenExists, AppendRefused, RebuildFails, Answer, WriteFails, Crash,
                      Return, Asking, Creating
  <1> QED BY <1>2, <1>3, <1>4, <1>5, <1>6, <1>7 DEF Acts, Step

\* Ids are only taken.
LEMMA IdsGrow == ASSUME TypeOK, NEW p \in Procs, Acts(p) PROVE nextId' \in {nextId, nextId + 1}
  <1>1. CASE CreateExperiment(p) \/ AppendEntry(p)
    BY <1>1 DEF CreateExperiment, AppendEntry, Call
  <1>2. CASE CreateReplay(p) \/ CreateRefused(p) \/ CreateMissing(p) \/ OpenNew(p) \/ OpenExists(p) \/ Acquire(p)
             \/ WriteNew(p) \/ WriteNewPart(p) \/ AppendReplay(p) \/ AppendRefused(p) \/ AppendAccepted(p)
    BY <1>2 DEF CreateReplay, CreateRefused, CreateMissing, OpenNew, OpenExists, Acquire, WriteNew, WriteNewPart,
                AppendReplay, AppendRefused, AppendAccepted
  <1>3. CASE WriteEntry(p) \/ WritePart(p) \/ WriteRest(p) \/ Fsync(p) \/ ListBooks(p) \/ ParseBook(p)
             \/ RebuildFails(p) \/ Answer(p) \/ WriteFails(p) \/ Crash(p)
    BY <1>3 DEF WriteEntry, WritePart, WriteRest, Fsync, ListBooks, ParseBook, RebuildFails, Answer, WriteFails, Crash
  <1> QED BY <1>1, <1>2, <1>3 DEF Acts, Step

\* The entries that are written have ids of their own.
LEMMA NextIds ==
    ASSUME Inv, NEW p \in Procs, Acts(p), torn' = 0
    PROVE  IdInv'
  <1>1. /\ TypeOK /\ IdInv /\ torn = 0 /\ nextId \in Nat /\ nextId' \in {nextId, nextId + 1}
        /\ pc \in [Procs -> PCs]
    BY BooksStep, IdsGrow DEF Inv, WholeInv, TypeOK
  <1>2. ASSUME NEW x \in Exps, NEW i \in 1..Len(entries'[x])
        PROVE  \/ i \in 1..Len(entries[x]) /\ entries'[x][i] = entries[x][i]
               \/ /\ entries'[x][i] = E(p) /\ pc[p] \in Asking /\ pc'[p] = "fsync"
    BY <1>2, Grown DEF Asking, Creating
  <1>3. ASSUME NEW x \in Exps, NEW i \in 1..Len(entries'[x]), entries'[x][i] # Broken
        PROVE  entries'[x][i].id < nextId /\ entries'[x][i].id < nextId'
    <2>1. entries'[x][i].id < nextId
      BY <1>1, <1>2, <1>3 DEF IdInv
    <2>2. entries'[x][i].id \in Nat
      <3>1. TypeOK'
        BY <1>1, NextType DEF Next, Acts
      <3>2. entries'[x][i] \in Entry
        BY <1>3, <3>1 DEF TypeOK
      <3> QED BY <3>2 DEF Entry
    <2> QED BY <1>1, <2>1, <2>2
  \* A process that goes on asking has the id it had; one that begins has a new one.
  <1>4. ASSUME NEW q \in Procs, pc'[q] \in Asking
        PROVE  \/ pc[q] \in Asking /\ req'[q] = req[q] /\ (q = p => nextId' = nextId)
               \/ /\ q = p /\ req'[q].entry.id = nextId /\ nextId' = nextId + 1
    BY <1>1, <1>4, AskingStep, OthersKeep
  <1>5. ASSUME NEW q \in Procs, pc'[q] \in Asking
        PROVE  /\ req'[q].entry.id < nextId'
               /\ \A x \in Exps : \A i \in 1..Len(entries'[x]) :
                    entries'[x][i] # Broken => entries'[x][i].id # req'[q].entry.id
    <2>1. CASE pc[q] \in Asking /\ req'[q] = req[q]
      <3>1. E(q).id < nextId /\ E(q) \in Entry /\ E(q).id \in Nat
        BY <1>1, <2>1 DEF IdInv, TypeOK, E, Entry
      <3>2. ASSUME NEW x \in Exps, NEW i \in 1..Len(entries'[x]), entries'[x][i] # Broken
            PROVE  entries'[x][i].id # E(q).id
        <4>1. CASE i \in 1..Len(entries[x]) /\ entries'[x][i] = entries[x][i]
          BY <1>1, <2>1, <3>2, <4>1 DEF IdInv
        <4>2. CASE entries'[x][i] = E(p) /\ pc[p] \in Asking /\ pc'[p] = "fsync"
          <5>1. q # p
            BY <1>5, <4>2 DEF Asking, Creating
          <5> QED BY <1>1, <2>1, <4>2, <5>1 DEF IdInv
        <4> QED BY <1>2, <4>1, <4>2
      <3> QED BY <1>1, <2>1, <3>1, <3>2 DEF E
    <2>2. CASE req'[q].entry.id = nextId /\ nextId' = nextId + 1
      <3>1. ASSUME NEW x \in Exps, NEW i \in 1..Len(entries'[x]), entries'[x][i] # Broken
            PROVE  entries'[x][i].id # nextId
        BY <1>1, <1>3, <3>1
      <3> QED BY <1>1, <2>2, <3>1
    <2> QED BY <1>4, <1>5, <2>1, <2>2
  <1>6. ASSUME NEW q \in Procs, NEW r \in Procs, q # r, pc'[q] \in Asking, pc'[r] \in Asking
        PROVE  req'[q].entry.id # req'[r].entry.id
    <2>1. pc[q] \in Asking => E(q).id < nextId
      BY <1>1 DEF IdInv
    <2>2. pc[r] \in Asking => E(r).id < nextId
      BY <1>1 DEF IdInv
    <2>3. CASE pc[q] \in Asking /\ req'[q] = req[q] /\ pc[r] \in Asking /\ req'[r] = req[r]
      BY <1>1, <1>6, <2>3 DEF IdInv, E
    <2>4. CASE q = p /\ req'[q].entry.id = nextId
      BY <1>1, <1>4, <1>6, <2>2, <2>4 DEF E
    <2>5. CASE r = p /\ req'[r].entry.id = nextId
      BY <1>1, <1>4, <1>6, <2>1, <2>5 DEF E
    <2> QED BY <1>4, <1>6, <2>3, <2>4, <2>5
  <1> QED BY <1>3, <1>5, <1>6 DEF IdInv, E

\* An entry that is in a notebook stays there.
LEMMA StaysIn ==
    ASSUME Inv, NEW p \in Procs, Acts(p), torn' = 0, NEW x \in Exps, NEW e,
           \E i \in 1..Len(entries[x]) : entries[x][i] = e
    PROVE  \E i \in 1..Len(entries'[x]) : entries'[x][i] = e
  <1>1. PICK i \in 1..Len(entries[x]) : entries[x][i] = e
    OBVIOUS
  <1>2. i \in 1..Len(entries'[x]) /\ entries'[x][i] = entries[x][i]
    BY Grown
  <1> QED BY <1>1, <1>2

\* What a process that has written, or found, its entry is going to answer.
LEMMA WrittenStep ==
    ASSUME Inv, NEW p \in Procs, Acts(p), torn' = 0, pc'[p] \in Written
    PROVE  /\ req'[p].exp = X(p)
           /\ \E i \in 1..Len(entries'[X(p)]) : entries'[X(p)][i] = req'[p].entry
  <1>1. /\ X(p) \in Exps /\ entries \in [Exps -> Seq(Line)] /\ pc \in [Procs -> PCs]
        /\ req \in [Procs -> [exp : Exps, entry : Entry]] /\ E(p) \in Line /\ torn = 0 /\ DoneInv
        /\ ~WriteNewPart(p) /\ ~WritePart(p) /\ ~WriteRest(p)
    BY BooksStep DEF Inv, WholeInv, TypeOK, X, E, Line
  <1>2. CASE CreateReplay(p)
    <2>1. Parses(entries[X(p)]) /\ UNCHANGED entries
      BY <1>2 DEF CreateReplay, Readable, books
    <2>2. Len(entries[X(p)]) \in Nat /\ Len(entries[X(p)]) > 0
      BY <1>1, <2>1 DEF Parses
    <2>3. req'[p].exp = X(p) /\ req'[p].entry = entries[X(p)][1]
      BY <1>1, <1>2 DEF CreateReplay, X
    <2> QED BY <2>1, <2>2, <2>3
  <1>3. CASE AppendReplay(p)
    <2>1. PICK i \in Existing(X(p), E(p).key) : req' = [req EXCEPT ![p].entry = entries[X(p)][i]]
      BY <1>3 DEF AppendReplay
    <2>2. i \in 1..Len(entries[X(p)]) /\ UNCHANGED entries
      BY <1>3 DEF Existing, AppendReplay, books
    <2>3. req'[p].exp = X(p) /\ req'[p].entry = entries[X(p)][i]
      BY <1>1, <2>1 DEF X
    <2> QED BY <2>2, <2>3
  <1>4. CASE WriteNew(p)
    <2>1. entries'[X(p)] = <<E(p)>> /\ req' = req
      BY <1>1, <1>4 DEF WriteNew
    <2>2. Len(<<E(p)>>) = 1 /\ <<E(p)>>[1] = E(p)
      OBVIOUS
    <2> QED BY <2>1, <2>2 DEF X, E
  <1>5. CASE WriteEntry(p)
    <2>1. entries'[X(p)] = Append(entries[X(p)], E(p)) /\ req' = req
      <3>1. OneMore(p)
        BY <1>5, BooksStep DEF FirstEntry, WriteEntry
      <3> QED BY <1>1, <1>5, <3>1 DEF OneMore, WriteEntry
    <2>2. entries[X(p)] \in Seq(Line) /\ Len(entries[X(p)]) \in Nat
      BY <1>1
    <2>3. /\ Len(entries'[X(p)]) = Len(entries[X(p)]) + 1
          /\ entries'[X(p)][Len(entries[X(p)]) + 1] = E(p)
      BY <1>1, <2>1, <2>2, AppendProperties
    <2>4. Len(entries[X(p)]) + 1 \in 1..Len(entries'[X(p)])
      BY <2>2, <2>3
    <2> QED BY <2>1, <2>3, <2>4 DEF X, E
  <1>6. CASE Fsync(p) \/ ListBooks(p) \/ ParseBook(p)
    <2>1. pc[p] \in Written /\ req' = req /\ UNCHANGED entries
      BY <1>6 DEF Fsync, ListBooks, ParseBook, Written, books
    <2> QED BY <1>1, <2>1 DEF DoneInv, IsIn, X
  <1>7. CASE CreateExperiment(p) \/ AppendEntry(p) \/ CreateMissing(p) \/ OpenNew(p) \/ Acquire(p) \/ AppendAccepted(p)
    BY <1>1, <1>7 DEF CreateExperiment, AppendEntry, Call, CreateMissing, OpenNew, Acquire, AppendAccepted, Goto, Written
  <1>8. CASE CreateRefused(p) \/ OpenExists(p) \/ AppendRefused(p) \/ RebuildFails(p) \/ Answer(p)
             \/ WriteFails(p) \/ Crash(p)
    BY <1>1, <1>8 DEF CreateRefused, OpenExists, AppendRefused, RebuildFails, Answer, WriteFails, Crash,
                      Return, Written
  <1> QED BY <1>1, <1>2, <1>3, <1>4, <1>5, <1>6, <1>7, <1>8 DEF Acts, Step

\* Only an answer adds to what the callers were told.
LEMMA AckedStep ==
    ASSUME Inv, NEW p \in Procs, Acts(p)
    PROVE  acked' = acked \/ (pc[p] \in Written /\ acked' = acked \cup {req[p]})
  <1>1. CASE CreateExperiment(p) \/ AppendEntry(p)
    BY <1>1 DEF CreateExperiment, AppendEntry, Call
  <1>2. CASE CreateReplay(p) \/ CreateRefused(p) \/ CreateMissing(p) \/ OpenNew(p) \/ OpenExists(p) \/ Acquire(p)
             \/ WriteNew(p) \/ WriteNewPart(p) \/ AppendReplay(p) \/ AppendRefused(p) \/ AppendAccepted(p)
    BY <1>2 DEF CreateReplay, CreateRefused, CreateMissing, OpenNew, OpenExists, Acquire, WriteNew, WriteNewPart,
                AppendReplay, AppendRefused, AppendAccepted
  <1>3. CASE WriteEntry(p) \/ WritePart(p) \/ WriteRest(p) \/ Fsync(p) \/ ListBooks(p) \/ ParseBook(p)
             \/ RebuildFails(p) \/ WriteFails(p) \/ Crash(p)
    BY <1>3 DEF WriteEntry, WritePart, WriteRest, Fsync, ListBooks, ParseBook, RebuildFails, WriteFails, Crash
  <1>4. CASE Answer(p)
    BY <1>4 DEF Answer, Written
  <1> QED BY <1>1, <1>2, <1>3, <1>4 DEF Acts, Step

\* What was answered, or is going to be, stays in its notebook.
LEMMA NextDone ==
    ASSUME Inv, NEW p \in Procs, Acts(p), torn' = 0
    PROVE  DoneInv'
  <1>1. TypeOK /\ DoneInv
    BY BooksStep DEF Inv, WholeInv
  <1>2. ASSUME NEW q \in Procs, pc'[q] \in Written
        PROVE  \E i \in 1..Len(entries'[req'[q].exp]) : entries'[req'[q].exp][i] = req'[q].entry
    <2>1. CASE q # p
      <3>1. pc[q] \in Written /\ req'[q] = req[q] /\ req[q].exp \in Exps
        BY <1>1, <1>2, <2>1, OthersKeep DEF TypeOK
      <3>2. \E i \in 1..Len(entries[req[q].exp]) : entries[req[q].exp][i] = req[q].entry
        BY <1>1, <3>1 DEF DoneInv, IsIn
      <3> QED BY <3>1, <3>2, StaysIn
    <2>2. CASE q = p
      BY <1>2, <2>2, WrittenStep
    <2> QED BY <2>1, <2>2
  <1>3. ASSUME NEW r \in acked'
        PROVE  \E i \in 1..Len(entries'[r.exp]) : entries'[r.exp][i] = r.entry
    <2>1. CASE r \in acked
      <3>1. r.exp \in Exps /\ \E i \in 1..Len(entries[r.exp]) : entries[r.exp][i] = r.entry
        BY <1>1, <2>1 DEF DoneInv, IsIn, TypeOK
      <3> QED BY <3>1, StaysIn
    <2>2. CASE r = req[p] /\ pc[p] \in Written
      <3>1. r.exp \in Exps /\ \E i \in 1..Len(entries[r.exp]) : entries[r.exp][i] = r.entry
        BY <1>1, <2>2 DEF DoneInv, IsIn, TypeOK
      <3> QED BY <3>1, StaysIn
    <2> QED BY <1>3, <2>1, <2>2, AckedStep
  <1> QED BY <1>2, <1>3 DEF DoneInv, IsIn

\* No step breaks the invariant.
LEMMA NextInv == Inv /\ [Next]_vars => Inv'
  <1> SUFFICES ASSUME Inv, [Next]_vars PROVE Inv'
    OBVIOUS
  <1>1. TypeOK' /\ LockInv'
    BY NextType, NextLock DEF Inv
  <1>2. ASSUME torn' = 0 PROVE FileInv' /\ CreateInv' /\ RequestInv' /\ IdInv' /\ DoneInv'
    <2>1. CASE UNCHANGED vars
      <3>1. FileInv /\ CreateInv /\ RequestInv /\ IdInv /\ DoneInv
        BY <1>2, <2>1 DEF Inv, WholeInv, vars, faults
      <3>2. UNCHANGED <<present, headed, entries, open, pc, req, nextId, acked>>
        BY <2>1 DEF vars, books, local
      <3>3. FileInv' /\ CreateInv'
        BY <3>1, <3>2 DEF FileInv, CreateInv, Readable, X
      <3>4. RequestInv'
        BY <3>1, <3>2 DEF RequestInv, Readable, IsNew, Existing, X, E
      <3>5. IdInv' /\ DoneInv'
        BY <3>1, <3>2 DEF IdInv, DoneInv, IsIn, E
      <3> QED BY <3>3, <3>4, <3>5
    <2>2. ASSUME NEW p \in Procs, Acts(p) PROVE FileInv' /\ CreateInv' /\ RequestInv' /\ IdInv' /\ DoneInv'
      BY <1>2, <2>2, NextFile, NextCreate, NextRequest, NextIds, NextDone
    <2> QED BY <2>1, <2>2 DEF Next, Rest, Acts
  <1> QED BY <1>1, <1>2 DEF Inv, WholeInv

-----------------------------------------------------------------------------
(* Theorems.                                                               *)

\* Every variable keeps its type in every behaviour.
THEOREM NotebookTypeOK == Spec => []TypeOK
  <1>1. Init => Inv
    BY InitInv
  <1>2. Inv /\ [Next]_vars => Inv'
    BY NextInv
  <1>3. Inv => TypeOK
    BY DEF Inv
  <1> QED BY <1>1, <1>2, <1>3, PTL DEF Spec

\* create_experiment, append_experiment_entry: as long as no write has stopped
\* part-way, every notebook that has entries can be parsed, however many servers
\* create it, append to it and die.
THEOREM NotebookStaysReadable == Spec => []StaysReadable
  <1>1. Init => Inv
    BY InitInv
  <1>2. Inv /\ [Next]_vars => Inv'
    BY NextInv
  <1>3. Inv => StaysReadable
    BY DEF Inv, WholeInv, FileInv, StaysReadable
  <1> QED BY <1>1, <1>2, <1>3, PTL DEF Spec

\* The keys of a notebook that parses are its entries' own: two callers that
\* were told of a key were told of one entry.
LEMMA InvSame == Inv => RetryReturnsSame
  <1> SUFFICES ASSUME Inv, torn = 0, NEW r \in acked, NEW s \in acked,
                      r.exp = s.exp, r.entry.key = s.entry.key, r.entry.key # NoKey
               PROVE  r = s
    BY DEF RetryReturnsSame
  <1>1. r \in [exp : Exps, entry : Entry] /\ s \in [exp : Exps, entry : Entry] /\ FileInv /\ DoneInv
    BY DEF Inv, WholeInv, TypeOK
  <1>2. PICK i \in 1..Len(entries[r.exp]) : entries[r.exp][i] = r.entry
    BY <1>1 DEF DoneInv, IsIn
  <1>3. PICK j \in 1..Len(entries[r.exp]) : entries[r.exp][j] = s.entry
    BY <1>1 DEF DoneInv, IsIn
  <1>4. Parses(entries[r.exp])
    BY <1>1, <1>2 DEF FileInv, Readable
  <1>5. i = j
    BY <1>2, <1>3, <1>4 DEF Parses
  <1> QED BY <1>1, <1>2, <1>3, <1>5

\* append_experiment_entry: as long as no write has stopped part-way, a key is
\* answered with one entry, whoever uses it and however often it is retried.
THEOREM NotebookRetryReturnsSame == Spec => []RetryReturnsSame
  <1>1. Init => Inv
    BY InitInv
  <1>2. Inv /\ [Next]_vars => Inv'
    BY NextInv
  <1> QED BY <1>1, <1>2, InvSame, PTL DEF Spec

-----------------------------------------------------------------------------
(* What inspect shows.                                                     *)

\* A finite set that is not empty has an element where f is largest.
LEMMA Maximum ==
    ASSUME NEW cs, IsFiniteSet(cs), cs # {}, NEW f, \A c \in cs : f[c] \in Nat
    PROVE  \E c \in cs : \A d \in cs : f[d] <= f[c]
  <1> DEFINE R == StrictSubsetOrdering(cs)
             Bad == {s \in SUBSET cs : s # {} /\ \A c \in s : \E d \in s : ~(f[d] <= f[c])}
  <1>1. SUFFICES Bad = {}
    <2>1. cs \notin Bad
      BY <1>1
    <2> QED BY <2>1
  <1>2. SUFFICES ASSUME Bad # {} PROVE FALSE
    OBVIOUS
  <1>3. IsWellFoundedOn(R, SUBSET cs)
    BY FS_StrictSubsetOrderingWellFounded, FS_FiniteSubsetsOfFinite
  <1>4. Bad \subseteq SUBSET cs
    OBVIOUS
  <1> HIDE DEF R
  <1>5. PICK s \in Bad : \A t \in Bad : <<t, s>> \notin R
    <2> HIDE DEF Bad
    <2> QED BY <1>2, <1>3, <1>4, WFMin
  <1>6. PICK x : x \in s
    OBVIOUS
  <1> DEFINE t == s \ {x}
  <1>7. t \subseteq s /\ t # s /\ s \subseteq cs
    BY <1>6
  <1>8. <<t, s>> \in R
    BY <1>7 DEF StrictSubsetOrdering, R
  <1>9. t \notin Bad /\ t \in SUBSET cs
    BY <1>5, <1>7, <1>8
  <1>10. CASE t = {}
    <2>1. s = {x}
      BY <1>6, <1>10
    <2> QED BY <2>1
  <1>11. CASE t # {}
    <2>1. PICK c \in t : \A d \in t : f[d] <= f[c]
      BY <1>9, <1>11
    <2>2. c \in s /\ f[c] \in Nat /\ f[x] \in Nat /\ s = t \cup {x}
      BY <1>6, <1>7, <2>1
    <2> HIDE DEF t
    <2>3. CASE f[x] <= f[c]
      <3>1. \A d \in s : f[d] <= f[c]
        BY <2>1, <2>2, <2>3
      <3> QED BY <2>2, <3>1
    <2>4. CASE ~(f[x] <= f[c])
      <3>1. \A d \in s : f[d] <= f[x]
        <4>1. \A d \in t : f[d] \in Nat
          BY <1>7, <2>2
        <4> QED BY <2>1, <2>2, <2>4, <4>1
      <3> QED BY <1>6, <3>1
    <2> QED BY <2>3, <2>4
  <1> QED BY <1>10, <1>11

\* inspect_experiment_context: an entry of a notebook that has no more entries
\* than are shown is found under its attempt and its type.
LEMMA ShownHas ==
    ASSUME NEW es \in Seq(Line), Len(es) <= MaxShown, NEW k \in 1..Len(es)
    PROVE  k \in Shown(es, es[k].attempt, es[k].type, MaxShown)
  <1> DEFINE found == {i \in 1..Len(es) : /\ es[k].attempt \in {NoAttempt, es[i].attempt}
                                          /\ es[k].type \in {"any", es[i].type}}
             later == {j \in found : j > k}
  <1>1. Len(es) \in Nat /\ MaxShown \in Nat /\ MaxShown >= 1
    BY NotebookAssumption
  <1>2. k \in found
    OBVIOUS
  <1>3. later \in SUBSET ((k + 1)..Len(es))
    OBVIOUS
  <1>4. /\ IsFiniteSet((k + 1)..Len(es))
        /\ Cardinality((k + 1)..Len(es)) = IF k + 1 > Len(es) THEN 0 ELSE Len(es) - (k + 1) + 1
    <2>1. k + 1 \in Int /\ Len(es) \in Int
      BY <1>1
    <2> QED BY <2>1, FS_Interval
  <1>5. Cardinality(later) <= Cardinality((k + 1)..Len(es)) /\ Cardinality(later) \in Nat
    BY <1>3, <1>4, FS_Subset, FS_CardinalityType
  <1>6. Cardinality(later) < MaxShown
    BY <1>1, <1>4, <1>5
  <1> QED BY <1>1, <1>2, <1>6 DEF Shown

\* _current_experiment: the status is that of an entry after which no other
\* gives one.
LEMMA LastStatus ==
    ASSUME NEW es \in Seq(Line), NEW k \in 1..Len(es), es[k].type = "experiment", es[k].status # "none"
    PROVE  \E m \in 1..Len(es) :
                /\ CurrentExperiment(es).status = es[m].status
                /\ \A j \in 1..Len(es) : es[j].type = "experiment" /\ es[j].status # "none" => j <= m
  <1> DEFINE updates == {i \in 1..Len(es) : es[i].type = "experiment" /\ es[i].status # "none"}
             m == CHOOSE i \in updates : \A j \in updates : j <= i
             f == [i \in updates |-> i]
  <1>1. IsFiniteSet(updates) /\ updates # {} /\ \A i \in updates : f[i] \in Nat /\ f[i] = i
    <2>1. updates \in SUBSET (1..Len(es)) /\ IsFiniteSet(1..Len(es))
      BY FS_Interval
    <2> QED BY <2>1, FS_Subset
  <1>2. \E i \in updates : \A j \in updates : j <= i
    <2> HIDE DEF f, updates
    <2>1. PICK i \in updates : \A j \in updates : f[j] <= f[i]
      BY <1>1, Maximum
    <2> QED BY <1>1, <2>1
  <1>3. m \in updates /\ \A j \in updates : j <= m
    <2> HIDE DEF updates
    <2> QED BY <1>2
  <1>4. CurrentExperiment(es).status = es[m].status
    BY DEF CurrentExperiment
  <1> HIDE DEF m
  <1> QED BY <1>3, <1>4

\* What was answered is in its notebook, so it is shown.
LEMMA InvShown == Inv => AckedIsShown
  <1> SUFFICES ASSUME Inv, torn = 0, NEW r \in acked
               PROVE  LET e == r.entry
                          es == entries[r.exp]
                          current == [x \in {r.exp} |-> CurrentExperiment(es)]
                      IN  /\ Len(es) <= MaxShown => \E i \in Shown(es, e.attempt, e.type, MaxShown) : es[i] = e
                          /\ e.attempt # NoAttempt => e.attempt \in current[r.exp].attempts
                          /\ /\ e.type = "experiment" /\ e.status \notin {"active", "none"}
                             /\ \A i \in 1..Len(es) :
                                    es[i].status = "active" => \E j \in (i + 1)..Len(es) : es[j] = e
                             => Selected(current, NoExp, {r.exp}, {r.exp}) = {}
    BY DEF AckedIsShown
  <1> DEFINE e == r.entry
             es == entries[r.exp]
             current == [x \in {r.exp} |-> CurrentExperiment(es)]
  <1>1. r.exp \in Exps /\ es \in Seq(Line) /\ DoneInv /\ Len(es) \in Nat
    BY DEF Inv, TypeOK, WholeInv, Line
  <1>2. PICK k \in 1..Len(es) : es[k] = e
    BY <1>1 DEF DoneInv, IsIn
  <1>3. current[r.exp] = CurrentExperiment(es) /\ DOMAIN current = {r.exp}
    OBVIOUS
  <1> HIDE DEF current, es, e
  <1>4. Len(es) <= MaxShown => \E i \in Shown(es, e.attempt, e.type, MaxShown) : es[i] = e
    BY <1>1, <1>2, ShownHas
  <1>5. e.attempt # NoAttempt => e.attempt \in current[r.exp].attempts
    BY <1>2, <1>3 DEF CurrentExperiment
  <1>6. ASSUME e.type = "experiment", e.status \notin {"active", "none"},
               \A i \in 1..Len(es) : es[i].status = "active" => \E j \in (i + 1)..Len(es) : es[j] = e
        PROVE  Selected(current, NoExp, {r.exp}, {r.exp}) = {}
    <2>1. PICK m \in 1..Len(es) :
                /\ CurrentExperiment(es).status = es[m].status
                /\ \A j \in 1..Len(es) : es[j].type = "experiment" /\ es[j].status # "none" => j <= m
      BY <1>1, <1>2, <1>6, LastStatus
    <2>2. es[m].status # "active"
      <3> SUFFICES ASSUME es[m].status = "active" PROVE FALSE
        OBVIOUS
      <3>1. PICK j \in (m + 1)..Len(es) : es[j] = e
        BY <1>6
      <3>2. j \in 1..Len(es) /\ j > m
        BY <1>1, <3>1
      <3> QED BY <1>6, <2>1, <3>1, <3>2
    <2>3. {x \in DOMAIN current : current[x].status = "active"} = {}
      BY <1>3, <2>1, <2>2
    <2>4. NoExp \notin DOMAIN current
      BY <1>1, <1>3, NotebookAssumption
    <2>5. Cardinality({}) # 1
      BY FS_EmptySet
    <2> DEFINE active == {x \in DOMAIN current : current[x].status = "active"}
    <2>6. Selected(current, NoExp, {r.exp}, {r.exp})
            = IF (IF Cardinality(active \cap {r.exp}) = 1 THEN active \cap {r.exp} ELSE {}) # {}
              THEN active \cap {r.exp}
              ELSE IF Cardinality(active \cap {r.exp} \cap {r.exp}) = 1
                   THEN active \cap {r.exp} \cap {r.exp} ELSE {}
      BY <2>4 DEF Selected
    <2> HIDE DEF active
    <2>7. active \cap {r.exp} = {} /\ active \cap {r.exp} \cap {r.exp} = {}
      BY <2>3 DEF active
    <2> QED BY <2>5, <2>6, <2>7
  <1> QED BY <1>4, <1>5, <1>6 DEF current, es, e

\* create_experiment, append_experiment_entry, inspect_experiment_context: what a
\* caller was told of is shown from then on.
THEOREM NotebookAckedIsShown == Spec => []AckedIsShown
  <1>1. Init => Inv
    BY InitInv
  <1>2. Inv /\ [Next]_vars => Inv'
    BY NextInv
  <1> QED BY <1>1, <1>2, InvShown, PTL DEF Spec
=============================================================================
