-------------------------- MODULE Records_proofs --------------------------
(***************************************************************************)
(* Proofs about what is recorded: the statuses of a job (JobStatus), for   *)
(* any number of polling servers; and the evidence of the stages with the  *)
(* deliveries made of it (Evidence), for any number of sessions, contracts *)
(* and requests.                                                           *)
(***************************************************************************)
EXTENDS JobStatus, Evidence, FiniteSetTheorems, TLAPS

-----------------------------------------------------------------------------
(* The statuses of a job.                                                  *)

\* A poll that is about to append has a status to append.
AppendInv == \A p \in Procs : pc[p] = "append" => seen[p] # "none"

\* What a server has seen, the place told of a state the job has been in: the
\* states are kept in been, so that what was true stays true until it is
\* recorded.
SeenInv ==
    /\ job \in been
    /\ ~Guessed => \A p \in Procs :
            seen[p] # "none" => \E state \in been : seen[p] = Told(state)

Inv == TypeOK /\ AppendInv /\ SeenInv /\ RecordedWasTrue

\* The initial state satisfies the invariant.
LEMMA InitInv == Init => Inv
  <1> SUFFICES ASSUME Init PROVE Inv
    OBVIOUS
  <1>1. TypeOK
    <2>1. via \in AllPlaces
      BY ConstAssumption DEF Init
    <2>2. job \in {"queued", "running"} /\ been = {job}
      BY DEF Init
    <2> QED BY <2>1, <2>2 DEF Init, TypeOK, States
  <1>2. AppendInv /\ SeenInv
    <2>1. /\ job \in been
          /\ \A p \in Procs : pc[p] = "idle" /\ seen[p] = "none"
      BY DEF Init
    <2> QED BY <2>1 DEF AppendInv, SeenInv
  <1>3. 1..Len(history) = {}
    <2>1. history = <<>>
      BY DEF Init
    <2> QED BY <2>1
  <1> QED BY <1>1, <1>2, <1>3 DEF Inv, RecordedWasTrue

\* A place tells a status, or none; and the same of a state whenever it is asked.
LEMMA ToldType ==
    ASSUME NEW state \in States
    PROVE  Told(state) \in Statuses \cup {"none"}
  <1>1. CASE state = "other"
    BY <1>1 DEF Told, Ended
  <1>2. CASE state # "other"
    BY <1>2 DEF Told, States, Statuses, Over, Ended
  <1> QED BY <1>1, <1>2

LEMMA ToldSame ==
    ASSUME via' = via, NEW state
    PROVE  Told(state)' = Told(state)
  BY DEF Told

\* A place tells an end only of a job that is over, and of one that is over an
\* end or nothing.
LEMMA ToldEnds ==
    ASSUME NEW state \in States
    PROVE  /\ Told(state) \in Ended => state \in Over
           /\ state \in Over => Told(state) \in Ended \cup {"none"}
  <1>1. CASE state = "other"
    BY <1>1 DEF Told, Over, Ended
  <1>2. CASE state # "other"
    BY <1>2 DEF Told, States, Over, Ended
  <1> QED BY <1>1, <1>2

\* An appended status.
LEMMA StatusAppended ==
    ASSUME TypeOK, NEW s \in Statuses, history' = Append(history, s)
    PROVE  /\ history' \in Seq(Statuses \cup {"submitted"})
           /\ \A i \in 1..Len(history') :
                \/ i \in 1..Len(history) /\ history'[i] = history[i]
                \/ history'[i] = s
  <1>1. history \in Seq(Statuses \cup {"submitted"})
    BY DEF TypeOK
  <1> QED BY <1>1

\* No step takes a variable out of its type.
LEMMA NextType == TypeOK /\ AppendInv /\ [Next]_vars => TypeOK' /\ AppendInv'
  <1> SUFFICES ASSUME TypeOK, AppendInv, [Next]_vars PROVE TypeOK' /\ AppendInv'
    OBVIOUS
  <1> USE DEF TypeOK, AppendInv
  <1>1. CASE Progress
    <2>1. job' \in States
      BY <1>1 DEF Progress, States, Over, Ended
    <2> QED BY <1>1, <2>1 DEF Progress, faults
  <1>2. CASE RecordSubmit
    <2>1. <<"submitted">> \in Seq(Statuses \cup {"submitted"})
      OBVIOUS
    <2> QED BY <1>2, <2>1 DEF RecordSubmit, faults
  <1>3. ASSUME NEW p \in Procs, NEW s \in Statuses \cup {"none"}, Observe(p, s), silent' \in Nat
        PROVE  TypeOK' /\ AppendInv'
    BY <1>3 DEF Observe
  <1>4. ASSUME NEW p \in Procs, Query(p) PROVE TypeOK' /\ AppendInv'
    BY <1>3, <1>4, ToldType DEF Query
  <1>5. ASSUME NEW p \in Procs, QuerySilent(p) PROVE TypeOK' /\ AppendInv'
    <2>1. Fallback \subseteq Statuses \cup {"none"}
      BY DEF Fallback, Statuses, Ended
    <2> QED BY <1>3, <1>5, <2>1 DEF QuerySilent
  <1>6. ASSUME NEW p \in Procs, NothingToRecord(p) PROVE TypeOK' /\ AppendInv'
    BY <1>6 DEF NothingToRecord, Return, faults
  <1>7. ASSUME NEW p \in Procs, Changed(p) PROVE TypeOK' /\ AppendInv'
    BY <1>7 DEF Changed, faults
  <1>8. ASSUME NEW p \in Procs, RecordTransition(p) PROVE TypeOK' /\ AppendInv'
    <2>1. seen[p] \in Statuses
      BY <1>8 DEF RecordTransition
    <2>2. history' \in Seq(Statuses \cup {"submitted"})
      BY <1>8, <2>1, StatusAppended DEF RecordTransition
    <2> QED BY <1>8, <2>2 DEF RecordTransition, Return, faults
  <1>9. ASSUME NEW p \in Procs, Crash(p) PROVE TypeOK' /\ AppendInv'
    BY <1>9 DEF Crash, Return
  <1>10. CASE UNCHANGED vars
    BY <1>10 DEF vars, faults
  <1> QED BY <1>1, <1>2, <1>4, <1>5, <1>6, <1>7, <1>8, <1>9, <1>10 DEF Next, Handle

\* What happens to the answers: a server drops its own, or keeps it.
LEMMA PollOver ==
    ASSUME Inv, NEW p \in Procs, NothingToRecord(p) \/ Changed(p) \/ Crash(p)
    PROVE  /\ UNCHANGED <<via, job, been, history, silent>>
           /\ \A q \in Procs : seen'[q] = seen[q] \/ seen'[q] = "none"
           /\ \A q \in Procs : pc'[q] # "idle" => pc[q] # "idle" /\ seen'[q] = seen[q]
  BY DEF Inv, TypeOK, NothingToRecord, Changed, Crash, Return, faults

\* No step breaks the invariant.
LEMMA NextInv == Inv /\ [Next]_vars => Inv'
  <1> SUFFICES ASSUME Inv, [Next]_vars PROVE Inv'
    OBVIOUS
  <1>1. TypeOK /\ TypeOK' /\ SeenInv /\ RecordedWasTrue
    BY NextType DEF Inv
  <1>2. SUFFICES SeenInv' /\ RecordedWasTrue'
    BY <1>1, NextType DEF Inv
  <1>3. via' = via
    BY DEF Next, vars, Progress, RecordSubmit, Query, QuerySilent, Observe, Handle,
           NothingToRecord, Changed, RecordTransition, Crash
  <1>4. \A state : Told(state)' = Told(state)
    BY <1>3, ToldSame
  <1> USE DEF SeenInv, RecordedWasTrue, Guessed
  <1>5. CASE Progress
    <2>1. UNCHANGED <<history, seen, silent>> /\ been' = been \cup {job'}
      BY <1>5 DEF Progress, faults
    <2> QED BY <1>1, <1>3, <1>4, <2>1
  <1>6. CASE RecordSubmit
    <2>1. \A i \in 1..Len(history') : history'[i] = "submitted"
      BY <1>6 DEF RecordSubmit
    <2> QED BY <1>1, <1>3, <1>4, <1>6, <2>1 DEF RecordSubmit, faults
  <1>7. ASSUME NEW p \in Procs, Query(p) PROVE SeenInv' /\ RecordedWasTrue'
    <2>1. /\ UNCHANGED <<job, been, history, silent>>
          /\ seen' = [seen EXCEPT ![p] = Told(job)]
      BY <1>7 DEF Query, Observe
    <2> QED BY <1>1, <1>3, <1>4, <2>1 DEF TypeOK
  <1>8. ASSUME NEW p \in Procs, QuerySilent(p) PROVE SeenInv' /\ RecordedWasTrue'
    <2>1. UNCHANGED <<job, been, history>> /\ silent' = silent + 1
      BY <1>8 DEF QuerySilent, Observe
    <2>2. CASE via \in {"ssh", "process"}
      BY <1>1, <1>3, <2>1, <2>2 DEF TypeOK
    <2>3. CASE via \notin {"ssh", "process"}
      <3>1. Fallback = {"none"}
        BY <2>3 DEF Fallback
      <3>2. seen' = [seen EXCEPT ![p] = "none"]
        BY <1>8, <3>1 DEF QuerySilent, Observe
      <3> QED BY <1>1, <1>3, <1>4, <2>1, <2>3, <3>2 DEF TypeOK
    <2> QED BY <2>2, <2>3
  <1>9. ASSUME NEW p \in Procs, NothingToRecord(p) \/ Changed(p) \/ Crash(p)
        PROVE  SeenInv' /\ RecordedWasTrue'
    <2>1. /\ UNCHANGED <<job, been, history, silent>>
          /\ \A q \in Procs : seen'[q] = seen[q] \/ seen'[q] = "none"
      BY <1>9, PollOver
    <2> QED BY <1>1, <1>3, <1>4, <2>1
  <1>10. ASSUME NEW p \in Procs, RecordTransition(p) PROVE SeenInv' /\ RecordedWasTrue'
    <2>1. /\ UNCHANGED <<job, been, silent>> /\ pc[p] = "append"
          /\ seen' = [seen EXCEPT ![p] = "none"]
          /\ history' = Append(history, seen[p])
      BY <1>10 DEF RecordTransition, Return, faults
    <2>2. seen[p] \in Statuses /\ seen[p] # "none"
      BY <1>1, <2>1 DEF Inv, AppendInv, TypeOK
    <2>3. \A i \in 1..Len(history') :
            \/ i \in 1..Len(history) /\ history'[i] = history[i]
            \/ history'[i] = seen[p]
      BY <1>1, <2>1, <2>2, StatusAppended
    <2>4. ~Guessed => \E state \in been : seen[p] = Told(state)
      BY <1>1, <2>2
    <2>5. SeenInv'
      BY <1>1, <1>3, <1>4, <2>1 DEF TypeOK
    <2> QED BY <1>1, <1>3, <1>4, <2>1, <2>3, <2>4, <2>5
  <1>11. CASE UNCHANGED vars
    BY <1>1, <1>3, <1>4, <1>11 DEF vars, faults
  <1> QED BY <1>5, <1>6, <1>7, <1>8, <1>9, <1>10, <1>11 DEF Next, Handle

\* Every variable keeps its type in every behaviour.
THEOREM StatusTypeOK == Spec => []TypeOK
  <1>1. Init => Inv
    BY InitInv
  <1>2. Inv /\ [Next]_vars => Inv'
    BY NextInv
  <1>3. Inv => TypeOK
    BY DEF Inv
  <1> QED BY <1>1, <1>2, <1>3, PTL DEF Spec

\* handle_status: until the ssh connector guesses, a status that any number of
\* servers record, however late, is what the place of the job told of a state
\* it has been in.
THEOREM StatusWasTrue == Spec => []RecordedWasTrue
  <1>1. Init => Inv
    BY InitInv
  <1>2. Inv /\ [Next]_vars => Inv'
    BY NextInv
  <1>3. Inv => RecordedWasTrue
    BY DEF Inv
  <1> QED BY <1>1, <1>2, <1>3, PTL DEF Spec

-----------------------------------------------------------------------------
(* Regressions.                                                            *)

\* The records from i on that say the job is active, and the polls that can
\* still add one: each has seen the job before it ended.
Late(i) == {k \in i..Len(history) : history[k] \notin Ended}
Stale == {p \in Procs : pc[p] # "idle" /\ seen[p] \notin Ended \cup {"none"}}

\* After a first record of the end, a record can only be late where a poll was
\* stale; the server that has recorded the end had none.
LateInv ==
    /\ been \cap Over # {} => job \in Over
    /\ ~Guessed => \A i \in 1..Len(history) :
            history[i] \in Ended => Cardinality(Late(i)) + Cardinality(Stale) < Cardinality(Procs)

FewInv == Inv /\ LateInv

\* The sets are finite.
LEMMA Finite ==
    ASSUME TypeOK, NEW i \in 1..Len(history)
    PROVE  /\ IsFiniteSet(Late(i)) /\ Cardinality(Late(i)) \in Nat
           /\ IsFiniteSet(Stale) /\ Cardinality(Stale) \in Nat /\ Cardinality(Stale) <= Cardinality(Procs)
           /\ IsFiniteSet(Procs) /\ Cardinality(Procs) \in Nat
  <1>1. i \in Int /\ Len(history) \in Int
    BY DEF TypeOK
  <1>2. IsFiniteSet(i..Len(history)) /\ Late(i) \in SUBSET (i..Len(history)) /\ Stale \in SUBSET Procs
    BY <1>1, FS_Interval DEF Late, Stale
  <1>3. IsFiniteSet(Procs)
    BY ConstAssumption
  <1> QED BY <1>2, <1>3, FS_Subset, FS_CardinalityType

\* A step that records nothing and makes no poll stale keeps the invariant.
LEMMA NothingLate ==
    ASSUME Inv, LateInv, TypeOK', UNCHANGED <<job, been, history>>, ~Guessed' => ~Guessed,
           ~Guessed' => (\A i \in 1..Len(history) : history[i] \in Ended => Stale' \subseteq Stale)
    PROVE  LateInv'
  <1> SUFFICES ASSUME ~Guessed', NEW i \in 1..Len(history), history[i] \in Ended
               PROVE  Cardinality(Late(i)') + Cardinality(Stale') < Cardinality(Procs)
    BY DEF LateInv, Late
  <1>1. TypeOK /\ Late(i)' = Late(i) /\ Stale' \in SUBSET Stale
    BY DEF Inv, Late
  <1>2. Cardinality(Stale') <= Cardinality(Stale) /\ Cardinality(Stale') \in Nat
    BY <1>1, Finite, FS_Subset, FS_CardinalityType
  <1>3. Cardinality(Late(i)) + Cardinality(Stale) < Cardinality(Procs)
    BY DEF LateInv
  <1> QED BY <1>1, <1>2, <1>3, Finite

\* A record of a transition.
LEMMA RecordFew ==
    ASSUME Inv, LateInv, NEW p \in Procs, RecordTransition(p)
    PROVE  LateInv'
  <1>1. /\ TypeOK /\ UNCHANGED <<via, job, been, silent>>
        /\ pc[p] = "append" /\ pc' = [pc EXCEPT ![p] = "idle"]
        /\ seen' = [seen EXCEPT ![p] = "none"]
        /\ history' = Append(history, seen[p]) /\ seen[p] \in Statuses /\ seen[p] # "none"
        /\ history \in Seq(Statuses \cup {"submitted"})
    BY DEF RecordTransition, Return, faults, Inv, AppendInv, TypeOK
  <1>2. /\ Len(history) \in Nat /\ Len(history') = Len(history) + 1
        /\ \A k \in 1..Len(history) : history'[k] = history[k]
        /\ history'[Len(history) + 1] = seen[p]
    BY <1>1
  <1>3. Stale' = Stale \ {p}
    BY <1>1 DEF Stale, TypeOK
  <1>4. IsFiniteSet(Stale) /\ IsFiniteSet(Procs) /\ Cardinality(Procs) \in Nat
    BY ConstAssumption, FS_Subset, FS_CardinalityType DEF Stale
  <1>5. SUFFICES ASSUME ~Guessed, NEW i \in 1..Len(history'), history'[i] \in Ended
                 PROVE  Cardinality(Late(i)') + Cardinality(Stale') < Cardinality(Procs)
    BY <1>1 DEF LateInv, Guessed
  <1> DEFINE n == Len(history)
             late == {k \in i..(n + 1) : history'[k] \notin Ended}
  <1>6. Late(i)' = late
    BY <1>2 DEF Late
  <1>7. CASE i = n + 1
    <2>1. late = {}
      BY <1>2, <1>5, <1>7
    <2>2. Stale' \in SUBSET (Procs \ {p}) /\ IsFiniteSet(Procs \ {p})
          /\ Cardinality(Procs \ {p}) = Cardinality(Procs) - 1
      BY <1>3, <1>4, FS_RemoveElement DEF Stale
    <2>3. Cardinality(Stale') <= Cardinality(Procs) - 1 /\ Cardinality(Stale') \in Nat
      BY <2>2, FS_Subset, FS_CardinalityType
    <2>4. Cardinality(late) = 0
      BY <2>1, FS_EmptySet
    <2> HIDE DEF late
    <2> QED BY <1>4, <1>6, <2>3, <2>4
  <1>8. CASE i \in 1..n
    <2>1. history[i] \in Ended /\ Cardinality(Late(i)) + Cardinality(Stale) < Cardinality(Procs)
      BY <1>2, <1>5, <1>8 DEF LateInv
    <2>2. /\ IsFiniteSet(Late(i)) /\ Cardinality(Late(i)) \in Nat /\ Cardinality(Stale) \in Nat
      BY <1>1, <1>8, Finite
    <2>3. CASE seen[p] \in Ended
      <3>1. late = Late(i)
        BY <1>2, <1>8, <2>3 DEF Late
      <3>2. Cardinality(Stale') <= Cardinality(Stale) /\ Cardinality(Stale') \in Nat
        <4>1. Stale' \in SUBSET Stale
          BY <1>3
        <4> QED BY <1>4, <4>1, FS_Subset, FS_CardinalityType
      <3> HIDE DEF late
      <3> QED BY <1>4, <1>6, <2>1, <2>2, <3>1, <3>2
    <2>4. CASE seen[p] \notin Ended
      <3>1. late = Late(i) \cup {n + 1}
        BY <1>2, <1>8, <2>4 DEF Late
      <3>2. n + 1 \notin Late(i)
        BY <1>2 DEF Late
      <3>3. Cardinality(late) = Cardinality(Late(i)) + 1
        BY <2>2, <3>1, <3>2, FS_AddElement
      <3>4. p \in Stale
        BY <1>1, <2>4 DEF Stale
      <3>5. Cardinality(Stale') = Cardinality(Stale) - 1
        BY <1>3, <1>4, <3>4, FS_RemoveElement
      <3> HIDE DEF late
      <3> QED BY <1>4, <1>6, <2>1, <2>2, <3>3, <3>5
    <2> QED BY <2>3, <2>4
  <1> QED BY <1>2, <1>5, <1>7, <1>8

\* Once a record says so, the job has ended.
LEMMA RecordedEnd ==
    ASSUME Inv, LateInv, ~Guessed, NEW i \in 1..Len(history), history[i] \in Ended
    PROVE  job \in Over
  <1>1. PICK state \in been : history[i] = Told(state)
    <2>1. history[i] # "submitted"
      BY DEF Ended
    <2> QED BY <2>1 DEF Inv, RecordedWasTrue
  <1>2. state \in Over
    BY <1>1, ToldEnds DEF Inv, TypeOK
  <1> QED BY <1>1, <1>2 DEF LateInv

\* No step makes more records late than polls were stale.
LEMMA NextFew == FewInv /\ [Next]_vars => FewInv'
  <1> SUFFICES ASSUME Inv, LateInv, [Next]_vars PROVE LateInv'
    BY NextInv DEF FewInv
  <1>1. TypeOK /\ TypeOK'
    BY NextInv DEF Inv
  <1>2. CASE Progress
    <2>1. /\ UNCHANGED <<via, history, pc, seen, silent>> /\ been' = been \cup {job'}
          /\ job \in Over => job' \in Over
      BY <1>2 DEF Progress, faults, Over, Ended
    <2>2. Stale' = Stale /\ \A i : Late(i)' = Late(i)
      BY <2>1 DEF Stale, Late
    <2>3. been' \cap Over # {} => job' \in Over
      BY <2>1 DEF LateInv
    <2> QED BY <2>1, <2>2, <2>3 DEF LateInv, Guessed
  <1>3. CASE RecordSubmit
    <2>1. \A i \in 1..Len(history') : history'[i] = "submitted"
      BY <1>3 DEF RecordSubmit
    <2> QED BY <1>3, <2>1 DEF RecordSubmit, LateInv, Ended
  <1>4. ASSUME NEW p \in Procs, Query(p) PROVE LateInv'
    <2>1. /\ UNCHANGED <<via, job, been, history, silent>> /\ pc[p] = "idle"
          /\ seen' = [seen EXCEPT ![p] = Told(job)] /\ pc' = [pc EXCEPT ![p] = "compare"]
      BY <1>4 DEF Query, Observe
    <2>2. job \in Over => Told(job) \in Ended \cup {"none"}
      BY <1>1, ToldEnds DEF TypeOK
    <2>3. job \in Over => Stale' \subseteq Stale
      BY <1>1, <2>1, <2>2 DEF Stale, TypeOK
    <2> QED BY <1>1, <2>1, <2>3, RecordedEnd, NothingLate DEF Guessed
  <1>5. ASSUME NEW p \in Procs, QuerySilent(p) PROVE LateInv'
    <2>1. UNCHANGED <<via, job, been, history>> /\ silent' = silent + 1 /\ silent' > 0
      BY <1>1, <1>5 DEF QuerySilent, Observe, TypeOK
    <2>2. CASE via \in {"ssh", "process"}
      <3>1. Guessed'
        BY <2>1, <2>2 DEF Guessed
      <3> QED BY <2>1, <3>1 DEF LateInv
    <2>3. CASE via \notin {"ssh", "process"}
      <3>1. Fallback = {"none"}
        BY <2>3 DEF Fallback
      <3>2. seen' = [seen EXCEPT ![p] = "none"] /\ pc' = [pc EXCEPT ![p] = "compare"]
        BY <1>5, <3>1 DEF QuerySilent, Observe
      <3>3. Stale' \subseteq Stale
        BY <1>1, <3>2 DEF Stale, TypeOK
      <3> QED BY <1>1, <2>1, <2>3, <3>3, NothingLate DEF Guessed
    <2> QED BY <2>2, <2>3
  <1>6. ASSUME NEW p \in Procs, NothingToRecord(p) \/ Changed(p) \/ Crash(p) PROVE LateInv'
    <2>1. UNCHANGED <<via, job, been, history, silent>> /\ Stale' \subseteq Stale
      BY <1>6, PollOver DEF Stale
    <2> QED BY <1>1, <2>1, NothingLate DEF Guessed
  <1>7. CASE UNCHANGED vars
    <2>1. UNCHANGED <<via, job, been, history, silent>> /\ Stale' \subseteq Stale
      BY <1>7 DEF vars, faults, Stale
    <2> QED BY <1>1, <2>1, NothingLate DEF Guessed
  <1> QED BY <1>2, <1>3, <1>4, <1>5, <1>6, <1>7, RecordFew DEF Next, Handle

\* handle_status: however many servers poll a job, after the first record of its
\* end there are fewer records of an active job than servers.
THEOREM StatusFewRegressions == Spec => []FewRegressions
  <1>1. Init => FewInv
    BY InitInv DEF FewInv, LateInv, Init, Ended
  <1>2. FewInv => FewRegressions
    <2> SUFFICES ASSUME FewInv, ~Guessed, NEW i \in 1..Len(history), history[i] \in Ended
                 PROVE  Cardinality(Late(i)) < Cardinality(Procs)
      BY DEF FewRegressions, Late
    <2>1. TypeOK /\ Cardinality(Late(i)) + Cardinality(Stale) < Cardinality(Procs)
      BY DEF FewInv, Inv, LateInv
    <2> QED BY <2>1, Finite
  <1> QED BY <1>1, <1>2, NextFew, PTL DEF Spec

-----------------------------------------------------------------------------
(* The evidence of the stages and the deliveries.                          *)

Artifacts == [stage : Stages \cup {"writing"}, key : Keys, file : Keys,
              parents : SUBSET Nat, real : BOOLEAN]
Manifests == [truth : Truths, checkpointed : BOOLEAN]
Declarations == [dry : BOOLEAN, real : BOOLEAN, required : BOOLEAN]
Handoffs == [truth : Declarations, checkpointed : BOOLEAN]

\* What a session may be doing.
RegisterSteps == {"register", "write", "registerManifest", "judge", "complete", "checkpoint", "workflow"}
Registers == [step : RegisterSteps, stage : Stages, todo : Seq(Entries),
              ids : SUBSET Nat, sources : SUBSET Nat, parents : SUBSET Nat, complete : BOOLEAN,
              manifest : Keys]
Packages == [step : {"package"}, data : Manifests]
HandoffCalls == [step : {"handoff"}, data : Handoffs]
Enters == [step : {"enter"}, what : {"package", "handoff"}]
Executions == [step : {"helpers", "end"}, run : Runs]
Calls == {[step |-> "idle"]} \cup Registers \cup Packages \cup HandoffCalls \cup Enters \cup Executions

EvidenceTypeOK ==
    /\ workflow \in [entry : EntryPoints, current : EntryPoints]
    /\ metadata \in {None} \cup EntryPoints
    /\ DOMAIN stages \subseteq Stages
    /\ \A s \in DOMAIN stages : stages[s] \in Results \cup {"in_progress"}
    /\ executed \in SUBSET Stages
    /\ arts \in Seq(Artifacts)
    /\ present \in SUBSET Keys
    /\ plan \in Plans
    /\ decisions \in Seq({"approved", "rejected"})
    /\ checkpoints \in SUBSET Stages
    /\ manifest \in {None} \cup Manifests
    /\ handoff \in {None} \cup Handoffs
    /\ call \in [Sessions -> Calls]
    /\ left \in Bounds

\* A session that registers has something left to register.
TodoInv == \A s \in Sessions : call[s].step = "register" => call[s].todo # <<>>

\* The initial state has its types.
LEMMA EvidenceInitType ==
    EvInit => EvidenceTypeOK /\ TodoInv
  <1> SUFFICES ASSUME EvInit PROVE EvidenceTypeOK /\ TodoInv
    OBVIOUS
  <1>1. PICK p \in Starts : /\ workflow = [entry |-> p.entry, current |-> p.entry]
                            /\ metadata = p.metadata /\ present = p.files
                            /\ plan = p.plan /\ left = p.left
    BY DEF EvInit
  <1>2. /\ p.entry \in EntryPoints /\ p.metadata \in {None} \cup EntryPoints /\ p.files \in SUBSET Keys
        /\ p.plan \in Plans /\ p.left \in Bounds
    BY StartsAssumption
  <1>3. stages = <<>> /\ DOMAIN stages = {}
    BY DEF EvInit
  <1>4. call \in [Sessions -> Calls] /\ \A s \in Sessions : call[s] = [step |-> "idle"]
    BY DEF EvInit, Idle, Calls
  <1>5. TodoInv
    BY <1>4 DEF TodoInv
  <1>6. workflow \in [entry : EntryPoints, current : EntryPoints]
    BY <1>1, <1>2
  <1> QED BY <1>1, <1>2, <1>3, <1>4, <1>5, <1>6 DEF EvInit, EvidenceTypeOK

\* A sequence of some length has an element.
LEMMA NotEmpty == ASSUME NEW s, Len(s) # 0 PROVE s # <<>>
  OBVIOUS

\* What a call is at a step.
LEMMA CallAt ==
    ASSUME EvidenceTypeOK, NEW s \in Sessions
    PROVE  /\ call[s] \in Calls
           /\ call[s].step \in RegisterSteps => call[s] \in Registers
           /\ call[s].step = "package" => call[s] \in Packages
           /\ call[s].step = "handoff" => call[s] \in HandoffCalls
           /\ call[s].step = "enter" => call[s] \in Enters
           /\ call[s].step \in {"helpers", "end"} => call[s] \in Executions
  <1>1. call[s] \in Calls
    BY DEF EvidenceTypeOK
  <1> QED BY <1>1 DEF Calls, Registers, Packages, HandoffCalls, Enters, Executions, RegisterSteps

\* A call is replaced by another one.
LEMMA CallReplaced ==
    ASSUME EvidenceTypeOK, TodoInv, NEW s \in Sessions, NEW c \in Calls,
           call' = [call EXCEPT ![s] = c], c.step = "register" => c.todo # <<>>
    PROVE  call' \in [Sessions -> Calls] /\ TodoInv'
  BY DEF EvidenceTypeOK, TodoInv

\* A call that registers goes on with another step.
LEMMA CallGoes ==
    ASSUME EvidenceTypeOK, TodoInv, NEW s \in Sessions, call[s].step \in RegisterSteps,
           NEW step \in RegisterSteps \ {"register"}, call' = [call EXCEPT ![s].step = step]
    PROVE  call' \in [Sessions -> Calls] /\ TodoInv'
  <1> DEFINE c == [call[s] EXCEPT !.step = step]
  <1>1. call[s] \in Registers
    BY CallAt
  <1>2. c \in Registers /\ c.step = step
    BY <1>1 DEF Registers
  <1>3. c \in Calls
    BY <1>2 DEF Calls
  <1>4. call' = [call EXCEPT ![s] = c]
    OBVIOUS
  <1>5. c.step # "register"
    BY <1>2
  <1> HIDE DEF c
  <1> QED BY <1>3, <1>4, <1>5, CallReplaced

\* A call ends.
LEMMA CallEnds ==
    ASSUME EvidenceTypeOK, TodoInv, NEW s \in Sessions, Done(s)
    PROVE  call' \in [Sessions -> Calls] /\ TodoInv'
  <1>1. Idle \in Calls /\ Idle.step # "register"
    BY DEF Idle, Calls
  <1> QED BY <1>1, CallReplaced DEF Done

\* A call that registers begins.
LEMMA CallBegins ==
    ASSUME EvidenceTypeOK, TodoInv, NEW s \in Sessions,
           NEW stage \in Stages, NEW entries \in Seq(Entries) \ {<<>>},
           NEW parents \in SUBSET Nat, NEW complete \in BOOLEAN, NEW name \in Keys,
           call' = [call EXCEPT ![s] = Registering(stage, entries, parents, complete, name)]
    PROVE  call' \in [Sessions -> Calls] /\ TodoInv'
  <1> DEFINE c == Registering(stage, entries, parents, complete, name)
  <1>1. c \in Registers /\ c.todo = entries
    BY DEF Registering, Registers, RegisterSteps
  <1>2. c \in Calls
    BY <1>1 DEF Calls
  <1> HIDE DEF c
  <1> QED BY <1>1, <1>2, CallReplaced DEF c

\* The bounds stay bounds when one of the counters is spent.
LEMMA Spent ==
    ASSUME EvidenceTypeOK,
           NEW what \in {"deliveries", "edits", "removals", "decisions", "crashes"},
           Spend(what)
    PROVE  left' \in Bounds
  <1>1. left \in Bounds /\ left[what] > 0 /\ left' = [left EXCEPT ![what] = left[what] - 1]
    BY DEF EvidenceTypeOK, Spend
  <1>2. CASE what = "deliveries"
    <2>1. left.deliveries \in Nat /\ left.deliveries > 0 /\ left' = [left EXCEPT !.deliveries = left.deliveries - 1]
      BY <1>1, <1>2 DEF Bounds
    <2>2. left.deliveries - 1 \in Nat
      BY <2>1
    <2> QED BY <1>1, <2>1, <2>2 DEF Bounds
  <1>3. CASE what = "edits"
    <2>1. left.edits \in Nat /\ left.edits > 0 /\ left' = [left EXCEPT !.edits = left.edits - 1]
      BY <1>1, <1>3 DEF Bounds
    <2>2. left.edits - 1 \in Nat
      BY <2>1
    <2> QED BY <1>1, <2>1, <2>2 DEF Bounds
  <1>4. CASE what = "removals"
    <2>1. left.removals \in Nat /\ left.removals > 0 /\ left' = [left EXCEPT !.removals = left.removals - 1]
      BY <1>1, <1>4 DEF Bounds
    <2>2. left.removals - 1 \in Nat
      BY <2>1
    <2> QED BY <1>1, <2>1, <2>2 DEF Bounds
  <1>5. CASE what = "decisions"
    <2>1. left.decisions \in Nat /\ left.decisions > 0 /\ left' = [left EXCEPT !.decisions = left.decisions - 1]
      BY <1>1, <1>5 DEF Bounds
    <2>2. left.decisions - 1 \in Nat
      BY <2>1
    <2> QED BY <1>1, <2>1, <2>2 DEF Bounds
  <1>6. CASE what = "crashes"
    <2>1. left.crashes \in Nat /\ left.crashes > 0 /\ left' = [left EXCEPT !.crashes = left.crashes - 1]
      BY <1>1, <1>6 DEF Bounds
    <2>2. left.crashes - 1 \in Nat
      BY <2>1
    <2> QED BY <1>1, <2>1, <2>2 DEF Bounds
  <1> QED BY <1>2, <1>3, <1>4, <1>5, <1>6

\* The entries of a helper's run are entries.
LEMMA HelperEntriesType ==
    ASSUME NEW r \in Helpers
    PROVE  HelperEntries(r) \in Seq(Entries) \ {<<>>}
  <1> DEFINE script == <<Entry("script", r.script)>>
             inputs == [k \in DOMAIN r.inputs |-> Entry("input", r.inputs[k])]
             outputs == [k \in DOMAIN r.outputs |-> Entry("output", r.outputs[k])]
  <1>1. r.inputs \in Seq(Keys) /\ r.outputs \in Seq(Keys) /\ r.script \in Keys
    BY DEF Helpers
  <1>2. script \in Seq(Entries) /\ Len(script) = 1
    BY <1>1 DEF Entry, Entries
  <1>3. inputs \in Seq(Entries)
    <2>1. \A k \in DOMAIN r.inputs : Entry("input", r.inputs[k]) \in Entries
      BY <1>1 DEF Entry, Entries
    <2>2. DOMAIN r.inputs = 1..Len(r.inputs) /\ Len(r.inputs) \in Nat
      BY <1>1
    <2> QED BY <2>1, <2>2
  <1>4. outputs \in Seq(Entries)
    <2>1. \A k \in DOMAIN r.outputs : Entry("output", r.outputs[k]) \in Entries
      BY <1>1 DEF Entry, Entries
    <2>2. DOMAIN r.outputs = 1..Len(r.outputs) /\ Len(r.outputs) \in Nat
      BY <1>1
    <2> QED BY <2>1, <2>2
  <1>5. HelperEntries(r) = (script \o inputs) \o outputs
    BY DEF HelperEntries
  <1> HIDE DEF script, inputs, outputs
  <1>6. script \o inputs \in Seq(Entries) /\ Len(script \o inputs) # 0
    BY <1>2, <1>3
  <1>7. (script \o inputs) \o outputs \in Seq(Entries) /\ Len((script \o inputs) \o outputs) # 0
    BY <1>4, <1>6
  <1> QED BY <1>5, <1>7

\* The requests of the bounds, and what is left of them.
LEMMA RequestTaken ==
    ASSUME EvidenceTypeOK
    PROVE  /\ \A r \in left.requests : /\ r \in Requests
                                       /\ left' = [left EXCEPT !.requests = @ \ {r}] => left' \in Bounds
           /\ \A r \in left.helpers : /\ r \in Helpers
                                      /\ left' = [left EXCEPT !.helpers = @ \ {r}] => left' \in Bounds
           /\ \A r \in left.runs : /\ r \in Runs
                                   /\ left' = [left EXCEPT !.runs = @ \ {r}] => left' \in Bounds
           /\ \A e \in left.inits : /\ e \in EntryPoints
                                    /\ left' = [left EXCEPT !.inits = @ \ {e}] => left' \in Bounds
  <1>1. left \in Bounds
    BY DEF EvidenceTypeOK
  <1> QED BY <1>1 DEF Bounds

\* An artifact is appended.
LEMMA ArtifactAppended ==
    ASSUME EvidenceTypeOK,
           NEW stage \in Stages \cup {"writing"}, NEW key \in Keys, NEW file \in Keys,
           NEW parents \in SUBSET Nat, NEW real \in BOOLEAN,
           arts' = Append(arts, Artifact(stage, key, file, parents, real))
    PROVE  /\ arts' \in Seq(Artifacts)
           /\ Len(arts') = Len(arts) + 1
           /\ \A i \in DOMAIN arts : i \in DOMAIN arts' /\ arts'[i] = arts[i]
           /\ \A i \in DOMAIN arts' \ DOMAIN arts : arts'[i] = Artifact(stage, key, file, parents, real)
  <1> DEFINE a == Artifact(stage, key, file, parents, real)
  <1>1. a \in Artifacts
    BY DEF Artifact, Artifacts
  <1>2. arts \in Seq(Artifacts) /\ arts' = Append(arts, a)
    BY DEF EvidenceTypeOK
  <1> HIDE DEF a
  <1> QED BY <1>1, <1>2 DEF a

\* The two stages.
LEMMA EvidenceStagesAre == /\ Stages = {"computation", "analysis_visualization"}
                           /\ Writing = "writing"
  BY DEF Stages, Computation, Analysis, Writing

\* A workflow has some of them.
LEMMA SequenceOfStages == sequence \subseteq Stages
  BY DEF sequence, Suffix, Stages

\* The step of a session through an intake keeps the types.
LEMMA IntakeType ==
    ASSUME EvidenceTypeOK, TodoInv, NEW s \in Sessions, IntakeStep(s) \/ UpdateWorkflow(s)
    PROVE  EvidenceTypeOK' /\ TodoInv'
  <1> USE DEF RegisterSteps
  <1>0. call[s].step \in RegisterSteps => /\ call[s] \in Registers
                                          /\ call[s].stage \in Stages
    BY CallAt DEF Registers
  <1>1. CASE RegisterEntry(s)
    <2> DEFINE e == Head(call[s].todo)
               id == Len(arts) + 1
               c == [call[s] EXCEPT !.todo = Tail(@), !.ids = @ \cup {id},
                                    !.sources = IF e.role \in {"script", "input"} THEN @ \cup {id} ELSE @,
                                    !.step = IF Len(call[s].todo) = 1 THEN "write" ELSE @]
    <2>1. call[s].step = "register" /\ call[s] \in Registers
      BY <1>0, <1>1 DEF RegisterEntry
    <2>2. call[s].todo \in Seq(Entries) /\ call[s].todo # <<>>
      BY <2>1 DEF Registers, TodoInv
    <2>3. e \in Entries /\ Tail(call[s].todo) \in Seq(Entries)
          /\ Len(Tail(call[s].todo)) = Len(call[s].todo) - 1
      BY <2>2
    <2>4. id \in Nat
      BY DEF EvidenceTypeOK
    <2>5. /\ call[s].ids \cup {id} \in SUBSET Nat
          /\ call[s].sources \in SUBSET Nat /\ call[s].sources \cup {id} \in SUBSET Nat
      BY <2>1, <2>4 DEF Registers
    <2>6. /\ arts' = Append(arts, Artifact(call[s].stage, e.key, e.key, Parents(call[s], e), e.real))
          /\ call' = [call EXCEPT ![s] = c]
      BY <1>1 DEF RegisterEntry, EvidenceTypeOK
    <2>7. /\ call[s].stage \in Stages /\ call[s].parents \in SUBSET Nat
          /\ e.key \in Keys /\ e.real \in BOOLEAN
          /\ Parents(call[s], e) \in SUBSET Nat
      BY <2>1, <2>3, <2>5 DEF Registers, Entries, Parents
    <2>8. c \in Registers /\ (c.step = "register" => c.todo # <<>>)
      <3>1. /\ c.todo = Tail(call[s].todo)
            /\ c.step = IF Len(call[s].todo) = 1 THEN "write" ELSE call[s].step
        BY <2>1 DEF Registers
      <3>2. c \in Registers
        BY <2>1, <2>3, <2>5 DEF Registers
      <3>3. ASSUME c.step = "register" PROVE c.todo # <<>>
        <4>1. Len(call[s].todo) # 1
          BY <3>1, <3>3
        <4>2. Len(Tail(call[s].todo)) # 0
          BY <2>2, <2>3, <4>1
        <4>3. Tail(call[s].todo) # <<>>
          BY <4>2, NotEmpty, Zenon
        <4> QED BY <3>1, <4>3, Zenon
      <3> QED BY <3>2, <3>3
    <2>9. c \in Calls
      BY <2>8 DEF Calls
    <2>10. call' \in [Sessions -> Calls] /\ TodoInv'
      <3> HIDE DEF c
      <3> QED BY <2>6, <2>8, <2>9, CallReplaced
    <2>11. arts' \in Seq(Artifacts)
      <3> HIDE DEF e
      <3> QED BY <2>6, <2>7, ArtifactAppended
    <2> QED BY <1>1, <2>10, <2>11 DEF RegisterEntry, EvidenceTypeOK, reports
  <1>2. CASE WriteManifest(s)
    <2>1. call' \in [Sessions -> Calls] /\ TodoInv'
      BY <1>2, CallGoes DEF WriteManifest, Goto
    <2>2. call[s].manifest \in Keys
      BY <1>0, <1>2 DEF WriteManifest, Registers
    <2> QED BY <1>2, <2>1, <2>2 DEF WriteManifest, EvidenceTypeOK, reports
  <1>3. CASE RegisterManifest(s)
    <2>1. call[s] \in Registers
      BY <1>0, <1>3 DEF RegisterManifest
    <2>2. call' \in [Sessions -> Calls] /\ TodoInv'
      BY <1>3, CallGoes, CallEnds DEF RegisterManifest, Goto
    <2>3. /\ call[s].stage \in Stages /\ call[s].manifest \in Keys
          /\ call[s].parents \cup call[s].ids \in SUBSET Nat
      BY <2>1 DEF Registers
    <2>4. arts' \in Seq(Artifacts)
      BY <1>3, <2>3, ArtifactAppended DEF RegisterManifest
    <2> QED BY <1>3, <2>2, <2>4 DEF RegisterManifest, EvidenceTypeOK, reports
  <1>4. CASE JudgeReadiness(s)
    <2>1. call' \in [Sessions -> Calls] /\ TodoInv'
      BY <1>4, CallGoes, CallEnds DEF JudgeReadiness, Goto
    <2> QED BY <1>4, <2>1 DEF JudgeReadiness, EvidenceTypeOK, reports
  <1>5. CASE CompleteStage(s)
    <2>1. call' \in [Sessions -> Calls] /\ TodoInv'
      BY <1>5, CallGoes DEF CompleteStage, Goto
    <2>2. call[s].stage \in Stages
      BY <1>0, <1>5 DEF CompleteStage
    <2>3. /\ DOMAIN stages' \subseteq Stages
          /\ \A t \in DOMAIN stages' : stages'[t] \in Results \cup {"in_progress"}
          /\ executed' \in SUBSET Stages
      BY <1>5, <2>2 DEF CompleteStage, SetStatus, EvidenceTypeOK, Results
    <2> QED BY <1>5, <2>1, <2>3 DEF CompleteStage, EvidenceTypeOK, reports
  <1>6. CASE CheckpointStage(s)
    <2>1. call' \in [Sessions -> Calls] /\ TodoInv'
      BY <1>6, CallGoes, CallEnds DEF CheckpointStage, Goto
    <2>2. call[s].stage \in Stages
      BY <1>0, <1>6 DEF CheckpointStage
    <2> QED BY <1>6, <2>1, <2>2 DEF CheckpointStage, EvidenceTypeOK, reports
  <1>7. CASE UpdateWorkflow(s)
    <2>1. call' \in [Sessions -> Calls] /\ TodoInv'
      BY <1>7, CallEnds DEF UpdateWorkflow
    <2>2. workflow' = [workflow EXCEPT !.current = "computation"]
      BY <1>7 DEF UpdateWorkflow, Computation
    <2>3. workflow \in [entry : EntryPoints, current : EntryPoints]
      BY DEF EvidenceTypeOK
    <2>4. "computation" \in EntryPoints
      BY DEF EntryPoints, Computation
    <2>5. workflow' \in [entry : EntryPoints, current : EntryPoints]
      BY <2>2, <2>3, <2>4
    <2> QED BY <1>7, <2>1, <2>5 DEF UpdateWorkflow, EvidenceTypeOK, reports
  <1> QED BY <1>1, <1>2, <1>3, <1>4, <1>5, <1>6, <1>7 DEF IntakeStep

\* What is delivered.
LEMMA DeliveredType ==
    ASSUME EvidenceTypeOK
    PROVE  /\ \A readable, checkpointed \in BOOLEAN :
                Manifest(plan, readable, checkpointed) \in Manifests
           /\ \A checkpointed \in BOOLEAN, m \in {None} \cup Manifests :
                Handoff(m, checkpointed) \in Handoffs
  <1>1. \A p \in Plans \cup {NoPlan} : ExecutionTruth(p) \in Truths
    <2> SUFFICES ASSUME NEW p \in Plans \cup {NoPlan}
                 PROVE  ExecutionTruth(p) \in Truths
      OBVIOUS
    <2>1. /\ p.dry \in BOOLEAN /\ p.real \in BOOLEAN /\ p.required \in BOOLEAN
          /\ p.gate \in PlanGates
      <3>1. CASE p \in Plans
        BY <3>1 DEF Plans
      <3>2. CASE p = NoPlan
        BY <3>2 DEF NoPlan, PlanGates
      <3> QED BY <3>1, <3>2
    <2>2. Sanitize(p.gate) \in PlanGates \cup {"redacted", "short"}
      BY <2>1 DEF Sanitize
    <2> QED BY <2>1, <2>2 DEF ExecutionTruth, WithGate, Truths
  <1>2. ASSUME NEW readable \in BOOLEAN, NEW checkpointed \in BOOLEAN
        PROVE  Manifest(plan, readable, checkpointed) \in Manifests
    <2>1. (IF readable THEN plan ELSE NoPlan) \in Plans \cup {NoPlan}
      BY DEF EvidenceTypeOK
    <2>2. ExecutionTruth(IF readable THEN plan ELSE NoPlan) \in Truths
      BY <1>1, <2>1
    <2> QED BY <2>2 DEF Manifest, Manifests
  <1>3. ASSUME NEW checkpointed \in BOOLEAN, NEW m \in {None} \cup Manifests
        PROVE  Handoff(m, checkpointed) \in Handoffs
    <2>1. Truth(IF m = None THEN NoPlan ELSE m.truth) \in Declarations
      BY DEF Manifests, NoPlan, Truths, Truth, Declarations
    <2>2. (checkpointed \/ (m # None /\ m.checkpointed)) \in BOOLEAN
      OBVIOUS
    <2> QED BY <2>1, <2>2 DEF Handoff, Handoffs
  <1> QED BY <1>2, <1>3

\* The steps of a delivery keep the types.
LEMMA DeliveryType ==
    ASSUME EvidenceTypeOK, TodoInv, NEW s \in Sessions,
           BuildPackage(s) \/ GenerateHandoff(s) \/ Write(s) \/ Enter(s)
    PROVE  EvidenceTypeOK' /\ TodoInv'
  <1>1. CASE BuildPackage(s)
    <2> DEFINE m == Manifest(plan, Readable, checkpoints # {})
               c == [step |-> "package", data |-> m]
    <2>1. Deliver(s, "package", m)
      BY <1>1 DEF BuildPackage
    <2>2. Readable \in BOOLEAN
      BY DEF Readable, Registered
    <2>3. m \in Manifests
      BY <2>2, DeliveredType
    <2>4. c \in Packages /\ c.step # "register"
      BY <2>3 DEF Packages
    <2>5. c \in Calls
      BY <2>4 DEF Calls
    <2> HIDE DEF m
    <2>6. call' \in [Sessions -> Calls] /\ TodoInv' /\ left' \in Bounds
      <3>1. call' = [call EXCEPT ![s] = c]
        BY <2>1 DEF Deliver
      <3>2. left' \in Bounds
        BY <2>1, Spent DEF Deliver
      <3> HIDE DEF c
      <3> QED BY <3>1, <3>2, <2>4, <2>5, CallReplaced
    <2> QED BY <2>1, <2>6 DEF Deliver, EvidenceTypeOK, reports
  <1>2. CASE GenerateHandoff(s)
    <2> DEFINE h == Handoff(IF Registered("package") THEN manifest ELSE None, checkpoints # {})
               c == [step |-> "handoff", data |-> h]
    <2>1. Deliver(s, "handoff", h)
      BY <1>2 DEF GenerateHandoff
    <2>2. (IF Registered("package") THEN manifest ELSE None) \in {None} \cup Manifests
      BY DEF EvidenceTypeOK
    <2>3. h \in Handoffs
      BY <2>2, DeliveredType
    <2>4. c \in HandoffCalls /\ c.step # "register"
      BY <2>3 DEF HandoffCalls
    <2>5. c \in Calls
      BY <2>4 DEF Calls
    <2> HIDE DEF h
    <2>6. call' \in [Sessions -> Calls] /\ TodoInv' /\ left' \in Bounds
      <3>1. call' = [call EXCEPT ![s] = c]
        BY <2>1 DEF Deliver
      <3>2. left' \in Bounds
        BY <2>1, Spent DEF Deliver
      <3> HIDE DEF c
      <3> QED BY <3>1, <3>2, <2>4, <2>5, CallReplaced
    <2> QED BY <2>1, <2>6 DEF Deliver, EvidenceTypeOK, reports
  <1>3. CASE Write(s)
    <2> DEFINE c == [step |-> "enter", what |-> call[s].step]
    <2>1. call[s].step \in {"package", "handoff"}
      BY <1>3 DEF Write, Deliveries
    <2>2. c \in Enters /\ c.step # "register"
      BY <2>1 DEF Enters
    <2>3. c \in Calls
      BY <2>2 DEF Calls
    <2>4. call' \in [Sessions -> Calls] /\ TodoInv'
      <3>1. call' = [call EXCEPT ![s] = c]
        BY <1>3 DEF Write
      <3> HIDE DEF c
      <3> QED BY <3>1, <2>2, <2>3, CallReplaced
    <2>5. manifest' \in {None} \cup Manifests /\ handoff' \in {None} \cup Handoffs
      <3>1. CASE call[s].step = "package"
        BY <1>3, <3>1, CallAt DEF Write, Packages, EvidenceTypeOK
      <3>2. CASE call[s].step = "handoff"
        BY <1>3, <3>2, CallAt DEF Write, HandoffCalls, EvidenceTypeOK
      <3> QED BY <2>1, <3>1, <3>2
    <2> QED BY <1>3, <2>4, <2>5 DEF Write, EvidenceTypeOK
  <1>4. CASE Enter(s)
    <2>1. call[s].what \in {"package", "handoff"} /\ call[s].what \in Keys
      BY <1>4, CallAt, ContractAssumption DEF Enter, Enters, OwnKeys
    <2>2. call' \in [Sessions -> Calls] /\ TodoInv'
      BY <1>4, CallEnds DEF Enter
    <2>3. arts' \in Seq(Artifacts)
      BY <1>4, <2>1, ArtifactAppended, EvidenceStagesAre DEF Enter
    <2> QED BY <1>4, <2>1, <2>2, <2>3 DEF Enter, EvidenceTypeOK, reports
  <1> QED BY <1>1, <1>2, <1>3, <1>4

\* The calls that begin keep the types.
LEMMA RecordType ==
    ASSUME EvidenceTypeOK, TodoInv, Record
    PROVE  EvidenceTypeOK' /\ TodoInv'
  <1>1. PICK s \in Sessions :
            \/ \E r \in left.requests :
                /\ RecordComputation(s, r) \/ RecordAnalysis(s, r)
                /\ left' = [left EXCEPT !.requests = @ \ {r}]
            \/ \E r \in left.helpers :
                /\ RecordHelper(s, r)
                /\ left' = [left EXCEPT !.helpers = @ \ {r}]
    BY DEF Record
  <1>2. ASSUME NEW r \in left.requests, Begin(s, r), left' = [left EXCEPT !.requests = @ \ {r}]
        PROVE  EvidenceTypeOK' /\ TodoInv'
    <2>1. r \in Requests /\ left' \in Bounds
      BY <1>2, RequestTaken
    <2>2. /\ r.stage \in Stages /\ r.entries \in Seq(Entries) \ {<<>>}
          /\ r.parents \in SUBSET Nat /\ r.complete \in BOOLEAN
      BY <2>1 DEF Requests
    <2>3. IntakeManifest(r.stage) \in Keys
      BY ContractAssumption DEF IntakeManifest, OwnKeys
    <2>4. call' \in [Sessions -> Calls] /\ TodoInv'
      BY <1>2, <2>2, <2>3, CallBegins DEF Begin
    <2> QED BY <1>2, <2>1, <2>4 DEF Begin, EvidenceTypeOK, reports
  <1>3. ASSUME NEW r \in left.helpers, RecordHelper(s, r), left' = [left EXCEPT !.helpers = @ \ {r}]
        PROVE  EvidenceTypeOK' /\ TodoInv'
    <2>1. r \in Helpers /\ left' \in Bounds
      BY <1>3, RequestTaken
    <2>2. /\ r.stage \in Stages /\ r.parents \in SUBSET Nat
          /\ Range(r.outputs) \subseteq Keys
      BY <2>1 DEF Helpers, Range
    <2>3. HelperEntries(r) \in Seq(Entries) \ {<<>>}
      BY <2>1, HelperEntriesType
    <2>6. HelperRun \in Keys
      BY ContractAssumption DEF HelperRun, OwnKeys
    <2>4. call' \in [Sessions -> Calls] /\ TodoInv'
      BY <1>3, <2>2, <2>3, <2>6, CallBegins DEF RecordHelper
    <2>5. present' \in SUBSET Keys
      BY <1>3, <2>2 DEF RecordHelper, EvidenceTypeOK
    <2> QED BY <1>3, <2>1, <2>4, <2>5 DEF RecordHelper, EvidenceTypeOK, reports
  <1> QED BY <1>1, <1>2, <1>3 DEF RecordComputation, RecordAnalysis

\* A stage's status is set.
LEMMA StatusSet ==
    ASSUME EvidenceTypeOK, NEW stage \in Stages, NEW status \in Results \cup {"in_progress"},
           SetStatus(stage, status, TRUE)
    PROVE  /\ DOMAIN stages' \subseteq Stages
           /\ \A t \in DOMAIN stages' : stages'[t] \in Results \cup {"in_progress"}
           /\ executed' \in SUBSET Stages
  BY DEF SetStatus, EvidenceTypeOK

\* A sequence is appended to another one.
LEMMA Appended ==
    ASSUME NEW S, NEW p \in Seq(S), NEW q \in Seq(S)
    PROVE  /\ p \o q \in Seq(S)
           /\ \A i \in DOMAIN p : i \in DOMAIN (p \o q) /\ (p \o q)[i] = p[i]
           /\ \A i \in DOMAIN (p \o q) \ DOMAIN p :
                i - Len(p) \in DOMAIN q /\ (p \o q)[i] = q[i - Len(p)]
  <1>1. /\ p \o q \in Seq(S) /\ Len(p \o q) = Len(p) + Len(q)
        /\ DOMAIN p = 1..Len(p) /\ DOMAIN q = 1..Len(q)
        /\ Len(p) \in Nat /\ Len(q) \in Nat
    OBVIOUS
  <1>2. DOMAIN (p \o q) = 1..(Len(p) + Len(q))
    BY <1>1
  <1>3. \A i \in 1..(Len(p) + Len(q)) :
            (p \o q)[i] = IF i <= Len(p) THEN p[i] ELSE q[i - Len(p)]
    OBVIOUS
  <1> QED BY <1>1, <1>2, <1>3

\* What an execution makes is appended.
LEMMA OutputsAppended ==
    ASSUME EvidenceTypeOK, NEW stage \in Stages, NEW made \in Seq(Keys),
           arts' = arts \o [k \in DOMAIN made |-> Artifact(stage, made[k], made[k], {}, FALSE)]
    PROVE  /\ arts' \in Seq(Artifacts)
           /\ \A i \in DOMAIN arts : i \in DOMAIN arts' /\ arts'[i] = arts[i]
           /\ \A i \in DOMAIN arts' \ DOMAIN arts : arts'[i].stage = stage
  <1> DEFINE more == [k \in DOMAIN made |-> Artifact(stage, made[k], made[k], {}, FALSE)]
  <1>1. \A k \in DOMAIN made : more[k] \in Artifacts /\ more[k].stage = stage
    BY DEF Artifact, Artifacts
  <1>2. DOMAIN made = 1..Len(made) /\ Len(made) \in Nat
    OBVIOUS
  <1>3. more \in Seq(Artifacts) /\ DOMAIN more = DOMAIN made
    <2>1. DOMAIN more = 1..Len(made)
      BY <1>2
    <2>2. more \in [1..Len(made) -> Artifacts]
      BY <1>1, <1>2
    <2> HIDE DEF more
    <2> QED BY <1>2, <2>1, <2>2
  <1>4. \A k \in DOMAIN more : more[k].stage = stage
    BY <1>1, <1>3
  <1>5. arts \in Seq(Artifacts) /\ arts' = arts \o more
    BY DEF EvidenceTypeOK
  <1> HIDE DEF more
  <1>6. /\ arts \o more \in Seq(Artifacts)
        /\ \A i \in DOMAIN arts : i \in DOMAIN (arts \o more) /\ (arts \o more)[i] = arts[i]
        /\ \A i \in DOMAIN (arts \o more) \ DOMAIN arts :
             i - Len(arts) \in DOMAIN more /\ (arts \o more)[i] = more[i - Len(arts)]
    BY <1>3, <1>5, Appended
  <1> QED BY <1>4, <1>5, <1>6

\* The executor's steps keep the types.
LEMMA ExecutionType ==
    ASSUME EvidenceTypeOK, TodoInv, Execute \/ \E s \in Sessions : Execution(s)
    PROVE  EvidenceTypeOK' /\ TodoInv'
  <1>0. Stages \subseteq EntryPoints
    BY DEF Stages, EntryPoints, Computation, Analysis
  <1>1. ASSUME NEW s \in Sessions, NEW r \in left.runs, ExecuteStage(s, r),
               left' = [left EXCEPT !.runs = @ \ {r}]
        PROVE  EvidenceTypeOK' /\ TodoInv'
    <2>1. r \in Runs /\ left' \in Bounds
      BY <1>1, RequestTaken
    <2>2. r.stage \in Stages /\ r.stage \in EntryPoints
      BY <1>0, <2>1 DEF Runs
    <2>3. CASE r.result = "pending"
      <3>1. SetStatus(r.stage, "pending", TRUE) /\ UNCHANGED <<workflow, call>>
        BY <1>1, <2>3 DEF ExecuteStage
      <3>2. "pending" \in Results \cup {"in_progress"}
        BY DEF Results
      <3>3. /\ DOMAIN stages' \subseteq Stages
            /\ \A t \in DOMAIN stages' : stages'[t] \in Results \cup {"in_progress"}
            /\ executed' \in SUBSET Stages
        BY <2>2, <3>1, <3>2, StatusSet
      <3> QED BY <1>1, <2>1, <3>1, <3>3 DEF ExecuteStage, EvidenceTypeOK, TodoInv, reports
    <2>4. CASE r.result # "pending"
      <3> DEFINE c == [step |-> "helpers", run |-> r]
      <3>1. /\ SetStatus(r.stage, "in_progress", TRUE)
            /\ workflow' = [workflow EXCEPT !.current = r.stage]
            /\ call' = [call EXCEPT ![s] = c]
        BY <1>1, <2>4 DEF ExecuteStage
      <3>2. /\ DOMAIN stages' \subseteq Stages
            /\ \A t \in DOMAIN stages' : stages'[t] \in Results \cup {"in_progress"}
            /\ executed' \in SUBSET Stages
        BY <2>2, <3>1, StatusSet
      <3>3. c \in Calls /\ c.step # "register"
        BY <2>1 DEF Calls, Executions
      <3>4. call' \in [Sessions -> Calls] /\ TodoInv'
        <4> HIDE DEF c
        <4> QED BY <3>1, <3>3, CallReplaced
      <3>5. workflow' \in [entry : EntryPoints, current : EntryPoints]
        BY <2>2, <3>1 DEF EvidenceTypeOK
      <3> QED BY <1>1, <2>1, <3>2, <3>4, <3>5 DEF ExecuteStage, EvidenceTypeOK, reports
    <2> QED BY <2>3, <2>4
  <1>2. ASSUME NEW s \in Sessions, RunHelpers(s)
        PROVE  EvidenceTypeOK' /\ TodoInv'
    <2> DEFINE c == [call[s] EXCEPT !.step = "end"]
               made == call[s].run.outputs
    <2>1. call[s] \in Executions
      BY <1>2, CallAt DEF RunHelpers
    <2>2. c \in Calls /\ c.step # "register"
      BY <2>1 DEF Executions, Calls
    <2>3. call' = [call EXCEPT ![s] = c]
      BY <1>2 DEF RunHelpers, Goto
    <2>4. call' \in [Sessions -> Calls] /\ TodoInv'
      <3> HIDE DEF c
      <3> QED BY <2>2, <2>3, CallReplaced
    <2>5. call[s].run.stage \in Stages /\ made \in Seq(Keys)
      BY <2>1 DEF Executions, Runs
    <2>6. arts' \in Seq(Artifacts)
      BY <1>2, <2>5, OutputsAppended DEF RunHelpers
    <2>7. present' \in SUBSET Keys
      <3>1. Range(made) \subseteq Keys
        BY <2>5 DEF Range
      <3> QED BY <1>2, <3>1 DEF RunHelpers, EvidenceTypeOK
    <2> QED BY <1>2, <2>4, <2>6, <2>7 DEF RunHelpers, EvidenceTypeOK, reports
  <1>3. ASSUME NEW s \in Sessions, EndExecution(s)
        PROVE  EvidenceTypeOK' /\ TodoInv'
    <2> DEFINE r == call[s].run
    <2>1. call[s] \in Executions
      BY <1>3, CallAt DEF EndExecution
    <2>2. r.stage \in Stages /\ r.stage \in EntryPoints /\ r.result \in Results
      BY <1>0, <2>1 DEF Executions, Runs
    <2>3. /\ DOMAIN stages' \subseteq Stages
          /\ \A t \in DOMAIN stages' : stages'[t] \in Results \cup {"in_progress"}
          /\ executed' \in SUBSET Stages
      BY <1>3, <2>2, StatusSet DEF EndExecution
    <2>4. call' \in [Sessions -> Calls] /\ TodoInv'
      BY <1>3, CallEnds DEF EndExecution
    <2>5. workflow' \in [entry : EntryPoints, current : EntryPoints]
      BY <1>3, <2>2 DEF EndExecution, EvidenceTypeOK
    <2>6. checkpoints' \in SUBSET Stages
      BY <1>3 DEF EndExecution, EvidenceTypeOK, Stages
    <2> QED BY <1>3, <2>3, <2>4, <2>5, <2>6 DEF EndExecution, EvidenceTypeOK, reports
  <1> QED BY <1>1, <1>2, <1>3 DEF Execute, Execution

\* What the user does keeps the types.
LEMMA FollowType ==
    ASSUME EvidenceTypeOK, TodoInv,
           NEW stage \in followed, Follow(stage)
    PROVE  EvidenceTypeOK' /\ TodoInv'
  <1>0. stage \in Stages /\ stage \in EntryPoints
    <2>1. stage \in sequence
      BY DEF followed
    <2>2. stage \in Stages
      BY <2>1, SequenceOfStages
    <2> QED BY <2>2 DEF Stages, EntryPoints, Computation, Analysis
  <1>1. CASE BringEvidence(stage)
    <2>1. PICK k \in Contract[stage] \cup {"job_record_if_submitted"} :
            /\ present' = present \cup {k}
            /\ call' = [call EXCEPT ![User] =
                 Registering(stage, <<Entry("evidence", k)>>, {}, TRUE, IntakeManifest(stage))]
      BY <1>1 DEF BringEvidence
    <2>2. k \in Keys /\ User \in Sessions
      BY <1>0, ContractAssumption DEF OwnKeys
    <2>3. <<Entry("evidence", k)>> \in Seq(Entries) \ {<<>>}
      BY <2>2 DEF Entry, Entries
    <2>4. IntakeManifest(stage) \in Keys
      BY ContractAssumption DEF IntakeManifest, OwnKeys
    <2>5. call' \in [Sessions -> Calls] /\ TodoInv'
      BY <1>0, <2>1, <2>2, <2>3, <2>4, CallBegins
    <2> QED BY <1>1, <2>1, <2>2, <2>5 DEF BringEvidence, EvidenceTypeOK, reports
  <1>2. CASE RestoreFiles(stage)
    <2>1. \A i \in Own(stage, arts) : arts[i].file \in Keys
      <3>1. \A i \in DOMAIN arts : arts[i] \in Artifacts
        BY DEF EvidenceTypeOK
      <3> QED BY <3>1 DEF Own, Artifacts
    <2> QED BY <1>2, <2>1 DEF RestoreFiles, EvidenceTypeOK, reports, TodoInv
  <1>3. CASE Approve(stage)
    BY <1>3 DEF Approve, EvidenceTypeOK, reports, TodoInv
  <1>4. CASE StartStage(stage)
    <2>1. /\ DOMAIN stages' \subseteq Stages
          /\ \A t \in DOMAIN stages' : stages'[t] \in Results \cup {"in_progress"}
          /\ executed' \in SUBSET Stages
      BY <1>0, <1>4 DEF StartStage, SetStatus, EvidenceTypeOK
    <2>2. workflow' \in [entry : EntryPoints, current : EntryPoints]
      BY <1>0, <1>4 DEF StartStage, EvidenceTypeOK
    <2> QED BY <1>4, <2>1, <2>2 DEF StartStage, EvidenceTypeOK, reports, TodoInv
  <1> QED BY <1>1, <1>2, <1>3, <1>4 DEF Follow

\* The other steps keep the types.
LEMMA DisturbanceType ==
    ASSUME EvidenceTypeOK, TodoInv,
           \/ Verify \/ InitResearch \/ EditPlan \/ RemoveFile
           \/ Decide \/ SessionDies \/ UNCHANGED evVars
    PROVE  EvidenceTypeOK' /\ TodoInv'
  <1>1. CASE Verify
    <2>1. arts' \in Seq(Artifacts)
      <3>1. Verification \in Keys /\ Writing \in Stages \cup {"writing"}
        BY EvidenceStagesAre, ContractAssumption DEF Verification, OwnKeys
      <3> QED BY <1>1, <3>1, ArtifactAppended DEF Verify
    <2>2. left' \in Bounds
      BY <1>1, Spent DEF Verify
    <2> QED BY <1>1, <2>1, <2>2, ContractAssumption DEF Verify, EvidenceTypeOK, TodoInv, Verification, OwnKeys
  <1>2. CASE InitResearch
    <2>1. metadata' \in EntryPoints /\ left' \in Bounds
      BY <1>2, RequestTaken DEF InitResearch
    <2> QED BY <1>2, <2>1 DEF InitResearch, EvidenceTypeOK, reports, TodoInv
  <1>3. CASE EditPlan
    <2>1. left' \in Bounds
      BY <1>3, Spent DEF EditPlan
    <2>2. plan' \in Plans
      BY <1>3, ContractAssumption DEF EditPlan
    <2> QED BY <1>3, <2>1, <2>2 DEF EditPlan, EvidenceTypeOK, reports, TodoInv
  <1>4. CASE RemoveFile
    <2>1. left' \in Bounds
      BY <1>4, Spent DEF RemoveFile
    <2> QED BY <1>4, <2>1 DEF RemoveFile, EvidenceTypeOK, reports, TodoInv
  <1>5. CASE Decide
    <2>1. left' \in Bounds
      BY <1>5, Spent DEF Decide
    <2> QED BY <1>5, <2>1 DEF Decide, EvidenceTypeOK, reports, TodoInv
  <1>6. CASE SessionDies
    <2>1. left' \in Bounds
      BY <1>6, Spent DEF SessionDies
    <2>2. call' \in [Sessions -> Calls] /\ TodoInv'
      BY <1>6, CallEnds DEF SessionDies
    <2> QED BY <1>6, <2>1, <2>2 DEF SessionDies, EvidenceTypeOK, reports
  <1>7. CASE UNCHANGED evVars
    BY <1>7 DEF evVars, EvidenceTypeOK, TodoInv
  <1> QED BY <1>1, <1>2, <1>3, <1>4, <1>5, <1>6, <1>7

\* No step takes a variable out of its type.
LEMMA EvidenceNextType ==
    ASSUME EvidenceTypeOK, TodoInv, [EvNext]_evVars
    PROVE  EvidenceTypeOK' /\ TodoInv'
  <1>1. ASSUME NEW s \in Sessions, Work(s) PROVE EvidenceTypeOK' /\ TodoInv'
    BY <1>1, IntakeType, ExecutionType, DeliveryType DEF Work, ComputationIntake, AnalysisIntake
  <1>2. ASSUME NEW s \in Sessions, BuildPackage(s) \/ GenerateHandoff(s)
        PROVE  EvidenceTypeOK' /\ TodoInv'
    BY <1>2, DeliveryType
  <1> QED BY <1>1, <1>2, RecordType, ExecutionType, FollowType, DisturbanceType DEF EvNext

\* The intake of evidence and the deliveries: every state file, record and
\* report keeps its type, and a call that registers is never out of entries.
THEOREM EvidenceTypes == EvSpec => []EvidenceTypeOK
  <1> DEFINE I == EvidenceTypeOK /\ TodoInv
  <1>1. EvInit => I
    BY EvidenceInitType
  <1>2. I /\ [EvNext]_evVars => I'
    BY EvidenceNextType
  <1>3. I => EvidenceTypeOK
    OBVIOUS
  <1> HIDE DEF I
  <1> QED BY <1>1, <1>2, <1>3, PTL DEF EvSpec

\* What a step does to the artifacts: they stay, and an artifact that is added
\* to the writing stage is a delivery that is there and names no parents.
DeliveryFiles == {"package", "handoff", "verification_report"}
ArtsEffect ==
    /\ \A i \in DOMAIN arts : i \in DOMAIN arts' /\ arts'[i] = arts[i]
    /\ \A i \in DOMAIN arts' \ DOMAIN arts : arts'[i].stage = "writing" =>
            arts'[i].file \in DeliveryFiles \cap present' /\ arts'[i].parents = {}
    /\ present \cap DeliveryFiles \subseteq present'

\* The executor apart, a stage is started, or completed by a session that is
\* about to.
StagesEffect ==
    \A t \in DOMAIN stages' \ executed' :
        \/ t \in DOMAIN stages \ executed /\ stages'[t] = stages[t]
        \/ stages'[t] = "in_progress"
        \/ /\ stages'[t] = "completed"
           /\ \E s \in Sessions : call[s].step = "complete" /\ call[s].stage = t

\* A session is about to complete a stage that it has found to be ready.
CallEffect ==
    \A s \in Sessions : call'[s].step = "complete" =>
        /\ call'[s].stage = call[s].stage /\ call[s].stage \in Stages
        /\ \/ call[s].step = "complete"
           \/ ReadinessStatus(call[s].stage, arts, present, decisions) = "ready"

\* A step that leaves the artifacts alone.
LEMMA NoArtifact ==
    ASSUME arts' = arts, present \cap DeliveryFiles \subseteq present' PROVE ArtsEffect
  BY DEF ArtsEffect

\* A step of a session at its call.
LEMMA NoCompletion ==
    ASSUME EvidenceTypeOK, NEW s \in Sessions, NEW c, call' = [call EXCEPT ![s] = c], c.step # "complete"
    PROVE  CallEffect
  <1> SUFFICES ASSUME NEW t \in Sessions, call'[t].step = "complete"
               PROVE  call'[t] = call[t] /\ call[t].stage \in Stages
    BY DEF CallEffect
  <1>1. call \in [Sessions -> Calls]
    BY DEF EvidenceTypeOK
  <1>2. t # s
    BY <1>1
  <1>3. call'[t] = call[t]
    BY <1>1, <1>2
  <1>4. call[t] \in Registers
    BY <1>3, CallAt DEF RegisterSteps
  <1> QED BY <1>3, <1>4 DEF Registers

\* A step that leaves the calls alone.
LEMMA NoCall ==
    ASSUME EvidenceTypeOK, call' = call PROVE CallEffect
  <1>1. \A s \in Sessions : call[s].step = "complete" => call[s].stage \in Stages
    BY CallAt DEF RegisterSteps, Registers
  <1> QED BY <1>1 DEF CallEffect

\* A call that ends.
LEMMA CallIsOver ==
    ASSUME EvidenceTypeOK, NEW s \in Sessions, Done(s) PROVE CallEffect
  <1>1. Idle.step # "complete"
    BY DEF Idle
  <1> QED BY <1>1, NoCompletion DEF Done

\* A call goes on with another step.
LEMMA CallWent ==
    ASSUME EvidenceTypeOK, NEW s \in Sessions, call[s].step \in RegisterSteps,
           NEW step \in RegisterSteps, Goto(s, step)
    PROVE  /\ call[s].stage \in Stages
           /\ step # "complete" => CallEffect
           /\ ReadinessStatus(call[s].stage, arts, present, decisions) = "ready" => CallEffect
  <1>1. call[s] \in Registers /\ call \in [Sessions -> Calls]
    BY CallAt DEF EvidenceTypeOK
  <1>2. call[s].stage \in Stages
    BY <1>1 DEF Registers
  <1>3. /\ call'[s].step = step /\ call'[s].stage = call[s].stage
        /\ \A t \in Sessions \ {s} : call'[t] = call[t]
    BY <1>1 DEF Goto, Registers
  <1>4. \A t \in Sessions : call[t].step = "complete" => call[t].stage \in Stages
    BY CallAt DEF RegisterSteps, Registers
  <1> QED BY <1>2, <1>3, <1>4 DEF CallEffect

\* What the steps of an intake do.
LEMMA IntakeEffect ==
    ASSUME EvidenceTypeOK, NEW s \in Sessions, IntakeStep(s) \/ UpdateWorkflow(s), TodoInv
    PROVE  ArtsEffect /\ StagesEffect /\ CallEffect
  <1>0. call[s].step \in RegisterSteps => call[s] \in Registers /\ call[s].stage \in Stages
    BY CallAt DEF Registers
  <1>1. CASE RegisterEntry(s)
    <2> DEFINE e == Head(call[s].todo)
               id == Len(arts) + 1
               c == [call[s] EXCEPT !.todo = Tail(@), !.ids = @ \cup {id},
                                    !.sources = IF e.role \in {"script", "input"} THEN @ \cup {id} ELSE @,
                                    !.step = IF Len(call[s].todo) = 1 THEN "write" ELSE @]
    <2>1. call[s].step = "register" /\ call[s] \in Registers
      BY <1>0, <1>1 DEF RegisterEntry, RegisterSteps
    <2>2. call[s].todo \in Seq(Entries) /\ call[s].todo # <<>>
      BY <2>1 DEF Registers, TodoInv
    <2>3. e \in Entries
      BY <2>2
    <2>4. /\ call[s].stage \in Stages /\ e.key \in Keys /\ e.real \in BOOLEAN
          /\ Parents(call[s], e) \in SUBSET Nat
      BY <2>1, <2>3 DEF Registers, Entries, Parents
    <2>5. /\ arts' = Append(arts, Artifact(call[s].stage, e.key, e.key, Parents(call[s], e), e.real))
          /\ call' = [call EXCEPT ![s] = c]
      BY <1>1 DEF RegisterEntry, EvidenceTypeOK
    <2>6. c.step # "complete"
      BY <2>1 DEF Registers
    <2>7. CallEffect
      <3> HIDE DEF c
      <3> QED BY <2>5, <2>6, NoCompletion
    <2>8. ArtsEffect
      <3> HIDE DEF e
      <3>1. /\ \A i \in DOMAIN arts : i \in DOMAIN arts' /\ arts'[i] = arts[i]
            /\ \A i \in DOMAIN arts' \ DOMAIN arts :
                 arts'[i] = Artifact(call[s].stage, e.key, e.key, Parents(call[s], e), e.real)
        BY <2>4, <2>5, ArtifactAppended
      <3>2. call[s].stage # "writing"
        BY <2>4, EvidenceStagesAre
      <3> QED BY <1>1, <3>1, <3>2 DEF ArtsEffect, Artifact, RegisterEntry
    <2> QED BY <1>1, <2>7, <2>8 DEF StagesEffect, RegisterEntry
  <1>2. CASE WriteManifest(s)
    <2>1. CallEffect
      BY <1>2, CallWent DEF WriteManifest, RegisterSteps
    <2> QED BY <1>2, <2>1, NoArtifact DEF WriteManifest, StagesEffect
  <1>3. CASE RegisterManifest(s)
    <2>1. call[s] \in Registers
      BY <1>0, <1>3 DEF RegisterManifest, RegisterSteps
    <2>2. CallEffect
      BY <1>3, CallWent, CallIsOver DEF RegisterManifest, RegisterSteps
    <2>3. /\ call[s].stage \in Stages /\ call[s].manifest \in Keys
          /\ call[s].parents \cup call[s].ids \in SUBSET Nat
      BY <2>1 DEF Registers
    <2>4. ArtsEffect
      <3>0. PICK real \in BOOLEAN :
                arts' = Append(arts, Artifact(call[s].stage, call[s].manifest, call[s].manifest,
                                                       call[s].parents \cup call[s].ids, real))
        BY <1>3 DEF RegisterManifest
      <3>1. /\ \A i \in DOMAIN arts : i \in DOMAIN arts' /\ arts'[i] = arts[i]
            /\ \A i \in DOMAIN arts' \ DOMAIN arts :
                 arts'[i] = Artifact(call[s].stage, call[s].manifest, call[s].manifest,
                                              call[s].parents \cup call[s].ids, real)
        BY <2>3, <3>0, ArtifactAppended
      <3>2. call[s].stage # "writing"
        BY <2>3, EvidenceStagesAre
      <3> QED BY <1>3, <3>1, <3>2 DEF ArtsEffect, Artifact, RegisterManifest
    <2> QED BY <1>3, <2>2, <2>4 DEF StagesEffect, RegisterManifest
  <1>4. CASE JudgeReadiness(s)
    <2>1. CallEffect
      BY <1>4, CallWent, CallIsOver DEF JudgeReadiness, RegisterSteps
    <2> QED BY <1>4, <2>1, NoArtifact DEF JudgeReadiness, StagesEffect
  <1>5. CASE CompleteStage(s)
    <2>1. CallEffect
      BY <1>5, CallWent DEF CompleteStage, RegisterSteps
    <2>2. StagesEffect
      BY <1>5 DEF CompleteStage, SetStatus, StagesEffect
    <2> QED BY <1>5, <2>1, <2>2, NoArtifact DEF CompleteStage
  <1>6. CASE CheckpointStage(s)
    <2>1. CallEffect
      BY <1>6, CallWent, CallIsOver DEF CheckpointStage, RegisterSteps
    <2> QED BY <1>6, <2>1, NoArtifact DEF CheckpointStage, StagesEffect
  <1>7. CASE UpdateWorkflow(s)
    BY <1>7, CallIsOver, NoArtifact DEF UpdateWorkflow, StagesEffect
  <1> QED BY <1>1, <1>2, <1>3, <1>4, <1>5, <1>6, <1>7 DEF IntakeStep

\* A delivery is appended.
LEMMA DeliveryAppended ==
    ASSUME EvidenceTypeOK, NEW name, NEW a \in Artifacts, arts' = Append(arts, a),
           a.stage = "writing", a.file = name, a.parents = {}
    PROVE  /\ \A i \in DOMAIN arts : i \in DOMAIN arts' /\ arts'[i] = arts[i]
           /\ \A i \in DOMAIN arts' \ DOMAIN arts :
                /\ arts'[i].stage = "writing" /\ arts'[i].file = name /\ arts'[i].parents = {}
  <1>1. arts \in Seq(Artifacts)
    BY DEF EvidenceTypeOK
  <1>2. /\ \A i \in DOMAIN arts : i \in DOMAIN arts' /\ arts'[i] = arts[i]
        /\ \A i \in DOMAIN arts' \ DOMAIN arts : arts'[i] = a
    BY <1>1
  <1> QED BY <1>2

\* What the steps of a delivery do.
LEMMA DeliveryEffect ==
    ASSUME EvidenceTypeOK, NEW s \in Sessions,
           BuildPackage(s) \/ GenerateHandoff(s) \/ Write(s) \/ Enter(s)
    PROVE  ArtsEffect /\ StagesEffect /\ CallEffect
  <1>1. ASSUME NEW what \in {"package", "handoff"}, NEW data, Deliver(s, what, data)
        PROVE  ArtsEffect /\ StagesEffect /\ CallEffect
    <2> DEFINE c == [step |-> what, data |-> data]
    <2>1. c.step # "complete"
      OBVIOUS
    <2>2. call' = [call EXCEPT ![s] = c]
      BY <1>1 DEF Deliver
    <2>3. CallEffect
      <3> HIDE DEF c
      <3> QED BY <2>1, <2>2, NoCompletion
    <2> QED BY <1>1, <2>3, NoArtifact DEF Deliver, StagesEffect
  <1>2. CASE Write(s)
    <2> DEFINE c == [step |-> "enter", what |-> call[s].step]
    <2>1. c.step # "complete"
      OBVIOUS
    <2>2. call' = [call EXCEPT ![s] = c]
      BY <1>2 DEF Write
    <2>3. CallEffect
      <3> HIDE DEF c
      <3> QED BY <2>1, <2>2, NoCompletion
    <2> QED BY <1>2, <2>3, NoArtifact DEF Write, StagesEffect
  <1>3. CASE Enter(s)
    <2>1. call[s].what \in {"package", "handoff"} /\ call[s].what \in Keys
      BY <1>3, CallAt, ContractAssumption DEF Enter, Enters, OwnKeys
    <2>2. /\ \A i \in DOMAIN arts : i \in DOMAIN arts' /\ arts'[i] = arts[i]
          /\ \A i \in DOMAIN arts' \ DOMAIN arts :
               /\ arts'[i].stage = "writing" /\ arts'[i].file = call[s].what
               /\ arts'[i].parents = {}
      <3> DEFINE a == Artifact("writing", call[s].what, call[s].what, {}, FALSE)
      <3>1. a \in Artifacts
        BY <2>1 DEF Artifact, Artifacts
      <3>2. a.stage = "writing" /\ a.file = call[s].what /\ a.parents = {}
        BY DEF Artifact
      <3>3. arts' = Append(arts, a)
        BY <1>3, EvidenceStagesAre, Zenon DEF Enter
      <3> HIDE DEF a
      <3> QED BY <3>1, <3>2, <3>3, DeliveryAppended
    <2>3. ArtsEffect
      BY <1>3, <2>1, <2>2 DEF Enter, ArtsEffect, DeliveryFiles
    <2> QED BY <1>3, <2>3, CallIsOver DEF Enter, StagesEffect
  <1> QED BY <1>1, <1>2, <1>3 DEF BuildPackage, GenerateHandoff

\* What the calls that begin do.
LEMMA RecordEffect ==
    ASSUME EvidenceTypeOK, Record
    PROVE  ArtsEffect /\ StagesEffect /\ CallEffect
  <1>1. ASSUME NEW s \in Sessions, NEW stage, NEW entries, NEW parents, NEW complete, NEW name,
               call' = [call EXCEPT ![s] = Registering(stage, entries, parents, complete, name)]
        PROVE  CallEffect
    <2> DEFINE c == Registering(stage, entries, parents, complete, name)
    <2>1. c.step # "complete"
      BY DEF Registering
    <2> HIDE DEF c
    <2> QED BY <1>1, <2>1, NoCompletion DEF c
  <1>2. PICK s \in Sessions : \E r : Begin(s, r) \/ RecordHelper(s, r)
    BY DEF Record, RecordComputation, RecordAnalysis
  <1>3. ASSUME NEW r, Begin(s, r) PROVE ArtsEffect /\ StagesEffect /\ CallEffect
    BY <1>1, <1>3, NoArtifact DEF Begin, StagesEffect
  <1>4. ASSUME NEW r, RecordHelper(s, r) PROVE ArtsEffect /\ StagesEffect /\ CallEffect
    BY <1>1, <1>4, NoArtifact DEF RecordHelper, StagesEffect
  <1> QED BY <1>2, <1>3, <1>4

\* What the executor does.
LEMMA ExecutionEffect ==
    ASSUME EvidenceTypeOK, Execute \/ \E s \in Sessions : Execution(s)
    PROVE  ArtsEffect /\ StagesEffect /\ CallEffect
  <1>1. ASSUME NEW s \in Sessions, NEW r, ExecuteStage(s, r)
        PROVE  ArtsEffect /\ StagesEffect /\ CallEffect
    <2>1. CASE r.result = "pending"
      BY <1>1, <2>1, NoArtifact, NoCall DEF ExecuteStage, SetStatus, StagesEffect
    <2>2. CASE r.result # "pending"
      <3> DEFINE c == [step |-> "helpers", run |-> r]
      <3>1. call' = [call EXCEPT ![s] = c] /\ c.step # "complete"
        BY <1>1, <2>2 DEF ExecuteStage
      <3>2. CallEffect
        <4> HIDE DEF c
        <4> QED BY <3>1, NoCompletion
      <3> QED BY <1>1, <2>2, <3>2, NoArtifact DEF ExecuteStage, SetStatus, StagesEffect
    <2> QED BY <2>1, <2>2
  <1>2. ASSUME NEW s \in Sessions, RunHelpers(s)
        PROVE  ArtsEffect /\ StagesEffect /\ CallEffect
    <2> DEFINE c == [call[s] EXCEPT !.step = "end"]
               made == call[s].run.outputs
    <2>1. call[s] \in Executions
      BY <1>2, CallAt DEF RunHelpers
    <2>2. call' = [call EXCEPT ![s] = c] /\ c.step # "complete"
      BY <1>2, <2>1 DEF RunHelpers, Goto, Executions
    <2>3. CallEffect
      <3> HIDE DEF c
      <3> QED BY <2>2, NoCompletion
    <2>4. call[s].run.stage \in Stages /\ made \in Seq(Keys)
      BY <2>1 DEF Executions, Runs
    <2>5. /\ \A i \in DOMAIN arts : i \in DOMAIN arts' /\ arts'[i] = arts[i]
          /\ \A i \in DOMAIN arts' \ DOMAIN arts : arts'[i].stage = call[s].run.stage
      BY <1>2, <2>4, OutputsAppended DEF RunHelpers
    <2>6. call[s].run.stage # "writing"
      BY <2>4, EvidenceStagesAre
    <2>7. ArtsEffect
      BY <1>2, <2>5, <2>6 DEF ArtsEffect, RunHelpers
    <2> QED BY <1>2, <2>3, <2>7 DEF RunHelpers, StagesEffect
  <1>3. ASSUME NEW s \in Sessions, EndExecution(s)
        PROVE  ArtsEffect /\ StagesEffect /\ CallEffect
    BY <1>3, NoArtifact, CallIsOver DEF EndExecution, SetStatus, StagesEffect
  <1> QED BY <1>1, <1>2, <1>3 DEF Execute, Execution

\* What the user does.
LEMMA FollowEffect ==
    ASSUME EvidenceTypeOK,
           NEW stage \in followed, Follow(stage)
    PROVE  ArtsEffect /\ StagesEffect /\ CallEffect
  <1>1. CASE BringEvidence(stage)
    <2>1. PICK k : call' = [call EXCEPT ![User] =
                 Registering(stage, <<Entry("evidence", k)>>, {}, TRUE, IntakeManifest(stage))]
      BY <1>1 DEF BringEvidence
    <2> DEFINE c == Registering(stage, <<Entry("evidence", k)>>, {}, TRUE, IntakeManifest(stage))
    <2>2. c.step # "complete" /\ User \in Sessions
      BY ContractAssumption DEF Registering
    <2>3. CallEffect
      <3> HIDE DEF c
      <3> QED BY <2>1, <2>2, NoCompletion DEF c
    <2> QED BY <1>1, <2>3, NoArtifact DEF BringEvidence, StagesEffect
  <1>2. CASE RestoreFiles(stage)
    BY <1>2, NoArtifact, NoCall DEF RestoreFiles, StagesEffect
  <1>3. CASE Approve(stage)
    BY <1>3, NoArtifact, NoCall DEF Approve, StagesEffect
  <1>4. CASE StartStage(stage)
    BY <1>4, NoArtifact, NoCall DEF StartStage, SetStatus, StagesEffect
  <1> QED BY <1>1, <1>2, <1>3, <1>4 DEF Follow

\* What the other steps do.
LEMMA DisturbanceEffect ==
    ASSUME EvidenceTypeOK,
           \/ Verify \/ InitResearch \/ EditPlan \/ RemoveFile
           \/ Decide \/ SessionDies \/ UNCHANGED evVars
    PROVE  ArtsEffect /\ StagesEffect /\ CallEffect
  <1>1. CASE Verify
    <2>1. "verification_report" \in Keys
      BY ContractAssumption DEF OwnKeys
    <2>2. /\ present' = present \cup {"verification_report"}
          /\ stages' = stages /\ executed' = executed /\ call' = call
      BY <1>1 DEF Verify, Verification
    <2>3. /\ \A i \in DOMAIN arts : i \in DOMAIN arts' /\ arts'[i] = arts[i]
          /\ \A i \in DOMAIN arts' \ DOMAIN arts :
               /\ arts'[i].stage = "writing" /\ arts'[i].file = "verification_report"
               /\ arts'[i].parents = {}
      <3> DEFINE a == Artifact("writing", "verification_report", "verification_report", {}, FALSE)
      <3>1. a \in Artifacts
        BY <2>1 DEF Artifact, Artifacts
      <3>2. a.stage = "writing" /\ a.file = "verification_report" /\ a.parents = {}
        BY DEF Artifact
      <3>3. arts' = Append(arts, a)
        BY <1>1, EvidenceStagesAre, Zenon DEF Verify, Verification
      <3> HIDE DEF a
      <3> QED BY <3>1, <3>2, <3>3, DeliveryAppended
    <2>4. ArtsEffect
      BY <2>2, <2>3 DEF ArtsEffect, DeliveryFiles
    <2> QED BY <2>2, <2>4, NoCall DEF StagesEffect
  <1>2. CASE InitResearch
    BY <1>2, NoArtifact, NoCall DEF InitResearch, StagesEffect
  <1>3. CASE EditPlan
    BY <1>3, NoArtifact, NoCall DEF EditPlan, StagesEffect
  <1>4. CASE RemoveFile
    <2>1. present \cap DeliveryFiles \subseteq present'
      BY <1>4 DEF RemoveFile, DeliveryFiles, Deliveries, Verification
    <2> QED BY <1>4, <2>1, NoArtifact, NoCall DEF RemoveFile, StagesEffect
  <1>5. CASE Decide
    BY <1>5, NoArtifact, NoCall DEF Decide, StagesEffect
  <1>6. CASE SessionDies
    BY <1>6, NoArtifact, CallIsOver DEF SessionDies, StagesEffect
  <1>7. CASE UNCHANGED evVars
    BY <1>7, NoArtifact, NoCall DEF evVars, StagesEffect
  <1> QED BY <1>1, <1>2, <1>3, <1>4, <1>5, <1>6, <1>7

\* What a step does.
LEMMA EvidenceEffect ==
    ASSUME EvidenceTypeOK, TodoInv, [EvNext]_evVars
    PROVE  ArtsEffect /\ StagesEffect /\ CallEffect
  <1>1. ASSUME NEW s \in Sessions, Work(s) PROVE ArtsEffect /\ StagesEffect /\ CallEffect
    BY <1>1, IntakeEffect, ExecutionEffect, DeliveryEffect DEF Work, ComputationIntake, AnalysisIntake
  <1>2. ASSUME NEW s \in Sessions, BuildPackage(s) \/ GenerateHandoff(s)
        PROVE  ArtsEffect /\ StagesEffect /\ CallEffect
    BY <1>2, DeliveryEffect
  <1> QED BY <1>1, <1>2, RecordEffect, ExecutionEffect, FollowEffect, DisturbanceEffect DEF EvNext

\* The evidence of a stage that an intake has completed is recorded, as it was
\* when a session judged the stage to be ready; and a delivery is there.
RecordedInv ==
    /\ \A s \in Sessions : call[s].step = "complete" =>
            Contract[call[s].stage] \subseteq Recorded(call[s].stage, arts)
    /\ \A t \in DOMAIN stages \ executed :
            /\ stages[t] \in {"completed", "in_progress"}
            /\ stages[t] = "completed" => Contract[t] \subseteq Recorded(t, arts)
    /\ \A i \in DOMAIN arts : arts[i].stage = "writing" =>
            arts[i].file \in DeliveryFiles \cap present /\ arts[i].parents = {}

EvidenceInv == EvidenceTypeOK /\ TodoInv /\ RecordedInv

\* What is recorded stays recorded.
LEMMA RecordedGrows ==
    ASSUME ArtsEffect, NEW t PROVE Recorded(t, arts) \subseteq Recorded(t, arts')
  <1>1. \A i \in Own(t, arts) : i \in Own(t, arts') /\ arts'[i] = arts[i]
    BY DEF ArtsEffect, Own
  <1> QED BY <1>1 DEF Recorded

\* A stage that is ready has the evidence of its contract.
LEMMA ReadyIsRecorded ==
    ASSUME NEW t, NEW a, NEW p, NEW d, ReadinessStatus(t, a, p, d) = "ready"
    PROVE  Contract[t] \subseteq Recorded(t, a)
  <1>1. MissingEvidence(t, a) = {}
    BY DEF ReadinessStatus
  <1> QED BY <1>1 DEF MissingEvidence, Required

\* The initial state satisfies the invariant.
LEMMA RecordedInitially ==
    EvInit => EvidenceInv
  <1> SUFFICES ASSUME EvInit PROVE EvidenceInv
    OBVIOUS
  <1>1. \A s \in Sessions : call[s].step = "idle"
    BY DEF EvInit, Idle
  <1>2. DOMAIN arts = {} /\ DOMAIN stages = {}
    BY DEF EvInit
  <1> QED BY <1>1, <1>2, EvidenceInitType DEF EvidenceInv, RecordedInv

\* Every step preserves it.
LEMMA NextRecorded ==
    ASSUME EvidenceInv, [EvNext]_evVars
    PROVE  EvidenceInv'
  <1>1. EvidenceTypeOK' /\ TodoInv'
    BY EvidenceNextType DEF EvidenceInv
  <1>2. ArtsEffect /\ StagesEffect /\ CallEffect
    BY EvidenceEffect DEF EvidenceInv
  <1>3. ASSUME NEW s \in Sessions, call'[s].step = "complete"
        PROVE  Contract[call'[s].stage] \subseteq Recorded(call'[s].stage, arts')
    <2>1. call'[s].stage = call[s].stage
      BY <1>2, <1>3 DEF CallEffect
    <2>2. Contract[call[s].stage] \subseteq Recorded(call[s].stage, arts)
      BY <1>2, <1>3, ReadyIsRecorded DEF CallEffect, EvidenceInv, RecordedInv
    <2> QED BY <1>2, <2>1, <2>2, RecordedGrows
  <1>4. ASSUME NEW t \in DOMAIN stages' \ executed'
        PROVE  /\ stages'[t] \in {"completed", "in_progress"}
               /\ stages'[t] = "completed" => Contract[t] \subseteq Recorded(t, arts')
    <2>1. stages'[t] \in {"completed", "in_progress"}
      BY <1>2 DEF StagesEffect, EvidenceInv, RecordedInv
    <2>2. ASSUME stages'[t] = "completed" PROVE Contract[t] \subseteq Recorded(t, arts)
      BY <1>2, <2>2 DEF StagesEffect, EvidenceInv, RecordedInv
    <2> QED BY <1>2, <2>1, <2>2, RecordedGrows
  <1>5. ASSUME NEW i \in DOMAIN arts', arts'[i].stage = "writing"
        PROVE  arts'[i].file \in DeliveryFiles \cap present' /\ arts'[i].parents = {}
    BY <1>2, <1>5 DEF ArtsEffect, EvidenceInv, RecordedInv
  <1> QED BY <1>1, <1>3, <1>4, <1>5 DEF EvidenceInv, RecordedInv

\* A stage is among those in an order if it is in the set.
LEMMA InOrderType ==
    ASSUME NEW S, NEW a \in S, NEW b \in S, NEW set
    PROVE  /\ InOrder(a, b, set) \in Seq(S)
           /\ InOrder(a, b, set) = <<>> <=> (a \notin set /\ b \notin set)
  <1> DEFINE p == IF a \in set THEN <<a>> ELSE <<>>
             q == IF b \in set THEN <<b>> ELSE <<>>
  <1>1. p \in Seq(S) /\ Len(p) = IF a \in set THEN 1 ELSE 0
    OBVIOUS
  <1>2. q \in Seq(S) /\ Len(q) = IF b \in set THEN 1 ELSE 0
    OBVIOUS
  <1>3. InOrder(a, b, set) = p \o q
    BY DEF InOrder
  <1> HIDE DEF p, q
  <1>4. p \o q \in Seq(S) /\ Len(p \o q) = Len(p) + Len(q)
    <2>1. p \in Seq(S) /\ q \in Seq(S)
      BY <1>1, <1>2
    <2> QED BY <2>1
  <1>5. p \o q = <<>> <=> Len(p \o q) = 0
    BY <1>4
  <1> QED BY <1>1, <1>2, <1>3, <1>4, <1>5

\* The workflow is shown as complete when each of its stages is completed, but
\* for those of the executor.
LEMMA CompleteMeansAll ==
    ASSUME EvidenceInv, NextAction(sequence, stages)[1] = "workflow_complete",
           NEW t \in sequence \ executed
    PROVE  t \in DOMAIN stages /\ stages[t] = "completed"
  <1> DEFINE at(status) == StageProgress(status, sequence, stages)
  <1>1. at("in_progress") = <<>> /\ at("pending") = <<>>
    BY DEF NextAction, FirstOf
  <1>2. t \in {Computation, Analysis}
    BY SequenceOfStages DEF Stages
  <1>3. ASSUME NEW status, at(status) = <<>>
        PROVE  StageStatus(stages, t) # status
    <2> DEFINE p == InSequence(Having(status, sequence, stages))
               q == ByName(Having(status, DOMAIN stages \ sequence, stages))
    <2>1. p \o q = <<>>
      BY <1>3 DEF StageProgress
    <2>2. p \in Seq(Stages) /\ q \in Seq(Stages)
      <3>1. Computation \in Stages /\ Analysis \in Stages
        BY DEF Stages
      <3>2. p \in Seq(Stages)
        BY <3>1, InOrderType DEF InSequence
      <3>3. q \in Seq(Stages)
        BY <3>1, InOrderType DEF ByName
      <3> QED BY <3>2, <3>3
    <2>3. p = <<>>
      <3> HIDE DEF p, q
      <3> QED BY <2>1, <2>2
    <2>4. t \notin Having(status, sequence, stages)
      <3>1. Computation \in Stages /\ Analysis \in Stages
        BY DEF Stages
      <3>2. /\ Computation \notin Having(status, sequence, stages)
            /\ Analysis \notin Having(status, sequence, stages)
        BY <2>3, <3>1, InOrderType DEF InSequence
      <3> QED BY <1>2, <3>2
    <2> QED BY <2>4 DEF Having
  <1>4. /\ StageStatus(stages, t) # "in_progress"
        /\ StageStatus(stages, t) # "pending"
    <2> HIDE DEF at
    <2> QED BY <1>1, <1>3
  <1> QED BY <1>4 DEF StageStatus, EvidenceInv, RecordedInv

\* record_computation_evidence, record_analysis_evidence: a stage that an intake
\* has completed has an artifact for each evidence its contract asks for,
\* whatever the other sessions, the user, the executor and crashes did between
\* its judgement and its update; and of a workflow that is shown as complete,
\* so has each stage whose status the executor was not the last to set.
THEOREM EvidenceCompleted == EvSpec => []CompletedHasEvidence
  <1>1. EvInit => EvidenceInv
    BY RecordedInitially
  <1>2. EvidenceInv /\ [EvNext]_evVars => EvidenceInv'
    BY NextRecorded
  <1>3. EvidenceInv => CompletedHasEvidence
    <2> SUFFICES ASSUME EvidenceInv, NEW t \in Stages \ executed,
                        \/ StageStatus(stages, t) = "completed"
                        \/ NextAction(sequence, stages)[1] = "workflow_complete"
                           /\ t \in sequence
                 PROVE  Contract[t] \subseteq Recorded(t, arts)
      BY DEF CompletedHasEvidence
    <2>1. t \in DOMAIN stages /\ stages[t] = "completed"
      BY CompleteMeansAll DEF StageStatus, EvidenceInv
    <2> QED BY <2>1 DEF EvidenceInv, RecordedInv
  <1> QED BY <1>1, <1>2, <1>3, PTL DEF EvSpec

\* A verification that fails none of its checks.
LEMMA NoCheckFails ==
    ASSUME NEW m, NEW h, NEW registered \in BOOLEAN, ReportStatus(m, h, registered) # "fail"
    PROVE  /\ m # None /\ h # None
           /\ RealSubmitApproval(SelectedTruth(m, h)) # "fail"
           /\ SelectedTruth(m, h) # None
           /\ SensitiveContent(m) # "fail"
  <1> DEFINE checks == DeliveryChecks(m, h, registered)
  <1>1. \A i \in DOMAIN checks : checks[i] # "fail"
    BY DEF ReportStatus, D!Rollup, D!Range
  <1>2. /\ checks[2] = Verdict(m # None) /\ checks[3] = Verdict(h # None)
        /\ checks[4] = Verdict(SelectedTruth(m, h) # None)
        /\ checks[5] = RealSubmitApproval(SelectedTruth(m, h))
        /\ checks[6] = SensitiveContent(m)
        /\ {2, 3, 4, 5, 6} \subseteq DOMAIN checks
    BY DEF DeliveryChecks
  <1> HIDE DEF checks
  <1>3. /\ Verdict(m # None) # "fail" /\ Verdict(h # None) # "fail"
        /\ Verdict(SelectedTruth(m, h) # None) # "fail"
        /\ RealSubmitApproval(SelectedTruth(m, h)) # "fail"
        /\ SensitiveContent(m) # "fail"
    BY <1>1, <1>2
  <1>4. m # None /\ h # None /\ SelectedTruth(m, h) # None
    BY <1>3 DEF Verdict
  <1> QED BY <1>3, <1>4

\* What such a verification has found in the manifest.
LEMMA DeclarationIsTrue ==
    ASSUME NEW m \in {None} \cup Manifests, NEW h \in {None} \cup Handoffs, NEW registered \in BOOLEAN,
           ReportStatus(m, h, registered) # "fail"
    PROVE  m # None /\ m.truth # None /\ ~m.truth.real /\ m.truth.gate # "text"
  <1>1. /\ m \in Manifests /\ h \in Handoffs
        /\ RealSubmitApproval(SelectedTruth(m, h)) # "fail"
        /\ SelectedTruth(m, h) # None
        /\ SensitiveContent(m) # "fail"
    BY NoCheckFails
  <1>2. m.truth \in Truths /\ h.truth \in Declarations
    BY <1>1 DEF Manifests, Handoffs
  <1>3. m # None /\ m.truth # None /\ h # None
    BY <1>2, NoCheckFails, NothingAssumption
  <1>4. m.truth.gate # "text"
    BY <1>1, <1>3 DEF SensitiveContent
  <1>5. Agree(m, h) /\ SelectedTruth(m, h) = WithGate(h.truth, None)
    BY <1>1, <1>3 DEF SelectedTruth
  <1>6. ~h.truth.real
    <2>1. h.truth.real \in BOOLEAN
      BY <1>2 DEF Declarations
    <2>2. /\ WithGate(h.truth, None).real = h.truth.real
          /\ WithGate(h.truth, None).gate = None
      BY DEF WithGate
    <2>3. None # "approved"
      BY NothingAssumption
    <2>4. ~WithGate(h.truth, None).real
      BY <1>1, <1>5, <2>2, <2>3 DEF RealSubmitApproval, Verdict
    <2> QED BY <2>2, <2>4
  <1>7. m.truth.real = h.truth.real
    BY <1>5 DEF Agree, Truth
  <1> QED BY <1>3, <1>4, <1>6, <1>7

\* build_final_delivery_report: a delivery that the final verification does not
\* fail declares no real submit and shows no gate answer with a path under
\* /home, though the manifest and the handoff are written apart, from different
\* readings of the project, by sessions that may crash or overwrite each other's files.
THEOREM EvidencePassIsTruthful == EvSpec => []PassIsTruthful
  <1> DEFINE I == EvidenceTypeOK /\ TodoInv /\ PassIsTruthful
  <1>1. EvInit => I
    BY EvidenceInitType DEF EvInit, PassIsTruthful
  <1>2. I /\ [EvNext]_evVars => I'
    <2> SUFFICES ASSUME I, [EvNext]_evVars PROVE PassIsTruthful'
      BY EvidenceNextType
    <2>1. CASE Verify
      <3> DEFINE registered == \A d \in Deliveries : Registered(d)
      <3>1. /\ report'.status = ReportStatus(manifest, handoff, registered)
            /\ report'.declared = IF manifest = None THEN None ELSE manifest.truth
        BY <2>1 DEF Verify
      <3>2. registered \in BOOLEAN
        OBVIOUS
      <3> HIDE DEF registered
      <3>3. manifest \in {None} \cup Manifests /\ handoff \in {None} \cup Handoffs
        BY DEF EvidenceTypeOK
      <3>4. report'.status # "fail" =>
              manifest # None /\ manifest.truth # None /\ ~manifest.truth.real /\ manifest.truth.gate # "text"
        BY <3>1, <3>2, <3>3, DeclarationIsTrue
      <3> QED BY <3>1, <3>4 DEF PassIsTruthful
    <2>2. CASE ~Verify
      <3>1. report' = report
        <4>1. ASSUME NEW s \in Sessions, Work(s) PROVE report' = report
          BY <4>1 DEF Work, ComputationIntake, AnalysisIntake, IntakeStep,
                 Execution, RunHelpers, EndExecution, RegisterEntry, WriteManifest, RegisterManifest,
                 JudgeReadiness, CompleteStage, CheckpointStage,
                 UpdateWorkflow, Write, Enter, reports
        <4>2. ASSUME NEW s \in Sessions, BuildPackage(s) \/ GenerateHandoff(s)
              PROVE  report' = report
          BY <4>2 DEF BuildPackage, GenerateHandoff, Deliver, reports
        <4>3. ASSUME NEW stage \in followed, Follow(stage) PROVE report' = report
          BY <4>3 DEF Follow, BringEvidence, RestoreFiles, Approve,
                 StartStage, reports
        <4>4. CASE Record
          BY <4>4 DEF Record, RecordComputation, RecordAnalysis, Begin,
                 RecordHelper, reports
        <4>7. CASE Execute
          BY <4>7 DEF Execute, ExecuteStage, reports
        <4>5. CASE \/ InitResearch \/ EditPlan \/ RemoveFile
                   \/ Decide \/ SessionDies
          BY <4>5 DEF InitResearch, EditPlan, RemoveFile, Decide,
                 SessionDies, reports
        <4>6. CASE UNCHANGED evVars
          BY <4>6 DEF evVars
        <4> QED BY <2>2, <4>1, <4>2, <4>3, <4>4, <4>5, <4>6, <4>7 DEF EvNext
      <3> QED BY <3>1 DEF PassIsTruthful
    <2> QED BY <2>1, <2>2
  <1>3. I => PassIsTruthful
    OBVIOUS
  <1> HIDE DEF I
  <1> QED BY <1>1, <1>2, <1>3, PTL DEF EvSpec

-----------------------------------------------------------------------------
\* An artifact of the writing stage is no risk.
LEMMA RisksAreBlockers ==
    ASSUME EvidenceInv,
           {arts[i].stage : i \in DOMAIN arts} \subseteq sequence \cup {Writing}
    PROVE  /\ "missing_artifact_paths" \in Status.risks <=>
                \E s \in sequence :
                    "missing_artifact_paths" \in Blockers(s, arts, present, decisions)
           /\ "missing_lineage_parents" \in Status.risks <=>
                \E s \in sequence :
                    "missing_lineage_parents" \in Blockers(s, arts, present, decisions)
  <1>1. \A i \in DOMAIN arts : arts[i].stage \in sequence \/ arts[i].stage = "writing"
    BY EvidenceStagesAre
  <1>2. \A i \in DOMAIN arts : arts[i].stage = "writing" => arts[i].file \in present /\ arts[i].parents = {}
    BY DEF EvidenceInv, RecordedInv
  <1>3. "missing_artifact_paths" \in Status.risks <=>
            MissingPaths(DOMAIN arts, arts, present) # {}
    BY DEF Status, ProjectStatus, Risks
  <1>4. "missing_lineage_parents" \in Status.risks <=> MissingParents(arts) # {}
    <2> DEFINE g == Graph(arts, {arts[i].stage : i \in DOMAIN arts}, {}, "both", 1, DOMAIN arts)
    <2>1. "missing_lineage_parents" \in Status.risks <=> g.missing # {}
      BY DEF Status, ProjectStatus, Risks
    <2>2. g.missing = {l \in MissingParents(arts) : l[1] \in DOMAIN arts}
      BY DEF Graph
    <2>3. \A l \in MissingParents(arts) : l[1] \in DOMAIN arts
      BY DEF MissingParents, Links
    <2> HIDE DEF g
    <2> QED BY <2>1, <2>2, <2>3
  <1>5. ASSUME NEW s
        PROVE  /\ "missing_artifact_paths" \in Blockers(s, arts, present, decisions)
                    <=> MissingPaths(Own(s, arts), arts, present) # {}
               /\ "missing_lineage_parents" \in Blockers(s, arts, present, decisions)
                    <=> MissingLineage(s, arts) # {}
    BY DEF Blockers
  <1>6. MissingPaths(DOMAIN arts, arts, present) # {} <=>
            \E s \in sequence : MissingPaths(Own(s, arts), arts, present) # {}
    BY <1>1, <1>2 DEF MissingPaths, Own
  <1>7. MissingParents(arts) # {} <=>
            \E s \in sequence : MissingLineage(s, arts) # {}
    <2>1. ASSUME NEW l \in MissingParents(arts)
          PROVE  \E s \in sequence : l \in MissingLineage(s, arts)
      <3>1. PICK i \in DOMAIN arts : l[1] = i /\ arts[i].parents # {}
        BY DEF MissingParents, Links
      <3>2. arts[i].stage \in sequence
        BY <1>1, <1>2, <3>1
      <3> QED BY <3>1, <3>2 DEF MissingLineage, Own
    <2>2. \A s : MissingLineage(s, arts) \subseteq MissingParents(arts)
      BY DEF MissingLineage
    <2> QED BY <2>1, <2>2
  <1> QED BY <1>3, <1>4, <1>5, <1>6, <1>7

\* A gate that is shown as approved blocks nothing.
LEMMA ShownAsApproved ==
    ASSUME Status.gate = "approved", NEW s
    PROVE  "missing_hpc_submit_approval" \notin Blockers(s, arts, present, decisions)
  <1>1. GateState(decisions) = "approved"
    BY DEF Status, ProjectStatus
  <1>2. Approved(decisions)
    BY <1>1 DEF GateState, Approved
  <1> QED BY <1>2 DEF Blockers, Unapproved

\* The handoff of a session names the next action and the risks of the status.
LEMMA HandoffAgrees ==
    ASSUME DOMAIN stages \subseteq sequence
    PROVE  LET handed == StageHandoff(sequence, stages, checkpoints # {})
           IN handed.next = Status.next /\ handed.risks \subseteq Status.risks
  <1> DEFINE having(status) == InSequence(Having(status, sequence, stages))
             handed == StageHandoff(sequence, stages, checkpoints # {})
  <1>0. Computation \in Stages /\ Analysis \in Stages
    BY DEF Stages
  <1>1. ASSUME NEW status
        PROVE  StageProgress(status, sequence, stages) = having(status)
    <2> DEFINE p == InSequence(Having(status, sequence, stages))
               none == Having(status, DOMAIN stages \ sequence, stages)
               q == ByName(none)
    <2>1. StageProgress(status, sequence, stages) = p \o q
      BY DEF StageProgress
    <2>2. p \in Seq(Stages)
      BY <1>0, InOrderType DEF InSequence
    <2>3. Computation \notin none /\ Analysis \notin none
      BY DEF Having
    <2>4. q = <<>>
      <3> HIDE DEF none
      <3> QED BY <1>0, <2>3, InOrderType DEF ByName
    <2>5. p \o q = p
      <3> HIDE DEF p, q
      <3> QED BY <2>2, <2>4
    <2> QED BY <2>1, <2>5
  <1>2. /\ handed.next = FirstOf(having("failed"), having("in_progress"), having("pending"))
        /\ handed.risks = {r \in {"missing_checkpoint", "failed_stages"} :
                             \/ r = "missing_checkpoint" /\ ~(checkpoints # {})
                             \/ r = "failed_stages" /\ having("failed") # <<>>}
    BY DEF StageHandoff
  <1>3. Status.next = FirstOf(having("failed"), having("in_progress"), having("pending"))
    <2>1. Status.next = NextAction(sequence, stages)
      BY DEF Status, ProjectStatus
    <2>2. NextAction(sequence, stages) =
            FirstOf(StageProgress("failed", sequence, stages),
                             StageProgress("in_progress", sequence, stages),
                             StageProgress("pending", sequence, stages))
      BY DEF NextAction
    <2> HIDE DEF having
    <2> QED BY <1>1, <2>1, <2>2
  <1>4. having("failed") # <<>> => "failed_stages" \in Status.risks
    <2> SUFFICES ASSUME having("failed") # <<>> PROVE "failed_stages" \in Status.risks
      OBVIOUS
    <2>1. PICK s \in Stages : s \in Having("failed", sequence, stages)
      BY <1>0, InOrderType DEF InSequence
    <2>2. s \in DOMAIN stages /\ stages[s] = "failed"
      BY <2>1 DEF Having, StageStatus
    <2> QED BY <2>2 DEF Status, ProjectStatus, Risks
  <1>5. ~(checkpoints # {}) => "missing_checkpoint" \in Status.risks
    BY DEF Status, ProjectStatus, Risks
  <1> QED BY <1>2, <1>3, <1>4, <1>5

\* build_project_status, build_stage_readiness, generate_handoff: computed apart,
\* they say the same of what is missing, of the gate and of what is next.
THEOREM EvidenceReportsAgree == EvSpec => []ReportsAgree
  <1>1. EvInit => EvidenceInv
    BY RecordedInitially
  <1>2. EvidenceInv /\ [EvNext]_evVars => EvidenceInv'
    BY NextRecorded
  <1>3. EvidenceInv => ReportsAgree
    BY RisksAreBlockers, ShownAsApproved, HandoffAgrees DEF ReportsAgree
  <1> QED BY <1>1, <1>2, <1>3, PTL DEF EvSpec
=============================================================================
