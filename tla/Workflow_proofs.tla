--------------------------- MODULE Workflow_proofs ---------------------------
(***************************************************************************)
(* Theorems about Workflow, with their proofs.                             *)
(***************************************************************************)
EXTENDS Workflow, FiniteSetTheorems, SequenceTheorems, WellFoundedInduction, TLAPS

-----------------------------------------------------------------------------
(* The stages, their runners, and the parts and names of those.            *)

AllParts == {"matrix", "review", "proposal", "structure", "inputs", "compute", "analysis", "figures",
             "claims", "package", "handoff", "verify"}

\* The stage a part belongs to, and its place among the parts of that stage.
StageOf(p) ==
    CASE p \in {"matrix", "review"} -> "literature_review"
      [] p = "proposal" -> "proposal"
      [] p = "structure" -> "modeling"
      [] p \in {"inputs", "compute"} -> "computation"
      [] p \in {"analysis", "figures"} -> "analysis_visualization"
      [] p \in {"claims", "package", "handoff", "verify"} -> "writing"
Place(p) ==
    CASE p \in {"matrix", "proposal", "structure", "inputs", "analysis", "claims"} -> 1
      [] p \in {"review", "compute", "figures", "package"} -> 2
      [] p = "handoff" -> 3
      [] p = "verify" -> 4
RunnerWith(p) == IF StageOf(p) = "writing" THEN "writing" ELSE p

\* The part that makes a file.
PartOf(n) ==
    CASE n = "literature_matrix" -> "matrix"
      [] n \in {"review_summary", "gap_analysis"} -> "review"
      [] n \in {"proposal", "parameter_table", "research_questions"} -> "proposal"
      [] n \in {"structure_manifest", "structure"} -> "structure"
      [] n = "input_manifest" -> "inputs"
      [] n = "compute_plan" -> "compute"
      [] n = "analysis_report" -> "analysis"
      [] n = "figures_manifest" -> "figures"
      [] n \in {"methods", "claim_map"} -> "claims"
      [] n = "reproducibility_manifest" -> "package"
      [] n = "final_handoff" -> "handoff"
      [] n = "verification_report" -> "verify"

LEMMA StagesAre ==
    StageSet = {"literature_review", "proposal", "modeling", "computation", "analysis_visualization", "writing"}
  BY DEF StageSet, Stages, Range

LEMMA RunnersAre ==
    /\ Runners["literature_review"] = <<"matrix", "review">>
    /\ Runners["proposal"] = <<"proposal">>
    /\ Runners["modeling"] = <<"structure">>
    /\ Runners["computation"] = <<"inputs", "compute">>
    /\ Runners["analysis_visualization"] = <<"analysis", "figures">>
    /\ Runners["writing"] = <<"writing">>
  BY DEF Runners

NextPart(p) ==
    CASE p = "matrix" -> "review"
      [] p = "inputs" -> "compute"
      [] p = "analysis" -> "figures"
      [] p = "claims" -> "package"
      [] p = "package" -> "handoff"
      [] p = "handoff" -> "verify"
\* What is left to run when part p is next.
RunnersFrom(p) ==
    CASE p \in {"matrix", "inputs", "analysis"} -> <<p, NextPart(p)>>
      [] p \in {"review", "proposal", "structure", "compute", "figures"} -> <<p>>
      [] p \in {"claims", "package", "handoff", "verify"} -> <<"writing">>
PartsFrom(p) ==
    CASE p = "claims" -> <<"claims", "package", "handoff", "verify">>
      [] p = "package" -> <<"package", "handoff", "verify">>
      [] p = "handoff" -> <<"handoff", "verify">>
      [] OTHER -> <<p>>
LastParts == {"review", "proposal", "structure", "compute", "figures", "verify"}

LEMMA Begins ==
    ASSUME NEW s \in StageSet
    PROVE  \E p \in AllParts : StageOf(p) = s /\ Place(p) = 1 /\ Runners[s] = RunnersFrom(p)
  <1>1. \E p \in AllParts : StageOf(p) = s /\ Place(p) = 1
    BY StagesAre DEF AllParts, StageOf, Place
  <1> QED BY <1>1, StagesAre, RunnersAre DEF AllParts, StageOf, Place, RunnersFrom, NextPart

LEMMA Loads ==
    ASSUME NEW p \in AllParts, RunnerWith(p) # "writing" \/ Place(p) = 1
    PROVE  Head(RunnersFrom(p)) = RunnerWith(p) /\ Parts(RunnerWith(p)) = PartsFrom(p)
  BY RunnersAre DEF AllParts, StageOf, Place, RunnersFrom, RunnerWith, Parts, PartsFrom

LEMMA Goes ==
    ASSUME NEW p \in AllParts
    PROVE  /\ Head(PartsFrom(p)) = p /\ Head(RunnersFrom(p)) = RunnerWith(p)
           /\ p \in LastParts => Tail(PartsFrom(p)) = <<>> /\ Tail(RunnersFrom(p)) = <<>>
           /\ p \notin LastParts =>
                  /\ NextPart(p) \in AllParts /\ StageOf(NextPart(p)) = StageOf(p) /\ Place(NextPart(p)) = Place(p) + 1
                  /\ \/ /\ StageOf(p) = "writing" /\ Tail(PartsFrom(p)) = PartsFrom(NextPart(p))
                        /\ Tail(PartsFrom(p)) # <<>> /\ RunnersFrom(NextPart(p)) = RunnersFrom(p)
                     \/ /\ StageOf(p) # "writing" /\ Tail(PartsFrom(p)) = <<>>
                        /\ Tail(RunnersFrom(p)) = RunnersFrom(NextPart(p)) /\ Tail(RunnersFrom(p)) # <<>>
  <1>1. Head(PartsFrom(p)) = p
    BY DEF AllParts, PartsFrom
  <1>2. Head(RunnersFrom(p)) = RunnerWith(p)
    BY RunnersAre DEF AllParts, RunnersFrom, RunnerWith, StageOf
  <1>3. ASSUME p \in LastParts PROVE Tail(PartsFrom(p)) = <<>> /\ Tail(RunnersFrom(p)) = <<>>
    BY <1>3 DEF LastParts, PartsFrom, RunnersFrom
  <1>4. ASSUME p \notin LastParts
        PROVE  NextPart(p) \in AllParts /\ StageOf(NextPart(p)) = StageOf(p) /\ Place(NextPart(p)) = Place(p) + 1
    BY <1>4 DEF AllParts, LastParts, NextPart, StageOf, Place
  <1>5. CASE p \notin LastParts /\ StageOf(p) = "writing"
    <2>1. p \in {"claims", "package", "handoff"}
      BY <1>5 DEF AllParts, LastParts, StageOf
    <2>2. Tail(PartsFrom(p)) = PartsFrom(NextPart(p)) /\ PartsFrom(NextPart(p)) # <<>>
      BY <2>1 DEF PartsFrom, NextPart
    <2>3. RunnersFrom(NextPart(p)) = RunnersFrom(p)
      BY <2>1 DEF RunnersFrom, NextPart
    <2> QED BY <1>1, <1>2, <1>4, <1>5, <2>2, <2>3
  <1>6. CASE p \notin LastParts /\ StageOf(p) # "writing"
    <2>1. p \in {"matrix", "inputs", "analysis"}
      BY <1>6 DEF AllParts, LastParts, StageOf
    <2>2. Tail(PartsFrom(p)) = <<>>
      BY <2>1 DEF PartsFrom
    <2>3. Tail(RunnersFrom(p)) = RunnersFrom(NextPart(p)) /\ RunnersFrom(NextPart(p)) # <<>>
      BY <2>1, RunnersAre DEF RunnersFrom, NextPart, StageOf
    <2> QED BY <1>1, <1>2, <1>4, <1>6, <2>2, <2>3
  <1> QED BY <1>1, <1>2, <1>3, <1>5, <1>6

LEMMA NamesOfParts ==
    /\ Range(Names("matrix")) = {"literature_matrix"}
    /\ Range(Names("review")) = {"review_summary", "gap_analysis"}
    /\ Range(Names("proposal")) = {"proposal", "parameter_table", "research_questions"}
    /\ Range(Names("structure")) = {"structure_manifest", "structure"}
    /\ Range(Names("inputs")) = {"input_manifest"}
    /\ Range(Names("compute")) = {"compute_plan"}
    /\ Range(Names("analysis")) = {"analysis_report"}
    /\ Range(Names("figures")) = {"figures_manifest"}
    /\ Range(Names("claims")) = {"methods", "claim_map"}
    /\ Range(Names("package")) = {"reproducibility_manifest"}
    /\ Range(Names("handoff")) = {"final_handoff"}
    /\ Range(Names("verify")) = {"verification_report"}
  BY DEF Names, Range

LEMMA PartsOfRunners ==
    /\ \A r \in AllParts : r \notin {"claims", "package", "handoff", "verify"} => Range(Parts(r)) = {r}
    /\ Range(Parts("writing")) = {"claims", "package", "handoff", "verify"}
  BY DEF AllParts, Parts, Range

LEMMA NamesAre ==
    /\ \A p \in AllParts : Range(Names(p)) \subseteq FileNames /\ \A n \in Range(Names(p)) : PartOf(n) = p
    /\ \A n \in FileNames : PartOf(n) \in AllParts /\ n \in Range(Names(PartOf(n)))
    /\ "failure_log" \notin FileNames /\ "error_report" \notin FileNames
  <1>1. \A p \in AllParts : \A n \in Range(Names(p)) : PartOf(n) = p
    BY NamesOfParts DEF AllParts, PartOf
  <1>2. UNION {Range(Runners[s]) : s \in StageSet} =
          {"matrix", "review", "proposal", "structure", "inputs", "compute", "analysis", "figures", "writing"}
    BY StagesAre, RunnersAre DEF Range
  <1>3. UNION {Range(Parts(r)) : r \in UNION {Range(Runners[s]) : s \in StageSet}} = AllParts
    BY <1>2, PartsOfRunners DEF AllParts
  <1>4. FileNames = UNION {Range(Names(p)) : p \in AllParts}
    BY <1>3, Zenon DEF FileNames
  <1>5. \A p \in AllParts : Range(Names(p)) \subseteq FileNames
    BY <1>4
  <1>6. "failure_log" \notin FileNames /\ "error_report" \notin FileNames
    <2>1. \A p \in AllParts : "failure_log" \notin Range(Names(p)) /\ "error_report" \notin Range(Names(p))
      BY NamesOfParts DEF AllParts
    <2> QED BY <1>4, <2>1
  <1> QED BY <1>1, <1>4, <1>5, <1>6

-----------------------------------------------------------------------------
(* Sequences.                                                              *)

IsSequence(s) == Len(s) \in Nat /\ s = [i \in 1..Len(s) |-> s[i]]

LEMMA SequenceIs ==
    ASSUME NEW s, NEW n \in Nat, NEW f, s = [i \in 1..n |-> f[i]]
    PROVE  IsSequence(s) /\ Len(s) = n /\ s \in Seq(Range(s))
  <1>1. s \in [1..n -> Range(s)] /\ DOMAIN s = 1..n
    BY DEF Range
  <1>2. s \in Seq(Range(s))
    BY <1>1
  <1>3. Len(s) = n
    BY <1>1, <1>2, LenProperties
  <1> QED BY <1>1, <1>2, <1>3 DEF IsSequence

LEMMA Sequenced ==
    ASSUME NEW s, IsSequence(s)
    PROVE  s \in Seq(Range(s)) /\ DOMAIN s = 1..Len(s)
  <1>1. s \in Seq(Range(s))
    BY SequenceIs DEF IsSequence
  <1> QED BY <1>1, LenProperties

LEMMA Joined ==
    ASSUME NEW s, NEW t, IsSequence(s), IsSequence(t)
    PROVE  /\ IsSequence(s \o t) /\ Len(s \o t) = Len(s) + Len(t)
           /\ \A i \in 1..Len(s) : (s \o t)[i] = s[i]
           /\ \A i \in 1..Len(t) : (s \o t)[Len(s) + i] = t[i]
           /\ \A i \in 1..(Len(s) + Len(t)) : i > Len(s) => i - Len(s) \in 1..Len(t) /\ (s \o t)[i] = t[i - Len(s)]
           /\ Range(s \o t) = Range(s) \cup Range(t)
  <1> DEFINE S == Range(s) \cup Range(t)
             u == s \o t
  <1>1. s \in Seq(S) /\ t \in Seq(S) /\ Len(s) \in Nat /\ Len(t) \in Nat
    <2>1. s \in Seq(Range(s)) /\ t \in Seq(Range(t))
      BY Sequenced
    <2> QED BY <2>1 DEF IsSequence
  <1> HIDE DEF S
  <1>2. u \in Seq(S) /\ Len(u) = Len(s) + Len(t)
    BY <1>1, ConcatProperties
  <1>3. \A i \in 1..(Len(s) + Len(t)) : u[i] = IF i <= Len(s) THEN s[i] ELSE t[i - Len(s)]
    BY <1>1, ConcatProperties
  <1>4. IsSequence(u) /\ DOMAIN u = 1..(Len(s) + Len(t))
    BY <1>1, <1>2, LenProperties DEF IsSequence
  <1> HIDE DEF u
  <1>5. \A i \in 1..Len(s) : u[i] = s[i]
    BY <1>1, <1>3
  <1>6. \A i \in 1..(Len(s) + Len(t)) : i > Len(s) => i - Len(s) \in 1..Len(t) /\ u[i] = t[i - Len(s)]
    BY <1>1, <1>3
  <1>7. \A i \in 1..Len(t) : u[Len(s) + i] = t[i]
    BY <1>1, <1>3
  <1>8. Range(u) = Range(s) \cup Range(t)
    <2>1. DOMAIN s = 1..Len(s) /\ DOMAIN t = 1..Len(t)
      BY Sequenced
    <2>2. ASSUME NEW x \in Range(u) PROVE x \in Range(s) \cup Range(t)
      <3>1. PICK i \in 1..(Len(s) + Len(t)) : x = u[i]
        BY <1>4 DEF Range
      <3>2. CASE i <= Len(s)
        BY <1>1, <1>5, <2>1, <3>1, <3>2 DEF Range
      <3>3. CASE i > Len(s)
        BY <1>1, <1>6, <2>1, <3>1, <3>3 DEF Range
      <3> QED BY <1>1, <3>2, <3>3
    <2>3. ASSUME NEW x \in Range(s) PROVE x \in Range(u)
      BY <1>1, <1>4, <1>5, <2>1 DEF Range
    <2>4. ASSUME NEW x \in Range(t) PROVE x \in Range(u)
      <3>1. PICK i \in 1..Len(t) : x = t[i]
        BY <2>1 DEF Range
      <3>2. Len(s) + i \in 1..(Len(s) + Len(t)) /\ x = u[Len(s) + i]
        BY <1>1, <1>7, <3>1
      <3> QED BY <1>4, <3>2 DEF Range
    <2> QED BY <2>2, <2>3, <2>4
  <1> QED BY <1>2, <1>4, <1>5, <1>6, <1>7, <1>8 DEF u

LEMMA Appended ==
    ASSUME NEW s, IsSequence(s), NEW e
    PROVE  /\ IsSequence(Append(s, e)) /\ Len(Append(s, e)) = Len(s) + 1
           /\ \A i \in 1..Len(s) : Append(s, e)[i] = s[i]
           /\ Append(s, e)[Len(s) + 1] = e
  <1> DEFINE S == Range(s) \cup {e}
  <1>1. s \in Seq(S) /\ e \in S /\ Len(s) \in Nat
    <2>1. s \in Seq(Range(s))
      BY Sequenced
    <2> QED BY <2>1 DEF IsSequence
  <1> HIDE DEF S
  <1>2. Append(s, e) \in Seq(S) /\ Len(Append(s, e)) = Len(s) + 1
    BY <1>1, AppendProperties
  <1>3. (\A i \in 1..Len(s) : Append(s, e)[i] = s[i]) /\ Append(s, e)[Len(s) + 1] = e
    BY <1>1, AppendProperties
  <1>4. IsSequence(Append(s, e))
    BY <1>1, <1>2, LenProperties DEF IsSequence
  <1> QED BY <1>2, <1>3, <1>4

\* A set of numbers that has a last one has it as its maximum.
LEMMA MaxIs ==
    ASSUME NEW S \in SUBSET Nat, NEW m \in S, \A i \in S : i <= m
    PROVE  Max(S) = m
  <1>1. \A x \in S : (\A y \in S : x >= y) <=> x = m
    <2> SUFFICES ASSUME NEW x \in S PROVE (\A y \in S : x >= y) <=> x = m
      OBVIOUS
    <2>1. x \in Nat /\ m \in Nat /\ x <= m
      OBVIOUS
    <2>2. (\A y \in S : x >= y) => x = m
      <3> SUFFICES ASSUME \A y \in S : x >= y PROVE x = m
        OBVIOUS
      <3>1. x >= m
        OBVIOUS
      <3> QED BY <2>1, <3>1
    <2>3. \A y \in S : m >= y
      OBVIOUS
    <2> QED BY <2>2, <2>3
  <1>2. Max(S) = CHOOSE x \in S : \A y \in S : x >= y
    BY DEF Max
  <1>3. \E x \in S : \A y \in S : x >= y
    BY <1>1
  <1>4. Max(S) \in S /\ \A y \in S : Max(S) >= y
    BY <1>2, <1>3, Zenon
  <1> QED BY <1>1, <1>4

\* Numbers up to n that are not empty have a last one.
LEMMA HasLast ==
    ASSUME NEW n \in Nat, NEW S \in SUBSET (0..n), S # {}
    PROVE  Max(S) \in S /\ \A i \in S : i <= Max(S)
  <1> DEFINE R == StrictSubsetOrdering(0..n)
             Bad == {T \in SUBSET (0..n) : T # {} /\ \A i \in T : \E j \in T : ~(j <= i)}
  <1>1. SUFFICES Bad = {}
    <2>1. S \notin Bad
      BY <1>1
    <2>2. PICK m \in S : \A j \in S : j <= m
      BY <2>1
    <2>3. S \in SUBSET Nat
      OBVIOUS
    <2>4. Max(S) = m
      BY <2>2, <2>3, MaxIs
    <2> QED BY <2>2, <2>4
  <1>2. SUFFICES ASSUME Bad # {} PROVE FALSE
    OBVIOUS
  <1>3. IsWellFoundedOn(R, SUBSET (0..n))
    <2>1. IsFiniteSet(0..n)
      BY FS_Interval
    <2> QED BY <2>1, FS_StrictSubsetOrderingWellFounded, FS_FiniteSubsetsOfFinite
  <1>4. Bad \subseteq SUBSET (0..n)
    OBVIOUS
  <1> HIDE DEF R
  <1>5. PICK T \in Bad : \A U \in Bad : <<U, T>> \notin R
    <2> HIDE DEF Bad
    <2> QED BY <1>2, <1>3, <1>4, WFMin
  <1>6. PICK x \in T : TRUE
    OBVIOUS
  <1> DEFINE U == T \ {x}
  <1>7. U \subseteq T /\ U # T /\ T \subseteq 0..n /\ T = U \cup {x}
    BY <1>6
  <1>8. <<U, T>> \in R
    BY <1>7 DEF StrictSubsetOrdering, R
  <1>9. U \notin Bad
    BY <1>5, <1>8
  <1>10. CASE U = {}
    <2>1. T = {x} /\ x \in Nat
      BY <1>7, <1>10
    <2>2. ~(x <= x)
      BY <2>1
    <2> QED BY <2>1, <2>2
  <1>11. CASE U # {}
    <2>1. PICK m \in U : \A j \in U : j <= m
      BY <1>7, <1>9, <1>11
    <2> HIDE DEF U
    <2>2. \A i \in T : i \in Nat
      BY <1>7
    <2>3. CASE x <= m
      <3>1. m \in T /\ \A j \in T : j <= m
        BY <1>7, <2>1, <2>3
      <3> QED BY <3>1
    <2>4. CASE ~(x <= m)
      <3>1. x \in T /\ \A j \in T : j <= x
        BY <1>7, <2>1, <2>2, <2>4
      <3> QED BY <3>1
    <2> QED BY <2>3, <2>4
  <1> QED BY <1>10, <1>11

-----------------------------------------------------------------------------
(* The invariant.                                                          *)

\* A call is at work on a stage, or on the evidence of its failure.
Running == {"load", "write", "register", "complete"}
Failing == {"faillog", "failreport", "failmark"}
Ending == {"verdict", "advance", "close", "failverdict", "end"}

StageRecord == [status : {"pending", "in_progress", "waiting", "failed", "completed"},
                outputs : SUBSET Nat, inputs : SUBSET Nat, report : Nat]

WorkflowRecord == [current : StageSet, status : {"initialized", "in_progress", "failed", "completed"}]

\* What variables hold.
TypesInv ==
    /\ entry \in [stage : Entries, intake : BOOLEAN]
    /\ workflow \in WorkflowRecord
    /\ stages \in [StageSet -> StageRecord]
    /\ \A s \in StageSet : stages[s].outputs \cup stages[s].inputs \subseteq 1..Len(arts)
    /\ IsSequence(arts) /\ IsSequence(verdicts)
    /\ DOMAIN files = FileNames /\ \A n \in FileNames : files[n].by \in 0..call.exec
    /\ files["analysis_report"].status \in {"none"} \cup AnalysisStates

CallInv ==
    /\ DOMAIN call = DOMAIN Idle
    /\ call.pc \in {"idle", "begin"} \cup Running \cup Failing \cup Ending
    /\ call.exec \in Nat /\ call.crashed \in BOOLEAN /\ call.later \in Seq(StageSet)
    /\ call.pc # "idle" => call.stage \in StageSet
    /\ IsSequence(call.mine) /\ Range(call.mine) \subseteq 1..Len(arts)
    /\ call.cited \cup call.done \subseteq 1..Len(arts)
    /\ call.pc \in Running \cup Failing \cup Ending => call.exec > 0

\* An artifact cites earlier ones, and its name tells its stage.
Named(i) == arts[i].name \in FileNames
Stage(i) == StageOf(PartOf(arts[i].name))
ArtsInv ==
    \A i \in 1..Len(arts) :
        /\ arts[i].from \subseteq 1..(i - 1)
        /\ arts[i].stage \in StageSet /\ arts[i].content.by \in 1..call.exec
        /\ arts[i].name \in FileNames \cup {"failure_log", "error_report"}
        /\ Named(i) => Stage(i) = arts[i].stage

\* No later artifact has the name, and the file was not written again.
IsLatest(i) == \A j \in 1..Len(arts) : arts[j].name = arts[i].name => j <= i
IsCurrent(i) == Named(i) /\ IsLatest(i) /\ files[arts[i].name] = arts[i].content

\* Where a call stands in its stage: part p is next.
At(p) ==
    /\ call.stage = StageOf(p) /\ call.runners = RunnersFrom(p)
    /\ IF Step("load") THEN RunnerWith(p) # "writing" \/ Place(p) = 1 ELSE call.parts = PartsFrom(p)

\* What it has registered: current files of this execution, one at least of each
\* part before the k-th, and of no other part.
Own == call.done \cup Range(call.mine)
Mine(i) == arts[i].stage = call.stage /\ arts[i].content.by = call.exec
Reached(k) ==
    /\ \A i \in Own : Mine(i) /\ IsCurrent(i) /\ Place(PartOf(arts[i].name)) < k
    /\ \A q \in AllParts : StageOf(q) = call.stage /\ Place(q) < k => \E i \in Own : PartOf(arts[i].name) = q
    /\ \A i \in 1..Len(arts) : Mine(i) => i \in Own

\* What writing knows before its k-th part: of its evidence, of the claims, which
\* are written when w parts are, and of the verification.
HoldsAll(cited) == \A n \in RequiredNames : Holds(cited, n)
ClaimsInv == files["claim_map"].status.analysis = NoAnalysis => call.cited = {}
ReportInv == files["verification_report"].status # "fail" => call.cited # {}
WritingInv(k, w) ==
    /\ call.cited # {} => HoldsAll(call.cited)
    /\ k > 1 => /\ \E i \in Own : arts[i].name = "methods" /\ arts[i].from = call.cited
                /\ \E i \in Own : arts[i].name = "claim_map" /\ call.cited \subseteq arts[i].from
    /\ w >= 1 => ClaimsInv
    /\ w >= 4 => ReportInv

\* Part p is next, and if it is to be registered it is written.
Standing(p) ==
    /\ At(p) /\ Reached(Place(p))
    /\ RunnerWith(p) # "writing" => call.mine = <<>>
    /\ RunnerWith(p) = "writing" /\ ~Step("load") =>
           WritingInv(Place(p), IF Step("register") THEN Place(p) ELSE Place(p) - 1)
    /\ Step("register") => \A n \in Range(Made(p, call.mode)) : files[n].by = call.exec

\* What fails is told of what the runners before it have registered.
FirstNames(s) == IF Len(Runners[s]) = 2 THEN Range(Names(Runners[s][1])) ELSE {}
FailingInv ==
    /\ \A i \in call.done : Mine(i) /\ Named(i)
    /\ \A i \in 1..Len(arts) : Mine(i) /\ arts[i].name \in FirstNames(call.stage) => i \in call.done
    /\ Step("failreport") =>
           LET log == Len(arts)
           IN  log > 0 /\ call.mine = <<log>> /\ Mine(log) /\ arts[log].name = "failure_log"
    /\ Step("failmark") =>
           LET log == Len(arts) - 1
               report == Len(arts)
           IN  /\ log > 0 /\ call.mine = <<report>> /\ Mine(log) /\ arts[log].name = "failure_log"
               /\ Mine(report) /\ arts[report].name = "error_report" /\ arts[report].from = call.done \cup {log}

ExecInv ==
    /\ call.pc \in Running \cup Failing => stages[call.stage].status = "in_progress"
    /\ call.pc \in {"load", "write", "register"} => \E p \in AllParts : Standing(p)
    /\ Step("complete") => Reached(5) /\ (call.stage = "writing" => WritingInv(5, 5))
    /\ call.pc \in {"begin", "load", "complete", "verdict", "advance"} => call.mine = <<>>
    /\ call.pc \in Failing => FailingInv
    /\ Step("verdict") => stages[call.stage].status = "completed"
    /\ Step("failverdict") => stages[call.stage].status = "failed" /\ call.mine = <<stages[call.stage].report>>

\* A completed stage, and a failed one.
CompletedInv(s) ==
    LET own == stages[s].outputs
    IN  /\ \A i \in own : IsCurrent(i) /\ Stage(i) = s
        /\ \A i, j \in own : arts[i].content.by = arts[j].content.by
        /\ \A q \in AllParts : StageOf(q) = s => \E i \in own : PartOf(arts[i].name) = q

BackedInv ==
    files["verification_report"].status # "fail" =>
        /\ files["claim_map"].status.analysis # NoAnalysis
        /\ \E i \in stages["writing"].outputs : arts[i].name = "claim_map" /\ HoldsAll(arts[i].from)

\* The entry of verification.json that is the last one of s.
LastEntry(s, k) == verdicts[k].stage = s /\ \A j \in 1..Len(verdicts) : verdicts[j].stage = s => j <= k
FailedInv(s) ==
    LET report == stages[s].report
        log == report - 1
        Same(i) == arts[i].stage = s /\ arts[i].content.by = arts[report].content.by
    IN  /\ report \in 1..Len(arts) /\ arts[report].name = "error_report" /\ Same(report)
        /\ log \in arts[report].from /\ arts[log].name = "failure_log"
        /\ \A i \in arts[report].from : i < report /\ Same(i) /\ (arts[i].name = "failure_log" => i = log)
        /\ \A i \in 1..Len(arts) : arts[i].stage = s => arts[i].content.by <= arts[report].content.by
        /\ \A i \in 1..(report - 1) : Same(i) /\ arts[i].name \in FirstNames(s) => i \in arts[report].from
        /\ ~call.crashed /\ ~(Step("failverdict") /\ call.stage = s) =>
               \E k \in 1..Len(verdicts) : /\ LastEntry(s, k) /\ verdicts[k].status = "fail"
                                           /\ verdicts[k].sources = {report, log}

StageInv(s) ==
    /\ stages[s].status = "completed" => CompletedInv(s) /\ (s = "writing" => BackedInv)
    /\ stages[s].status = "failed" => FailedInv(s)

VerdictsInv ==
    \A k \in 1..Len(verdicts) :
        verdicts[k].status \in {"pass", "warning"} => verdicts[k].sources \subseteq 1..Len(arts) /\ HoldsAll(verdicts[k].sources)

Inv == TypesInv /\ CallInv /\ ArtsInv /\ ExecInv /\ VerdictsInv /\ \A s \in StageSet : StageInv(s)

-----------------------------------------------------------------------------
(* What the helpers look up.                                               *)

LEMMA LatestIs ==
    ASSUME IsSequence(arts), NEW n
    PROVE  /\ Latest(n) \in 0..Len(arts)
           /\ Latest(n) # 0 => arts[Latest(n)].name = n /\ IsLatest(Latest(n))
           /\ \A i \in 1..Len(arts) : IsLatest(i) /\ arts[i].name = n => Latest(n) = i
  <1> DEFINE found == {0} \cup {i \in DOMAIN arts : arts[i].name = n}
             m == Max(found)
  <1>1. DOMAIN arts = 1..Len(arts) /\ Len(arts) \in Nat
    BY Sequenced DEF IsSequence
  <1>2. found \in SUBSET (0..Len(arts)) /\ found # {}
    BY <1>1
  <1> HIDE DEF found
  <1>3. m \in found /\ \A i \in found : i <= m
    BY <1>1, <1>2, HasLast
  <1>4. Latest(n) = m
    BY DEF Latest, found
  <1> HIDE DEF m
  <1>5. m \in 0..Len(arts)
    BY <1>2, <1>3
  <1>6. m # 0 => arts[m].name = n
    BY <1>3 DEF found
  <1>7. \A j \in 1..Len(arts) : arts[j].name = n => j \in found /\ j <= m
    BY <1>1, <1>3 DEF found
  <1>8. m # 0 => IsLatest(m)
    BY <1>6, <1>7 DEF IsLatest
  <1>9. ASSUME NEW i \in 1..Len(arts), IsLatest(i), arts[i].name = n PROVE m = i
    <2>1. i \in found /\ i <= m
      BY <1>7, <1>9
    <2>2. m # 0 /\ m \in 1..Len(arts) /\ arts[m].name = n
      BY <1>5, <1>6, <2>1
    <2>3. m <= i
      BY <1>9, <2>2 DEF IsLatest
    <2> QED BY <1>5, <2>1, <2>3
  <1> QED BY <1>4, <1>5, <1>6, <1>8, <1>9

LEMMA MoreHold ==
    ASSUME NEW ids, NEW more, ids \subseteq more, HoldsAll(ids) PROVE HoldsAll(more)
  BY DEF HoldsAll, Holds

\* The evidence of a runner is what is registered.
LEMMA CitesIs ==
    ASSUME TypesInv, NEW p \in AllParts, RunnerOf(RunnerWith(p)).enough
    PROVE  RunnerOf(RunnerWith(p)).cites \subseteq 1..Len(arts)
  <1>1. IsSequence(arts) /\ DOMAIN arts = 1..Len(arts)
    BY Sequenced DEF TypesInv
  <1>2. \A n : Latest(n) # 0 => Latest(n) \in 1..Len(arts)
    BY <1>1, LatestIs DEF IsSequence
  <1>3. ASSUME NEW s \in StageSet PROVE stages[s].outputs \subseteq 1..Len(arts) /\ OutputsOrAll(s) \subseteq 1..Len(arts)
    BY <1>1 DEF TypesInv, OutputsOrAll
  <1>4. /\ "modeling" \in StageSet /\ "computation" \in StageSet /\ "analysis_visualization" \in StageSet
    BY StagesAre
  <1>5. ContractSources \subseteq 1..Len(arts)
    BY <1>2 DEF ContractSources, HasProposal, HasAll, DirectContract
  <1>6. RunnerWith(p) \in {"matrix", "review", "proposal", "structure", "inputs", "compute", "analysis", "figures", "writing"}
    BY DEF AllParts, RunnerWith, StageOf
  <1>7. CASE RunnerWith(p) \in {"matrix", "review"}
    BY <1>2, <1>7 DEF RunnerOf, MatrixRunner, ReviewRunner, HasAll
  <1>8. CASE RunnerWith(p) = "proposal"
    BY <1>2, <1>8 DEF RunnerOf, ProposalRunner, PartialReview, HasAll
  <1>9. CASE RunnerWith(p) = "structure"
    BY <1>5, <1>9 DEF RunnerOf, StructureRunner
  <1>10. CASE RunnerWith(p) = "inputs"
    BY <1>3, <1>4, <1>10 DEF RunnerOf, InputsRunner
  <1>11. CASE RunnerWith(p) = "compute"
    BY <1>3, <1>4, <1>11 DEF RunnerOf, ComputeRunner
  <1>12. CASE RunnerWith(p) = "analysis"
    BY <1>3, <1>4, <1>12 DEF RunnerOf, AnalysisRunner, Outputs
  <1>13. CASE RunnerWith(p) = "figures"
    BY <1>3, <1>4, <1>13 DEF RunnerOf, FiguresRunner
  <1>14. CASE RunnerWith(p) = "writing"
    BY <1>2, <1>14 DEF RunnerOf, WritingRunner, HasAll
  <1> QED BY <1>6, <1>7, <1>8, <1>9, <1>10, <1>11, <1>12, <1>13, <1>14

\* Writing cites all its evidence or none.
LEMMA WritingCites ==
    ASSUME TypesInv
    PROVE  LET cites == RunnerOf("writing").cites IN cites = {} \/ HoldsAll(cites)
  <1>1. RunnerOf("writing") = WritingRunner
    BY DEF RunnerOf
  <1>2. WritingRunner.cites = IF HasAll(RequiredNames) THEN {Latest(n) : n \in RequiredNames} ELSE {}
    BY DEF WritingRunner
  <1>3. ASSUME HasAll(RequiredNames), NEW n \in RequiredNames PROVE Holds({Latest(m) : m \in RequiredNames}, n)
    <2>1. Latest(n) # 0
      BY <1>3 DEF HasAll
    <2>2. arts[Latest(n)].name = n
      BY <2>1, LatestIs DEF TypesInv
    <2> QED BY <2>2 DEF Holds
  <1> QED BY <1>1, <1>2, <1>3 DEF HoldsAll

-----------------------------------------------------------------------------
(* What a step leaves alone.                                               *)

Grows ==
    /\ IsSequence(arts') /\ Len(arts') >= Len(arts)
    /\ \A i \in 1..Len(arts) : arts'[i] = arts[i]

\* No artifact, file or entry of stage s is new.
Outside(s) ==
    /\ stages'[s] = stages[s]
    /\ \A n \in FileNames : StageOf(PartOf(n)) = s => files'[n] = files[n]
    /\ \A i \in 1..Len(arts') :
           i > Len(arts) => /\ arts'[i].stage # s
                            /\ arts'[i].name \in FileNames => StageOf(PartOf(arts'[i].name)) # s

EntriesGrow ==
    /\ IsSequence(verdicts') /\ Len(verdicts') >= Len(verdicts)
    /\ \A k \in 1..Len(verdicts) : verdicts'[k] = verdicts[k]
NoEntry(s) == \A k \in 1..Len(verdicts') : k > Len(verdicts) => verdicts'[k].stage # s

LEMMA CompletedKept ==
    ASSUME TypesInv, NEW s \in StageSet, CompletedInv(s), Grows, Outside(s)
    PROVE  CompletedInv(s)'
  <1> DEFINE own == stages[s].outputs
  <1>1. stages'[s].outputs = own /\ own \subseteq 1..Len(arts) /\ Len(arts) \in Nat /\ Len(arts') \in Nat
    BY DEF TypesInv, Outside, Grows, IsSequence
  <1>2. \A i \in own : i \in 1..Len(arts') /\ arts'[i] = arts[i] /\ IsCurrent(i) /\ Stage(i) = s
    BY <1>1 DEF Grows, CompletedInv
  <1>3. ASSUME NEW i \in own PROVE IsCurrent(i)' /\ Stage(i)' = s
    <2>1. Named(i)' /\ Stage(i)' = s /\ files'[arts'[i].name] = arts'[i].content
      BY <1>2 DEF IsCurrent, Named, Stage, Outside
    <2>2. ASSUME NEW j \in 1..Len(arts'), arts'[j].name = arts'[i].name PROVE j <= i
      <3>1. j <= Len(arts)
        BY <1>1, <2>1, <2>2 DEF Outside, Named, Stage
      <3>2. j \in 1..Len(arts) /\ arts[j].name = arts[i].name
        BY <1>1, <1>2, <2>2, <3>1 DEF Grows
      <3> QED BY <1>2, <3>2 DEF IsCurrent, IsLatest
    <2> QED BY <2>1, <2>2 DEF IsCurrent, IsLatest
  <1>4. \A i, j \in own : arts'[i].content.by = arts'[j].content.by
    BY <1>2 DEF CompletedInv
  <1>5. \A q \in AllParts : StageOf(q) = s => \E i \in own : PartOf(arts'[i].name) = q
    BY <1>2 DEF CompletedInv
  <1> HIDE DEF own
  <1> QED BY <1>1, <1>3, <1>4, <1>5 DEF CompletedInv

LEMMA BackedKept ==
    ASSUME TypesInv, ArtsInv, BackedInv, Grows, Outside("writing")
    PROVE  BackedInv'
  <1>1. "writing" \in StageSet /\ {"verification_report", "claim_map"} \subseteq FileNames
    BY StagesAre, NamesAre, NamesOfParts DEF AllParts
  <1>2. StageOf(PartOf("verification_report")) = "writing" /\ StageOf(PartOf("claim_map")) = "writing"
    BY DEF StageOf, PartOf
  <1>3. /\ files'["verification_report"] = files["verification_report"] /\ files'["claim_map"] = files["claim_map"]
        /\ stages'["writing"] = stages["writing"]
    BY <1>1, <1>2 DEF Outside
  <1>4. ASSUME NEW i \in stages["writing"].outputs, arts[i].name = "claim_map", HoldsAll(arts[i].from)
        PROVE  arts'[i].name = "claim_map" /\ HoldsAll(arts[i].from)'
    <2>1. i \in 1..Len(arts) /\ Len(arts) \in Nat
      BY <1>1 DEF TypesInv, IsSequence
    <2>2. arts'[i] = arts[i] /\ arts[i].from \subseteq 1..(i - 1)
      BY <2>1 DEF Grows, ArtsInv
    <2>3. \A j \in arts[i].from : j \in 1..Len(arts) /\ arts'[j] = arts[j]
      BY <2>1, <2>2 DEF Grows
    <2> QED BY <1>4, <2>2, <2>3 DEF HoldsAll, Holds
  <1> QED BY <1>3, <1>4 DEF BackedInv

LEMMA FailedKept ==
    ASSUME TypesInv, ArtsInv, NEW s \in StageSet, FailedInv(s), Grows, Outside(s), EntriesGrow, NoEntry(s),
           ~call'.crashed => ~call.crashed /\ ~(Step("failverdict") /\ call.stage = s)
    PROVE  FailedInv(s)'
  <1> DEFINE report == stages[s].report
             log == report - 1
  <1>1. stages'[s].report = report /\ report \in 1..Len(arts) /\ Len(arts) \in Nat /\ Len(arts') \in Nat /\ Len(arts') >= Len(arts)
    BY DEF TypesInv, Outside, Grows, IsSequence, FailedInv
  <1>2. \A i \in 1..report : i \in 1..Len(arts') /\ arts'[i] = arts[i]
    BY <1>1 DEF Grows
  <1>3. arts[report].from \subseteq 1..(report - 1) /\ log \in arts[report].from
    BY <1>1 DEF ArtsInv, FailedInv
  <1>4. log \in 1..report /\ report \in 1..report /\ \A i \in arts[report].from : i \in 1..report
    BY <1>1, <1>3
  <1>5. arts'[report] = arts[report] /\ arts'[log] = arts[log] /\ \A i \in arts[report].from : arts'[i] = arts[i]
    BY <1>2, <1>4
  <1>6. \A i \in 1..Len(arts') : arts'[i].stage = s => i \in 1..Len(arts) /\ arts'[i] = arts[i]
    BY <1>1 DEF Grows, Outside
  <1>7. \A i \in 1..(report - 1) : arts'[i] = arts[i]
    BY <1>1, <1>2
  <1>8. ASSUME ~call'.crashed
        PROVE  \E k \in 1..Len(verdicts') : /\ LastEntry(s, k)' /\ verdicts'[k].status = "fail"
                                            /\ verdicts'[k].sources = {report, log}
    <2>1. PICK k \in 1..Len(verdicts) : /\ LastEntry(s, k) /\ verdicts[k].status = "fail"
                                        /\ verdicts[k].sources = {report, log}
      BY <1>8 DEF FailedInv
    <2>2. Len(verdicts) \in Nat /\ Len(verdicts') \in Nat /\ Len(verdicts') >= Len(verdicts)
      BY DEF TypesInv, EntriesGrow, IsSequence
    <2>3. k \in 1..Len(verdicts') /\ verdicts'[k] = verdicts[k]
      BY <2>2 DEF EntriesGrow
    <2>4. \A j \in 1..Len(verdicts') : verdicts'[j].stage = s => j \in 1..Len(verdicts) /\ verdicts'[j] = verdicts[j]
      BY <2>2 DEF EntriesGrow, NoEntry
    <2> QED BY <2>1, <2>3, <2>4 DEF LastEntry
  <1> HIDE DEF report, log
  <1>9. /\ report \in 1..Len(arts') /\ arts'[report].name = "error_report" /\ arts'[report].stage = s
        /\ log \in arts'[report].from /\ arts'[log].name = "failure_log"
    BY <1>1, <1>2, <1>4, <1>5 DEF FailedInv, report, log
  <1>10. \A i \in arts'[report].from :
            /\ i < report /\ arts'[i].stage = s /\ arts'[i].content.by = arts'[report].content.by
            /\ arts'[i].name = "failure_log" => i = log
    BY <1>5 DEF FailedInv, report, log
  <1>11. \A i \in 1..Len(arts') : arts'[i].stage = s => arts'[i].content.by <= arts'[report].content.by
    BY <1>5, <1>6 DEF FailedInv, report
  <1>12. \A i \in 1..(report - 1) : arts'[i].stage = s /\ arts'[i].content.by = arts'[report].content.by
                                       /\ arts'[i].name \in FirstNames(s) => i \in arts'[report].from
    BY <1>5, <1>7 DEF FailedInv, report
  <1> QED BY <1>1, <1>8, <1>9, <1>10, <1>11, <1>12 DEF FailedInv, report, log

LEMMA StageKept ==
    ASSUME TypesInv, ArtsInv, NEW s \in StageSet, StageInv(s), Grows, Outside(s), EntriesGrow, NoEntry(s),
           ~call'.crashed => ~call.crashed /\ ~(Step("failverdict") /\ call.stage = s)
    PROVE  StageInv(s)'
  <1>1. stages'[s].status = stages[s].status
    BY DEF Outside
  <1> QED BY <1>1, CompletedKept, BackedKept, FailedKept DEF StageInv

-----------------------------------------------------------------------------
(* The steps.                                                              *)

NoRange == Range(<<>>) = {}
LEMMA RangeOfNone == NoRange /\ IsSequence(<<>>) /\ Len(<<>>) = 0
  BY DEF NoRange, Range, IsSequence

LEMMA RangeOfOne ==
    ASSUME NEW x PROVE Range(<<x>>) = {x} /\ IsSequence(<<x>>) /\ Head(<<x>>) = x
  BY DEF Range, IsSequence

CallFields == {"pc", "stage", "later", "piped", "runners", "parts", "exec", "cited", "done", "mine", "mode", "crashed"}
LEMMA FieldsOfCall == DOMAIN Idle = CallFields
  BY DEF Idle, CallFields

\* What holds of the project, whatever the call does, if it leaves it alone.
Kept == TypesInv /\ ArtsInv /\ VerdictsInv /\ \A s \in StageSet : StageInv(s)

LEMMA LeavesAlone ==
    ASSUME Inv, UNCHANGED <<entry, stages, arts, files, verdicts>>, workflow' \in WorkflowRecord,
           call'.exec \in Nat, call'.exec >= call.exec, ~call'.crashed => ~call.crashed /\ ~Step("failverdict")
    PROVE  Kept'
  <1>1. TypesInv /\ ArtsInv /\ VerdictsInv /\ CallInv
    BY DEF Inv
  <1>2. TypesInv'
    <2>1. call.exec \in Nat /\ \A x \in 0..call.exec : x \in 0..call'.exec
      BY <1>1 DEF CallInv
    <2> QED BY <1>1, <2>1 DEF TypesInv, IsSequence
  <1>3. ArtsInv'
    <2>1. call.exec \in Nat /\ \A x \in 1..call.exec : x \in 1..call'.exec
      BY <1>1 DEF CallInv
    <2> QED BY <1>1, <2>1 DEF ArtsInv, Named, Stage
  <1>4. VerdictsInv'
    BY <1>1 DEF VerdictsInv, HoldsAll, Holds
  <1>5. ASSUME NEW s \in StageSet PROVE StageInv(s)'
    <2>1. IsSequence(arts) /\ IsSequence(verdicts) /\ Len(arts) \in Nat /\ Len(verdicts) \in Nat
      BY <1>1 DEF TypesInv, IsSequence
    <2>2. Grows /\ EntriesGrow
      BY <2>1 DEF Grows, EntriesGrow, IsSequence
    <2>3. Outside(s) /\ NoEntry(s)
      BY <2>1 DEF Outside, NoEntry
    <2> QED BY <1>1, <2>2, <2>3, StageKept DEF Inv
  <1> QED BY <1>2, <1>3, <1>4, <1>5 DEF Kept

LEMMA IndexIs == \A s \in StageSet : Index(s) \in 1..6 /\ Stages[Index(s)] = s
  <1>1. \A s \in StageSet : \E i \in 1..6 : Stages[i] = s
    BY StagesAre DEF Stages
  <1>2. DOMAIN Stages = 1..6
    BY DEF Stages
  <1> QED BY <1>1, <1>2 DEF Index

LEMMA StagesBetween ==
    ASSUME NEW m \in 1..7, NEW n \in 1..6 PROVE SubSeq(Stages, m, n) \in Seq(StageSet)
  <1>1. \A i \in 1..6 : Stages[i] \in StageSet
    BY StagesAre DEF Stages
  <1>2. \A i \in m..n : Stages[i] \in StageSet
    BY <1>1
  <1> QED BY <1>2, SubSeqProperties

LEMMA ToRunIs ==
    ASSUME TypesInv, NEW target \in StageSet PROVE ToRun(target) \in Seq(StageSet)
  <1>1. workflow.current \in StageSet /\ Len(Stages) = 6
    BY DEF TypesInv, WorkflowRecord, Stages
  <1> DEFINE at == Index(workflow.current)
             from == IF stages[workflow.current].status = "completed" /\ at < Len(Stages) THEN at + 1 ELSE at
  <1>2. at \in 1..6 /\ Index(target) \in 1..6
    BY <1>1, IndexIs
  <1> HIDE DEF at
  <1>3. from \in 1..7
    BY <1>1, <1>2
  <1> HIDE DEF from
  <1>4. ToRun(target) = SubSeq(Stages, from, Index(target))
    BY DEF ToRun, from, at
  <1> QED BY <1>2, <1>3, <1>4, StagesBetween

LEMMA StartIs ==
    ASSUME Inv, Step("idle"), NEW s \in StageSet, NEW later \in Seq(StageSet), NEW piped,
           call' = Begun(s, later, piped), UNCHANGED <<entry, workflow, stages, arts, files, verdicts>>
    PROVE  Inv'
  <1>1. /\ call'.pc = "begin" /\ call'.stage = s /\ call'.later = later /\ call'.exec = call.exec
        /\ call'.crashed = call.crashed /\ call'.cited = {} /\ call'.done = {} /\ call'.mine = <<>>
        /\ DOMAIN call' = CallFields
    BY FieldsOfCall DEF Begun, Idle, CallFields
  <1>2. CallInv /\ TypesInv
    BY DEF Inv
  <1>3. Kept'
    <2>1. workflow' \in WorkflowRecord
      BY <1>2 DEF TypesInv
    <2>2. call'.exec \in Nat /\ call'.exec >= call.exec
      BY <1>1, <1>2 DEF CallInv
    <2> QED BY <1>1, <2>1, <2>2, LeavesAlone DEF Step
  <1>4. CallInv'
    BY <1>1, <1>2, RangeOfNone, FieldsOfCall DEF CallInv, NoRange, Running, Failing, Ending, Step
  <1>5. ExecInv'
    BY <1>1 DEF ExecInv, Running, Failing, Step
  <1> QED BY <1>3, <1>4, <1>5 DEF Inv, Kept

LEMMA CallStageIs == Inv /\ CallStage => Inv'
  <1> SUFFICES ASSUME Inv, CallStage PROVE Inv'
    OBVIOUS
  <1>1. PICK s \in Single : call' = Begun(s, <<>>, FALSE) /\ Step("idle")
    BY DEF CallStage, StartCall
  <1>2. s \in StageSet /\ <<>> \in Seq(StageSet)
    BY <1>1, BoundsAssumption
  <1>3. UNCHANGED <<entry, workflow, stages, arts, files, verdicts>>
    BY DEF CallStage
  <1> QED BY <1>1, <1>2, <1>3, StartIs

LEMMA CallPipelineIs == Inv /\ CallPipeline => Inv'
  <1> SUFFICES ASSUME Inv, CallPipeline PROVE Inv'
    OBVIOUS
  <1>1. PICK target \in Targets : /\ ToRun(target) # <<>> /\ Step("idle")
                                  /\ call' = Begun(Head(ToRun(target)), Tail(ToRun(target)), TRUE)
    BY DEF CallPipeline, StartCall
  <1>2. ToRun(target) \in Seq(StageSet)
    BY BoundsAssumption, ToRunIs DEF Inv
  <1>3. Head(ToRun(target)) \in StageSet /\ Tail(ToRun(target)) \in Seq(StageSet)
    BY <1>1, <1>2, HeadTailProperties
  <1>4. UNCHANGED <<entry, workflow, stages, arts, files, verdicts>>
    BY DEF CallPipeline
  <1> QED BY <1>1, <1>3, <1>4, StartIs

\* Only the stages in changing get another status, one that promises nothing.
LEMMA StagesChange ==
    ASSUME Inv, UNCHANGED <<entry, arts, files, verdicts>>, workflow' \in WorkflowRecord,
           stages' \in [StageSet -> StageRecord], NEW changing,
           \A s \in StageSet : stages'[s].outputs = stages[s].outputs /\ stages'[s].inputs = stages[s].inputs,
           \A s \in StageSet \ changing : stages'[s] = stages[s],
           \A s \in StageSet : s \in changing => stages'[s].status \in {"pending", "in_progress", "waiting"},
           call'.exec \in Nat, call'.exec >= call.exec, call'.crashed = call.crashed, ~Step("failverdict")
    PROVE  Kept'
  <1>1. TypesInv /\ ArtsInv /\ VerdictsInv /\ CallInv
    BY DEF Inv
  <1>2. TypesInv'
    <2>1. call.exec \in Nat /\ \A x \in 0..call.exec : x \in 0..call'.exec
      BY <1>1 DEF CallInv
    <2> QED BY <1>1, <2>1 DEF TypesInv, IsSequence
  <1>3. ArtsInv'
    <2>1. call.exec \in Nat /\ \A x \in 1..call.exec : x \in 1..call'.exec
      BY <1>1 DEF CallInv
    <2> QED BY <1>1, <2>1 DEF ArtsInv, Named, Stage
  <1>4. VerdictsInv'
    BY <1>1 DEF VerdictsInv, HoldsAll, Holds
  <1>5. ASSUME NEW s \in StageSet, s \notin changing PROVE StageInv(s)'
    <2>1. IsSequence(arts) /\ IsSequence(verdicts) /\ Len(arts) \in Nat /\ Len(verdicts) \in Nat
      BY <1>1 DEF TypesInv, IsSequence
    <2>2. Grows /\ EntriesGrow
      BY <2>1 DEF Grows, EntriesGrow, IsSequence
    <2>3. Outside(s) /\ NoEntry(s)
      BY <1>5, <2>1 DEF Outside, NoEntry
    <2> QED BY <1>1, <1>5, <2>2, <2>3, StageKept DEF Inv
  <1>6. ASSUME NEW s \in StageSet, s \in changing PROVE StageInv(s)'
    BY <1>6 DEF StageInv
  <1> QED BY <1>2, <1>3, <1>4, <1>5, <1>6 DEF Kept

LEMMA DryRunIs == Inv /\ DryRun => Inv'
  <1> SUFFICES ASSUME Inv, DryRun PROVE Inv'
    OBVIOUS
  <1>1. PICK ss : stages' = [s \in StageSet |-> IF s \in ss THEN [stages[s] EXCEPT !.status = "pending"] ELSE stages[s]]
    BY DEF DryRun
  <1>2. UNCHANGED <<entry, workflow, arts, files, verdicts, call>> /\ Step("idle")
    BY DEF DryRun, StartCall
  <1>3. TypesInv /\ CallInv /\ ExecInv
    BY DEF Inv
  <1>4. \A s \in StageSet : stages[s] \in StageRecord
    BY <1>3 DEF TypesInv
  <1>5. \A s \in StageSet : [stages[s] EXCEPT !.status = "pending"] \in StageRecord
    BY <1>4 DEF StageRecord
  <1>6. stages' \in [StageSet -> StageRecord]
    BY <1>1, <1>4, <1>5
  <1>7. ASSUME NEW s \in StageSet
        PROVE  /\ stages'[s].outputs = stages[s].outputs /\ stages'[s].inputs = stages[s].inputs
               /\ s \in ss => stages'[s].status = "pending"
               /\ s \notin ss => stages'[s] = stages[s]
    BY <1>1, <1>4 DEF StageRecord
  <1>8. Kept'
    <2>1. workflow' \in WorkflowRecord /\ call'.exec \in Nat /\ call'.exec >= call.exec /\ call'.crashed = call.crashed
      BY <1>2, <1>3 DEF TypesInv, CallInv
    <2> QED BY <1>2, <1>6, <1>7, <2>1, StagesChange DEF Step
  <1>9. CallInv'
    BY <1>2, <1>3 DEF CallInv, Step
  <1>10. ExecInv'
    BY <1>2 DEF ExecInv, Step, Running, Failing
  <1> QED BY <1>8, <1>9, <1>10 DEF Inv, Kept

LEMMA BeginIs == Inv /\ Begin => Inv'
  <1> SUFFICES ASSUME Inv, Begin PROVE Inv'
    OBVIOUS
  <1>1. TypesInv /\ CallInv /\ ExecInv /\ ArtsInv /\ call.pc = "begin" /\ call.mine = <<>>
    BY DEF Inv, Begin, Step, ExecInv
  <1> DEFINE s == call.stage
             r == [stages[s] EXCEPT !.status = "in_progress", !.report = 0]
  <1>2. s \in StageSet /\ call.exec \in Nat /\ DOMAIN call = CallFields
    BY <1>1, FieldsOfCall DEF CallInv
  <1>3. /\ call'.pc = "load" /\ call'.stage = s /\ call'.later = call.later /\ call'.exec = call.exec + 1
        /\ call'.runners = Runners[s] /\ call'.cited = {} /\ call'.done = {} /\ call'.mine = <<>>
        /\ call'.crashed = call.crashed /\ DOMAIN call' = CallFields
    BY <1>1, <1>2 DEF Begin, Goto, CallFields
  <1>4. UNCHANGED <<entry, arts, files, verdicts>>
    BY DEF Begin
  <1>5. workflow' \in WorkflowRecord
    BY <1>1, <1>2 DEF Begin, TypesInv, WorkflowRecord
  <1>6. stages' = [stages EXCEPT ![s] = r]
    <2>1. stages[s] \in StageRecord /\ DOMAIN stages = StageSet
      BY <1>1, <1>2 DEF TypesInv
    <2> QED BY <1>1, <1>2, <2>1 DEF Begin, StageRecord
  <1>7. stages[s] \in StageRecord /\ r \in StageRecord /\ r.status = "in_progress" /\ r.outputs = stages[s].outputs /\ r.inputs = stages[s].inputs
    <2>1. stages[s] \in StageRecord
      BY <1>1, <1>2 DEF TypesInv
    <2> QED BY <2>1 DEF StageRecord
  <1> HIDE DEF r
  <1>8. stages' \in [StageSet -> StageRecord] /\ stages'[s] = r /\ \A t \in StageSet \ {s} : stages'[t] = stages[t]
    BY <1>1, <1>2, <1>6, <1>7 DEF TypesInv
  <1>9. Kept'
    <2>1. call'.exec \in Nat /\ call'.exec >= call.exec
      BY <1>2, <1>3
    <2>2. \A t \in StageSet : stages'[t].outputs = stages[t].outputs /\ stages'[t].inputs = stages[t].inputs
      BY <1>7, <1>8
    <2>3. \A t \in StageSet : t \in {s} => stages'[t].status \in {"pending", "in_progress", "waiting"}
      BY <1>7, <1>8
    <2> QED BY <1>1, <1>3, <1>4, <1>5, <1>8, <2>1, <2>2, <2>3, StagesChange DEF Step
  <1>10. CallInv'
    BY <1>1, <1>2, <1>3, <1>4, RangeOfNone, FieldsOfCall DEF CallInv, NoRange, Running, Failing, Ending, Step
  <1>11. PICK p \in AllParts : StageOf(p) = s /\ Place(p) = 1 /\ Runners[s] = RunnersFrom(p)
    BY <1>2, Begins
  <1>12. Standing(p)'
    <2>1. At(p)'
      BY <1>3, <1>11 DEF At, Step
    <2>2. Own' = {}
      BY <1>3, RangeOfNone DEF Own, NoRange
    <2>3. \A i \in 1..Len(arts') : ~Mine(i)'
      BY <1>1, <1>2, <1>3, <1>4 DEF Mine, ArtsInv
    <2>4. \A q \in AllParts : ~(Place(q) < 1)
      BY DEF AllParts, Place
    <2>5. Reached(1)'
      BY <2>2, <2>3, <2>4 DEF Reached
    <2> QED BY <1>3, <1>11, <2>1, <2>5 DEF Standing, Step
  <1>13. ExecInv'
    BY <1>3, <1>7, <1>8, <1>12 DEF ExecInv, Step, Running, Failing
  <1> QED BY <1>9, <1>10, <1>13 DEF Inv, Kept

\* A step that only moves the call on.
Moved(pc) ==
    /\ call'.pc = pc /\ call'.stage = call.stage /\ call'.later = call.later /\ call'.exec = call.exec
    /\ call'.crashed = call.crashed /\ call'.cited = call.cited /\ call'.done = call.done /\ call'.mine = call.mine
    /\ call'.runners = call.runners /\ call'.parts = call.parts /\ DOMAIN call' = CallFields

LEMMA Going ==
    ASSUME DOMAIN call = CallFields, NEW pc, Goto(call, pc) PROVE Moved(pc)
  BY DEF Goto, CallFields, Moved

LEMMA Moves ==
    ASSUME Inv, NEW pc \in Failing \cup Ending, Moved(pc), UNCHANGED <<entry, stages, arts, files, verdicts>>,
           workflow' \in WorkflowRecord, ~Step("failverdict"), ~Step("idle"), call.exec > 0
    PROVE  Kept' /\ CallInv'
  <1>1. CallInv
    BY DEF Inv
  <1>2. Kept'
    <2>1. call'.exec \in Nat /\ call'.exec >= call.exec
      BY <1>1 DEF CallInv, Moved
    <2> QED BY <2>1, LeavesAlone DEF Moved
  <1>3. CallInv'
    BY <1>1, FieldsOfCall DEF CallInv, Step, Running, Failing, Ending, Moved
  <1> QED BY <1>2, <1>3

\* Whenever a runner fails, what came before it in its stage is in call.done.
LEMMA FailsFrom ==
    ASSUME NEW p \in AllParts, At(p), Reached(Place(p)), RunnerWith(p) # "writing" => call.mine = <<>>
    PROVE  /\ \A i \in call.done : Mine(i) /\ Named(i)
           /\ \A i \in 1..Len(arts) : Mine(i) /\ arts[i].name \in FirstNames(call.stage) => i \in call.done
  <1>1. \A i \in call.done : Mine(i) /\ Named(i)
    BY DEF Reached, Own, IsCurrent
  <1>2. CASE RunnerWith(p) # "writing"
    <2>1. Own = call.done
      BY <1>2, RangeOfNone DEF Own, NoRange
    <2> QED BY <1>1, <2>1 DEF Reached
  <1>3. CASE RunnerWith(p) = "writing"
    <2>1. call.stage = "writing"
      BY <1>3 DEF At, RunnerWith, AllParts, StageOf
    <2>2. Len(<<"writing">>) = 1
      OBVIOUS
    <2>3. FirstNames(call.stage) = {}
      BY <2>1, <2>2, RunnersAre DEF FirstNames
    <2> QED BY <1>1, <2>3
  <1> QED BY <1>2, <1>3

LEMMA FailIs == Inv /\ (Fail \/ Unplanned) => Inv'
  <1> SUFFICES ASSUME Inv, Fail \/ Unplanned PROVE Inv'
    OBVIOUS
  <1>1. Goto(call, "faillog") /\ call.pc \in {"write", "register"} /\ UNCHANGED <<entry, workflow, stages, arts, files, verdicts>>
    BY DEF Fail, Unplanned, Step
  <1>2. CallInv /\ ExecInv /\ TypesInv
    BY DEF Inv
  <1>3. PICK p \in AllParts : Standing(p)
    BY <1>1, <1>2 DEF ExecInv
  <1>4. Kept' /\ CallInv' /\ Moved("faillog")
    <2>1. call.exec > 0 /\ Moved("faillog")
      BY <1>1, <1>2, FieldsOfCall, Going DEF CallInv, Running
    <2>2. "faillog" \in Failing \cup Ending
      BY DEF Failing
    <2>3. workflow' \in WorkflowRecord
      BY <1>1, <1>2 DEF TypesInv
    <2> QED BY <1>1, <2>1, <2>2, <2>3, Moves DEF Step
  <1>5. /\ \A i \in call.done : Mine(i) /\ Named(i)
        /\ \A i \in 1..Len(arts) : Mine(i) /\ arts[i].name \in FirstNames(call.stage) => i \in call.done
    BY <1>3, FailsFrom DEF Standing
  <1>6. FailingInv'
    BY <1>1, <1>4, <1>5 DEF FailingInv, Mine, Named, Step, FirstNames, Moved
  <1>7. ExecInv'
    BY <1>1, <1>2, <1>4, <1>6 DEF ExecInv, Step, Running, Failing, Moved
  <1> QED BY <1>4, <1>7 DEF Inv, Kept

LEMMA LoadIs == Inv /\ Load => Inv'
  <1> SUFFICES ASSUME Inv, Load PROVE Inv'
    OBVIOUS
  <1>1. call.pc = "load" /\ UNCHANGED <<entry, workflow, stages, arts, files, verdicts>> /\ CallInv /\ ExecInv /\ TypesInv
    BY DEF Load, Step, Inv
  <1>2. PICK p \in AllParts : Standing(p)
    BY <1>1 DEF ExecInv
  <1>3. call.mine = <<>> /\ DOMAIN call = CallFields /\ call.exec > 0 /\ call.exec \in Nat
    BY <1>1, FieldsOfCall DEF ExecInv, CallInv, Running
  <1>4. /\ At(p) /\ Reached(Place(p)) /\ (RunnerWith(p) # "writing" \/ Place(p) = 1)
        /\ Runner = RunnerWith(p) /\ Parts(Runner) = PartsFrom(p)
    BY <1>1, <1>2, Loads DEF Standing, At, Runner, Step
  <1>5. workflow' \in WorkflowRecord
    BY <1>1 DEF TypesInv
  <1>6. CASE ~RunnerOf(Runner).enough
    <2>1. Goto([call EXCEPT !.mine = <<>>], "faillog")
      BY <1>6 DEF Load
    <2>2. Moved("faillog")
      BY <1>3, <2>1 DEF Goto, CallFields, Moved
    <2>3. "faillog" \in Failing \cup Ending
      BY DEF Failing
    <2>4. Kept' /\ CallInv'
      BY <1>1, <1>3, <1>5, <2>2, <2>3, Moves DEF Step
    <2>5. /\ \A i \in call.done : Mine(i) /\ Named(i)
          /\ \A i \in 1..Len(arts) : Mine(i) /\ arts[i].name \in FirstNames(call.stage) => i \in call.done
      BY <1>2, FailsFrom DEF Standing
    <2>6. FailingInv'
      BY <1>1, <2>2, <2>5 DEF FailingInv, Mine, Named, Step, FirstNames, Moved
    <2>7. ExecInv'
      BY <1>1, <2>2, <2>6 DEF ExecInv, Step, Running, Failing, Moved
    <2> QED BY <2>4, <2>7 DEF Inv, Kept
  <1>7. CASE RunnerOf(Runner).enough
    <2> DEFINE cites == RunnerOf(Runner).cites
    <2>1. /\ call'.pc = "write" /\ call'.cited = cites /\ call'.parts = PartsFrom(p) /\ call'.mine = <<>>
          /\ call'.stage = call.stage /\ call'.later = call.later /\ call'.runners = call.runners /\ call'.exec = call.exec
          /\ call'.done = call.done /\ call'.crashed = call.crashed /\ DOMAIN call' = CallFields
      BY <1>3, <1>4, <1>7 DEF Load, Goto, CallFields
    <2>2. cites \subseteq 1..Len(arts)
      BY <1>1, <1>4, <1>7, CitesIs
    <2>3. RunnerWith(p) = "writing" => cites = {} \/ HoldsAll(cites)
      BY <1>1, <1>4, WritingCites
    <2> HIDE DEF cites
    <2>4. Kept'
      <3>1. call'.exec >= call.exec
        BY <1>3, <2>1
      <3> QED BY <1>1, <1>3, <1>5, <2>1, <3>1, LeavesAlone DEF Step
    <2>5. CallInv'
      BY <1>1, <1>3, <2>1, <2>2, RangeOfNone, FieldsOfCall DEF CallInv, NoRange, Step, Running, Failing, Ending
    <2>6. Own' = Own
      BY <1>3, <2>1 DEF Own
    <2>7. Reached(Place(p))'
      BY <1>1, <1>4, <2>1, <2>6 DEF Reached, Mine, IsCurrent, IsLatest, Named
    <2>8. At(p)'
      BY <1>4, <2>1 DEF At, Step
    <2>9. ASSUME RunnerWith(p) = "writing" PROVE WritingInv(Place(p), Place(p) - 1)'
      <3>1. Place(p) = 1
        BY <1>4, <2>9
      <3>2. call'.cited # {} => HoldsAll(call.cited)'
        BY <1>1, <2>1, <2>3, <2>9 DEF HoldsAll, Holds
      <3> QED BY <3>1, <3>2 DEF WritingInv
    <2>10. Standing(p)'
      BY <2>1, <2>7, <2>8, <2>9 DEF Standing, Step
    <2>11. ExecInv'
      BY <1>1, <2>1, <2>10 DEF ExecInv, Step, Running, Failing
    <2> QED BY <2>4, <2>5, <2>11 DEF Inv, Kept
  <1> QED BY <1>6, <1>7

\* The steps at the end of a call, which keep what the stage has come to.
LEMMA ReturnIs == Inv /\ Return => Inv'
  <1> SUFFICES ASSUME Inv, Return PROVE Inv'
    OBVIOUS
  <1>1. call.pc = "end" /\ UNCHANGED <<entry, workflow, stages, arts, files, verdicts>> /\ CallInv /\ TypesInv
    BY DEF Return, Step, Inv
  <1>2. /\ call'.pc = "idle" /\ call'.exec = call.exec /\ call'.crashed = call.crashed /\ call'.later = <<>>
        /\ call'.cited = {} /\ call'.done = {} /\ call'.mine = <<>> /\ DOMAIN call' = CallFields
    BY FieldsOfCall DEF Return, Idle, CallFields
  <1>3. Kept'
    <2>1. workflow' \in WorkflowRecord /\ call'.exec \in Nat /\ call'.exec >= call.exec
      BY <1>1, <1>2 DEF TypesInv, CallInv
    <2> QED BY <1>1, <1>2, <2>1, LeavesAlone DEF Step
  <1>4. CallInv'
    BY <1>1, <1>2, RangeOfNone, FieldsOfCall DEF CallInv, NoRange, Running, Failing, Ending
  <1>5. ExecInv'
    BY <1>2 DEF ExecInv, Step, Running, Failing
  <1> QED BY <1>3, <1>4, <1>5 DEF Inv, Kept

LEMMA CloseIs == Inv /\ Close => Inv'
  <1> SUFFICES ASSUME Inv, Close PROVE Inv'
    OBVIOUS
  <1>1. call.pc = "close" /\ Goto(call, "end") /\ UNCHANGED <<entry, stages, arts, files, verdicts>> /\ CallInv
    BY DEF Close, Step, Inv
  <1>2. workflow' \in WorkflowRecord
    BY <1>1, StagesAre DEF Close, Progress, WorkflowRecord, CallInv
  <1>3. "end" \in Failing \cup Ending /\ call.exec > 0
    BY <1>1 DEF Ending, CallInv
  <1>4. Kept' /\ CallInv' /\ call'.pc = "end"
    <2>1. Moved("end")
      BY <1>1, FieldsOfCall, Going DEF CallInv
    <2> QED BY <1>1, <1>2, <1>3, <2>1, Moves DEF Step, Moved
  <1>5. ExecInv'
    BY <1>4 DEF ExecInv, Step, Running, Failing
  <1> QED BY <1>4, <1>5 DEF Inv, Kept

LEMMA AdvanceIs == Inv /\ Advance => Inv'
  <1> SUFFICES ASSUME Inv, Advance PROVE Inv'
    OBVIOUS
  <1>1. /\ call.pc = "advance" /\ UNCHANGED <<entry, stages, arts, files, verdicts>> /\ CallInv /\ ExecInv
        /\ DOMAIN call = CallFields /\ call.mine = <<>>
    BY FieldsOfCall DEF Advance, Step, Inv, CallInv, ExecInv
  <1>2. workflow' \in WorkflowRecord
    BY <1>1, StagesAre DEF Advance, Progress, WorkflowRecord, CallInv
  <1>3. CASE call.later = <<>>
    <2>1. PICK pc \in {"close", "end"} : Goto(call, pc)
      BY <1>3 DEF Advance
    <2>2. pc \in Failing \cup Ending /\ call.exec > 0 /\ Moved(pc)
      BY <1>1, <2>1, Going DEF Ending, CallInv
    <2>3. Kept' /\ CallInv' /\ call'.pc = pc
      BY <1>1, <1>2, <2>2, Moves DEF Step, Moved
    <2>4. ExecInv'
      BY <2>1, <2>3 DEF ExecInv, Step, Running, Failing
    <2> QED BY <2>3, <2>4 DEF Inv, Kept
  <1>4. CASE call.later # <<>>
    <2>1. /\ call'.pc = "begin" /\ call'.stage = Head(call.later) /\ call'.later = Tail(call.later) /\ call'.exec = call.exec
          /\ call'.crashed = call.crashed /\ call'.cited = call.cited /\ call'.done = call.done /\ call'.mine = <<>>
          /\ DOMAIN call' = CallFields
      BY <1>1, <1>4 DEF Advance, CallFields
    <2>2. call'.stage \in StageSet /\ call'.later \in Seq(StageSet)
      BY <1>1, <1>4, <2>1, HeadTailProperties DEF CallInv
    <2>3. Kept'
      <3>1. call'.exec \in Nat /\ call'.exec >= call.exec
        BY <1>1, <2>1 DEF CallInv
      <3> QED BY <1>1, <1>2, <2>1, <3>1, LeavesAlone DEF Step
    <2>4. CallInv'
      BY <1>1, <2>1, <2>2, FieldsOfCall DEF CallInv, Running, Failing, Ending, Step
    <2>5. ExecInv'
      BY <2>1 DEF ExecInv, Step, Running, Failing
    <2> QED BY <2>3, <2>4, <2>5 DEF Inv, Kept
  <1> QED BY <1>3, <1>4

LEMMA WaitIs == Inv /\ Wait => Inv'
  <1> SUFFICES ASSUME Inv, Wait PROVE Inv'
    OBVIOUS
  <1>1. /\ call.pc = "write" /\ Goto(call, "end") /\ UNCHANGED <<entry, arts, files, verdicts>>
        /\ stages' = [stages EXCEPT ![call.stage].status = "waiting"] /\ CallInv /\ TypesInv
    BY DEF Wait, Step, Inv
  <1>2. call.stage \in StageSet /\ call.exec > 0 /\ call.exec \in Nat
    BY <1>1 DEF CallInv, Running
  <1>3. workflow' \in WorkflowRecord
    BY <1>2 DEF Wait, WorkflowRecord
  <1>4. /\ stages' \in [StageSet -> StageRecord]
        /\ \A s \in StageSet : stages'[s].outputs = stages[s].outputs /\ stages'[s].inputs = stages[s].inputs
        /\ \A s \in StageSet \ {call.stage} : stages'[s] = stages[s]
        /\ stages'[call.stage].status = "waiting"
    BY <1>1, <1>2 DEF TypesInv, StageRecord
  <1>5. Moved("end")
    BY <1>1, FieldsOfCall, Going DEF CallInv
  <1>6. Kept'
    <2>1. call'.exec \in Nat /\ call'.exec >= call.exec /\ call'.crashed = call.crashed
      BY <1>2, <1>5 DEF Moved
    <2>2. \A s \in StageSet : s \in {call.stage} => stages'[s].status \in {"pending", "in_progress", "waiting"}
      BY <1>4
    <2> QED BY <1>1, <1>3, <1>4, <2>1, <2>2, StagesChange DEF Step
  <1>7. CallInv'
    BY <1>1, <1>2, <1>5, FieldsOfCall DEF CallInv, Step, Running, Failing, Ending, Moved
  <1>8. ExecInv'
    BY <1>5 DEF ExecInv, Step, Running, Failing, Moved
  <1> QED BY <1>6, <1>7, <1>8 DEF Inv, Kept

\* What is left alone of the stages but one.
LEMMA OtherStages ==
    ASSUME Inv, NEW s \in StageSet, s # call.stage, UNCHANGED <<arts, files>>, stages'[s] = stages[s], EntriesGrow, NoEntry(s),
           call'.crashed = call.crashed, Step("failverdict") => s # call.stage, ~Step("failverdict")
    PROVE  StageInv(s)'
  <1>1. TypesInv /\ ArtsInv /\ StageInv(s)
    BY DEF Inv
  <1>2. Grows /\ Outside(s)
    BY <1>1 DEF Grows, Outside, TypesInv, IsSequence
  <1> QED BY <1>1, <1>2, StageKept

LEMMA StageInputsAre ==
    ASSUME TypesInv, ArtsInv, CallInv PROVE StageInputs \subseteq 1..Len(arts)
  <1> DEFINE Parents(ids) == UNION {arts[i].from : i \in ids}
             given == Parents({i \in call.done : arts[i].name \in {Head(Names(Head(Parts(r)))) : r \in Range(Runners[call.stage])}})
  <1>1. \A i \in call.done : arts[i].from \subseteq 1..Len(arts)
    <2>1. Len(arts) \in Nat
      BY DEF TypesInv, IsSequence
    <2>2. \A i \in 1..Len(arts) : \A j \in 1..(i - 1) : j \in 1..Len(arts)
      BY <2>1
    <2> QED BY <2>2 DEF CallInv, ArtsInv
  <1>2. \A ids \in SUBSET call.done : Parents(ids) \subseteq 1..Len(arts)
    BY <1>1
  <1>3. given \subseteq 1..Len(arts) /\ Parents(call.done) \subseteq 1..Len(arts)
    BY <1>2
  <1>4. StageInputs \in {given, Parents(call.done)}
    BY DEF StageInputs
  <1> HIDE DEF given, Parents
  <1> QED BY <1>3, <1>4

LEMMA CompleteIs == Inv /\ Complete => Inv'
  <1> SUFFICES ASSUME Inv, Complete PROVE Inv'
    OBVIOUS
  <1>0. PICK st : st = call.stage
    OBVIOUS
  <1> DEFINE r == [stages[st] EXCEPT !.status = "completed", !.outputs = call.done, !.inputs = StageInputs]
  <1>1. /\ call.pc = "complete" /\ Goto(call, "verdict") /\ UNCHANGED <<entry, workflow, arts, files, verdicts>>
        /\ CallInv /\ TypesInv /\ ArtsInv /\ ExecInv /\ VerdictsInv
    BY DEF Complete, Step, Inv
  <1>2. st \in StageSet /\ call.exec > 0 /\ call.exec \in Nat /\ call.mine = <<>>
    BY <1>0, <1>1 DEF CallInv, Running, ExecInv
  <1>3. Reached(5) /\ (st = "writing" => WritingInv(5, 5)) /\ Own = call.done
    BY <1>0, <1>1, <1>2, RangeOfNone DEF ExecInv, Step, Own, NoRange
  <1>4. stages' = [stages EXCEPT ![st] = r]
    <2>1. stages[st] \in StageRecord /\ DOMAIN stages = StageSet
      BY <1>1, <1>2 DEF TypesInv
    <2> QED BY <1>0, <1>2, <2>1 DEF Complete, StageRecord
  <1>5. /\ r \in StageRecord /\ r.status = "completed" /\ r.outputs = call.done /\ r.inputs = StageInputs
        /\ call.done \subseteq 1..Len(arts) /\ StageInputs \subseteq 1..Len(arts)
    <2>1. stages[st] \in StageRecord
      BY <1>1, <1>2 DEF TypesInv
    <2>2. StageInputs \subseteq 1..Len(arts) /\ call.done \subseteq 1..Len(arts) /\ Len(arts) \in Nat
      BY <1>1, StageInputsAre DEF CallInv, TypesInv, IsSequence
    <2>3. StageInputs \in SUBSET Nat /\ call.done \in SUBSET Nat
      BY <2>2
    <2> QED BY <2>1, <2>2, <2>3 DEF StageRecord
  <1> HIDE DEF r
  <1>6. stages' \in [StageSet -> StageRecord] /\ stages'[st] = r /\ \A t \in StageSet \ {st} : stages'[t] = stages[t]
    BY <1>1, <1>2, <1>4, <1>5 DEF TypesInv
  <1>7. Moved("verdict")
    BY <1>1, FieldsOfCall, Going DEF CallInv
  <1>8. TypesInv' /\ ArtsInv' /\ VerdictsInv'
    <2>1. \A s \in StageSet : stages'[s].outputs \cup stages'[s].inputs \subseteq 1..Len(arts)
      BY <1>1, <1>5, <1>6 DEF TypesInv
    <2>2. TypesInv'
      BY <1>1, <1>6, <1>7, <2>1 DEF TypesInv, IsSequence, Moved
    <2>3. ArtsInv'
      BY <1>1, <1>7 DEF ArtsInv, Named, Stage, Moved
    <2>4. VerdictsInv'
      BY <1>1 DEF VerdictsInv, HoldsAll, Holds
    <2> QED BY <2>2, <2>3, <2>4
  <1>9. ASSUME NEW s \in StageSet, s # st PROVE StageInv(s)'
    <2>1. EntriesGrow /\ NoEntry(s)
      BY <1>1 DEF EntriesGrow, NoEntry, TypesInv, IsSequence
    <2>2. stages'[s] = stages[s]
      BY <1>6, <1>9
    <2> QED BY <1>0, <1>1, <1>7, <1>9, <2>1, <2>2, OtherStages DEF Step, Moved
  <1>10. StageInv(st)'
    <2>1. CompletedInv(st)'
      <3>1. \A i \in call.done : Mine(i) /\ IsCurrent(i) /\ Stage(i) = st
        BY <1>0, <1>1, <1>3, <1>5 DEF Reached, Mine, IsCurrent, ArtsInv
      <3>2. \A q \in AllParts : Place(q) < 5
        BY DEF AllParts, Place
      <3>3. \A q \in AllParts : StageOf(q) = st => \E i \in call.done : PartOf(arts[i].name) = q
        BY <1>0, <1>3, <3>2 DEF Reached
      <3> QED BY <1>1, <1>5, <1>6, <3>1, <3>3 DEF CompletedInv, IsCurrent, IsLatest, Named, Stage, Mine
    <2>2. ASSUME st = "writing" PROVE BackedInv'
      <3>1. WritingInv(5, 5) /\ ClaimsInv /\ ReportInv
        BY <1>3, <2>2 DEF WritingInv
      <3>2. PICK i \in Own : arts[i].name = "claim_map" /\ call.cited \subseteq arts[i].from
        BY <3>1 DEF WritingInv
      <3>3. call.cited # {} => HoldsAll(arts[i].from)
        BY <3>1, <3>2, MoreHold DEF WritingInv
      <3>4. i \in stages'["writing"].outputs
        BY <1>3, <1>5, <1>6, <2>2, <3>2
      <3> QED BY <1>1, <3>1, <3>2, <3>3, <3>4 DEF BackedInv, ClaimsInv, ReportInv, HoldsAll, Holds
    <2> QED BY <1>5, <1>6, <2>1, <2>2 DEF StageInv
  <1>11. CallInv'
    BY <1>0, <1>1, <1>2, <1>7, FieldsOfCall DEF CallInv, Step, Running, Failing, Ending, Moved
  <1>12. ExecInv'
    BY <1>0, <1>2, <1>5, <1>6, <1>7 DEF ExecInv, Step, Running, Failing, Moved
  <1> QED BY <1>8, <1>9, <1>10, <1>11, <1>12 DEF Inv

\* An entry that passes names its evidence.
LEMMA EntryIs ==
    ASSUME TypesInv, VerdictsInv, arts' = arts, NEW status, NEW sources, NEW checkpoint,
           verdicts' = Verdict(status, sources, checkpoint),
           status \in {"pass", "warning"} => sources \subseteq 1..Len(arts) /\ HoldsAll(sources)
    PROVE  /\ EntriesGrow /\ IsSequence(verdicts') /\ Len(verdicts') = Len(verdicts) + 1 /\ VerdictsInv'
           /\ \A s : s # call.stage => NoEntry(s)
           /\ verdicts'[Len(verdicts) + 1] = [stage |-> call.stage, status |-> status, sources |-> sources, checkpoint |-> checkpoint]
  <1> DEFINE e == [stage |-> call.stage, status |-> status, sources |-> sources, checkpoint |-> checkpoint]
  <1>1. IsSequence(verdicts) /\ Len(verdicts) \in Nat /\ verdicts' = Append(verdicts, e)
    BY DEF TypesInv, IsSequence, Verdict
  <1> HIDE DEF e
  <1>2. /\ IsSequence(verdicts') /\ Len(verdicts') = Len(verdicts) + 1 /\ verdicts'[Len(verdicts) + 1] = e
        /\ \A k \in 1..Len(verdicts) : verdicts'[k] = verdicts[k]
    BY <1>1, Appended
  <1>3. \A k \in 1..Len(verdicts') : k \in 1..Len(verdicts) \/ k = Len(verdicts) + 1
    BY <1>1, <1>2
  <1>4. e.stage = call.stage /\ e.status = status /\ e.sources = sources
    BY DEF e
  <1>5. EntriesGrow
    BY <1>1, <1>2 DEF EntriesGrow
  <1>6. \A s : s # call.stage => NoEntry(s)
    BY <1>1, <1>2, <1>3, <1>4 DEF NoEntry
  <1>7. VerdictsInv'
    BY <1>2, <1>3, <1>4 DEF VerdictsInv, HoldsAll, Holds
  <1> QED BY <1>2, <1>5, <1>6, <1>7 DEF e

LEMMA PendingIs == Inv /\ Pending => Inv'
  <1> SUFFICES ASSUME Inv, Pending PROVE Inv'
    OBVIOUS
  <1>1. /\ call.pc = "verdict" /\ Goto(call, "advance") /\ UNCHANGED <<entry, workflow, stages, arts, files>>
        /\ verdicts' = Verdict("pending", {}, 0) /\ CallInv /\ TypesInv /\ ArtsInv /\ ExecInv /\ VerdictsInv
    BY DEF Pending, Step, Inv
  <1>2. Moved("advance") /\ call.mine = <<>> /\ stages[call.stage].status = "completed" /\ call.exec > 0 /\ call.stage \in StageSet
    BY <1>1, FieldsOfCall, Going DEF CallInv, ExecInv, Step, Ending
  <1>3. EntriesGrow /\ IsSequence(verdicts') /\ VerdictsInv' /\ \A s : s # call.stage => NoEntry(s)
    BY <1>1, EntryIs
  <1>4. TypesInv' /\ ArtsInv'
    BY <1>1, <1>2, <1>3 DEF TypesInv, ArtsInv, Named, Stage, Moved, IsSequence
  <1>5. ASSUME NEW s \in StageSet PROVE StageInv(s)'
    <2>1. CASE s # call.stage
      BY <1>1, <1>2, <1>3, <2>1, OtherStages DEF Step, Moved
    <2>2. CASE s = call.stage
      <3>1. stages[s].status = "completed" /\ CompletedInv(s) /\ (s = "writing" => BackedInv)
        BY <1>2, <2>2 DEF Inv, StageInv
      <3>2. Grows /\ Outside(s)
        BY <1>1 DEF Grows, Outside, TypesInv, IsSequence
      <3>3. CompletedInv(s)' /\ (s = "writing" => BackedInv')
        BY <1>1, <3>1, <3>2, CompletedKept, BackedKept
      <3> QED BY <1>1, <3>1, <3>3 DEF StageInv
    <2> QED BY <2>1, <2>2
  <1>6. CallInv'
    BY <1>1, <1>2, FieldsOfCall DEF CallInv, Step, Running, Failing, Ending, Moved
  <1>7. ExecInv'
    BY <1>2 DEF ExecInv, Step, Running, Failing, Moved
  <1> QED BY <1>3, <1>4, <1>5, <1>6, <1>7 DEF Inv

LEMMA FailVerdictIs == Inv /\ FailVerdict => Inv'
  <1> SUFFICES ASSUME Inv, FailVerdict PROVE Inv'
    OBVIOUS
  <1>0. PICK st : st = call.stage
    OBVIOUS
  <1> DEFINE report == Head(call.mine)
             log == report - 1
             sources == {report} \cup {i \in arts[report].from : arts[i].name = "failure_log"}
  <1>1. /\ call.pc = "failverdict" /\ Goto(call, "end") /\ UNCHANGED <<entry, workflow, stages, arts, files>>
        /\ verdicts' = Verdict("fail", sources, LatestRecovery) /\ CallInv /\ TypesInv /\ ArtsInv /\ ExecInv /\ VerdictsInv
    BY DEF FailVerdict, Step, Inv
  <1>2. /\ Moved("end") /\ stages[st].status = "failed" /\ report = stages[st].report /\ call.exec > 0
        /\ st \in StageSet
    BY <1>0, <1>1, FieldsOfCall, Going, RangeOfOne DEF CallInv, ExecInv, Step, Ending
  <1>3. /\ EntriesGrow /\ IsSequence(verdicts') /\ VerdictsInv' /\ (\A s : s # call.stage => NoEntry(s))
        /\ Len(verdicts') = Len(verdicts) + 1
        /\ verdicts'[Len(verdicts) + 1] = [stage |-> call.stage, status |-> "fail", sources |-> sources, checkpoint |-> LatestRecovery]
    BY <1>1, EntryIs
  <1>4. TypesInv' /\ ArtsInv'
    BY <1>1, <1>2, <1>3 DEF TypesInv, ArtsInv, Named, Stage, Moved, IsSequence
  <1>5. FailedInv(st)
    BY <1>2 DEF Inv, StageInv
  <1>6. sources = {report, log}
    BY <1>2, <1>5 DEF FailedInv
  <1>7. StageInv(st)'
    <2>1. Len(verdicts) + 1 \in 1..Len(verdicts') /\ \A j \in 1..Len(verdicts') : j <= Len(verdicts) + 1
      <3>1. Len(verdicts) \in Nat /\ Len(verdicts') = Len(verdicts) + 1
        BY <1>1, <1>3 DEF TypesInv, IsSequence
      <3> QED BY <3>1
    <2>2. /\ verdicts'[Len(verdicts) + 1].stage = st /\ verdicts'[Len(verdicts) + 1].status = "fail"
          /\ verdicts'[Len(verdicts) + 1].sources = {report, log}
      BY <1>0, <1>3, <1>6
    <2>3. \E k \in 1..Len(verdicts') : /\ LastEntry(st, k)' /\ verdicts'[k].status = "fail"
                                       /\ verdicts'[k].sources = {report, log}
      BY <2>1, <2>2 DEF LastEntry
    <2> HIDE DEF log, sources
    <2>4. stages'[st].report = report /\ log = report - 1
      BY <1>1, <1>2 DEF log
    <2>5. FailedInv(st)'
      BY <1>1, <1>2, <1>5, <2>3, <2>4 DEF FailedInv
    <2> QED BY <1>1, <1>2, <2>5 DEF StageInv
  <1>8. ASSUME NEW s \in StageSet, s # st PROVE StageInv(s)'
    <2>1. Grows /\ Outside(s) /\ NoEntry(s)
      BY <1>0, <1>1, <1>3, <1>8 DEF Grows, Outside, TypesInv, IsSequence
    <2>2. ~call'.crashed => ~call.crashed /\ ~(Step("failverdict") /\ call.stage = s)
      BY <1>0, <1>2, <1>8 DEF Moved
    <2> QED BY <1>1, <1>3, <2>1, <2>2, StageKept DEF Inv
  <1>9. CallInv'
    BY <1>1, <1>2, FieldsOfCall DEF CallInv, Step, Running, Failing, Ending, Moved
  <1>10. ExecInv'
    BY <1>2 DEF ExecInv, Step, Running, Failing, Moved
  <1> QED BY <1>3, <1>4, <1>7, <1>8, <1>9, <1>10 DEF Inv

LEMMA FailMarkIs == Inv /\ FailMark => Inv'
  <1> SUFFICES ASSUME Inv, FailMark PROVE Inv'
    OBVIOUS
  <1>0. PICK st : st = call.stage
    OBVIOUS
  <1> DEFINE report == Len(arts)
             log == report - 1
             r == [stages[st] EXCEPT !.status = "failed", !.report = report]
  <1>1. /\ call.pc = "failmark" /\ Goto(call, "failverdict") /\ UNCHANGED <<entry, arts, files, verdicts>>
        /\ CallInv /\ TypesInv /\ ArtsInv /\ ExecInv /\ VerdictsInv
    BY DEF FailMark, Step, Inv
  <1>2. st \in StageSet /\ call.exec > 0 /\ call.exec \in Nat /\ report \in Nat /\ FailingInv
    BY <1>0, <1>1 DEF CallInv, Failing, ExecInv, TypesInv, IsSequence
  <1>3. /\ log > 0 /\ call.mine = <<report>> /\ Mine(log) /\ arts[log].name = "failure_log"
        /\ Mine(report) /\ arts[report].name = "error_report" /\ arts[report].from = call.done \cup {log}
    BY <1>1, <1>2 DEF FailingInv, Step
  <1>4. Head(call.mine) = report
    BY <1>3, RangeOfOne
  <1>5. r \in StageRecord /\ r.status = "failed" /\ r.report = report /\ r.outputs = stages[st].outputs /\ r.inputs = stages[st].inputs
    <2>1. stages[st] \in StageRecord
      BY <1>1, <1>2 DEF TypesInv
    <2> QED BY <1>2, <2>1 DEF StageRecord
  <1>6. stages' = [stages EXCEPT ![st] = r]
    <2>1. stages[st] \in StageRecord /\ DOMAIN stages = StageSet
      BY <1>1, <1>2 DEF TypesInv
    <2> QED BY <1>0, <1>2, <1>4, <2>1 DEF FailMark, StageRecord
  <1> HIDE DEF r
  <1>7. stages' \in [StageSet -> StageRecord] /\ stages'[st] = r /\ \A t \in StageSet \ {st} : stages'[t] = stages[t]
    BY <1>1, <1>2, <1>5, <1>6 DEF TypesInv
  <1>8. Moved("failverdict")
    BY <1>1, FieldsOfCall, Going DEF CallInv
  <1>9. TypesInv' /\ ArtsInv' /\ VerdictsInv'
    <2>1. workflow' \in WorkflowRecord
      BY <1>0, <1>2 DEF FailMark, WorkflowRecord
    <2>2. \A s \in StageSet : stages'[s].outputs \cup stages'[s].inputs \subseteq 1..Len(arts)
      BY <1>1, <1>5, <1>7 DEF TypesInv
    <2>3. TypesInv'
      BY <1>1, <1>7, <1>8, <2>1, <2>2 DEF TypesInv, IsSequence, Moved
    <2>4. ArtsInv' /\ VerdictsInv'
      BY <1>1, <1>8 DEF ArtsInv, Named, Stage, Moved, VerdictsInv, HoldsAll, Holds
    <2> QED BY <2>3, <2>4
  <1>10. ASSUME NEW s \in StageSet, s # st PROVE StageInv(s)'
    <2>1. EntriesGrow /\ NoEntry(s)
      BY <1>1 DEF EntriesGrow, NoEntry, TypesInv, IsSequence
    <2>2. stages'[s] = stages[s]
      BY <1>7, <1>10
    <2> QED BY <1>0, <1>1, <1>8, <1>10, <2>1, <2>2, OtherStages DEF Step, Moved
  <1>11. StageInv(st)'
    <2>1. report \in 1..Len(arts) /\ log \in 1..Len(arts) /\ arts[report].from \subseteq 1..(report - 1)
      <3>1. report \in 1..Len(arts) /\ log \in 1..Len(arts)
        BY <1>2, <1>3
      <3> QED BY <1>1, <3>1 DEF ArtsInv
    <2> HIDE DEF report
    <2>2. \A i \in call.done : Mine(i) /\ Named(i)
      BY <1>2 DEF FailingInv
    <2>3. "failure_log" \notin FileNames /\ "error_report" \notin FileNames
      BY NamesAre
    <2>4. \A i \in arts[report].from : i \in 1..(report - 1) /\ i < report
      BY <1>2, <2>1
    <2>5. \A i \in arts[report].from : Mine(i) /\ (arts[i].name = "failure_log" => i = log)
      BY <1>3, <2>2, <2>3 DEF Named
    <2>6. \A i \in 1..Len(arts) : arts[i].stage = st => arts[i].content.by <= arts[report].content.by
      BY <1>1, <1>2, <1>3 DEF ArtsInv, Mine
    <2>7. \A i \in 1..(report - 1) : i \in 1..Len(arts)
      BY <1>2, <2>1
    <2>8. \A i \in 1..(report - 1) : arts[i].stage = st /\ arts[i].content.by = arts[report].content.by
                                        /\ arts[i].name \in FirstNames(st) => i \in arts[report].from
      BY <1>0, <1>2, <1>3, <2>7 DEF FailingInv, Mine
    <2>9. stages'[st].report = report /\ stages'[st].status = "failed" /\ log \in arts[report].from
      BY <1>3, <1>5, <1>7
    <2>10. call'.pc = "failverdict" /\ call'.stage = st
      BY <1>0, <1>8 DEF Moved
    <2> HIDE DEF log
    <2>11. log = report - 1
      BY DEF log
    <2>12. FailedInv(st)'
      BY <1>0, <1>1, <1>3, <2>1, <2>4, <2>5, <2>6, <2>8, <2>9, <2>10, <2>11 DEF FailedInv, Mine, Step
    <2> QED BY <2>9, <2>12 DEF StageInv
  <1>12. CallInv'
    BY <1>0, <1>1, <1>2, <1>8, FieldsOfCall DEF CallInv, Step, Running, Failing, Ending, Moved
  <1>13. ExecInv'
    BY <1>0, <1>3, <1>5, <1>7, <1>8 DEF ExecInv, Step, Running, Failing, Moved
  <1> QED BY <1>9, <1>10, <1>11, <1>12, <1>13 DEF Inv

-----------------------------------------------------------------------------
(* The steps that register.                                                *)

\* The artifacts of the stage of the call and of this execution.
IsNew(new) ==
    /\ IsSequence(new)
    /\ \A k \in 1..Len(new) :
           /\ new[k].stage = call.stage /\ new[k].content.by = call.exec
           /\ new[k].name \in FileNames \cup {"failure_log", "error_report"}
           /\ new[k].name \in FileNames => StageOf(PartOf(new[k].name)) = call.stage
           /\ new[k].from \subseteq 1..(Len(arts) + k - 1)

LEMMA Registers ==
    ASSUME Inv, NEW new, IsNew(new), arts' = arts \o new, UNCHANGED <<entry, workflow, stages, files, verdicts>>,
           call'.exec = call.exec, call.exec > 0, call.stage \in StageSet, ~Step("failverdict"),
           ~call'.crashed => ~call.crashed, stages[call.stage].status = "in_progress"
    PROVE  /\ Kept' /\ Len(arts') = Len(arts) + Len(new) /\ Grows
           /\ \A i \in 1..Len(arts') : i > Len(arts) => i - Len(arts) \in 1..Len(new) /\ arts'[i] = new[i - Len(arts)]
           /\ \A k \in 1..Len(new) : arts'[Len(arts) + k] = new[k]
  <1>1. TypesInv /\ ArtsInv /\ VerdictsInv /\ CallInv /\ Len(arts) \in Nat /\ Len(new) \in Nat /\ call.exec \in Nat
    BY DEF Inv, TypesInv, IsSequence, IsNew, CallInv
  <1>2. /\ IsSequence(arts') /\ Len(arts') = Len(arts) + Len(new)
        /\ \A i \in 1..Len(arts) : arts'[i] = arts[i]
        /\ \A i \in 1..Len(arts') : i > Len(arts) => i - Len(arts) \in 1..Len(new) /\ arts'[i] = new[i - Len(arts)]
        /\ \A k \in 1..Len(new) : arts'[Len(arts) + k] = new[k]
    BY <1>1, Joined DEF TypesInv, IsNew
  <1>3. Grows
    BY <1>1, <1>2 DEF Grows
  <1>4. ArtsInv'
    <2> SUFFICES ASSUME NEW i \in 1..Len(arts')
                 PROVE  /\ arts'[i].from \subseteq 1..(i - 1)
                        /\ arts'[i].stage \in StageSet /\ arts'[i].content.by \in 1..call.exec
                        /\ arts'[i].name \in FileNames \cup {"failure_log", "error_report"}
                        /\ arts'[i].name \in FileNames => StageOf(PartOf(arts'[i].name)) = arts'[i].stage
      BY DEF ArtsInv, Named, Stage
    <2>1. CASE i <= Len(arts)
      <3>1. i \in 1..Len(arts) /\ arts'[i] = arts[i]
        BY <1>1, <1>2, <2>1
      <3> QED BY <1>1, <3>1 DEF ArtsInv, Named, Stage
    <2>2. CASE i > Len(arts)
      <3>1. PICK k \in 1..Len(new) : k = i - Len(arts) /\ arts'[i] = new[k]
        BY <1>2, <2>2
      <3>2. Len(arts) + k - 1 = i - 1
        BY <1>1, <3>1
      <3>3. new[k].from \subseteq 1..(i - 1)
        BY <3>1, <3>2 DEF IsNew
      <3>4. call.exec \in 1..call.exec
        BY <1>1
      <3> QED BY <3>1, <3>3, <3>4 DEF IsNew
    <2> QED BY <1>1, <2>1, <2>2
  <1>5. TypesInv'
    <2>1. \A i \in 1..Len(arts) : i \in 1..Len(arts')
      BY <1>1, <1>2
    <2> QED BY <1>1, <1>2, <2>1 DEF TypesInv, IsSequence
  <1>6. VerdictsInv'
    <2>1. \A i \in 1..Len(arts) : i \in 1..Len(arts')
      BY <1>1, <1>2
    <2>2. ASSUME NEW ids \in SUBSET (1..Len(arts)), HoldsAll(ids) PROVE HoldsAll(ids)'
      BY <1>2, <2>2 DEF HoldsAll, Holds
    <2> QED BY <1>1, <2>1, <2>2 DEF VerdictsInv
  <1>7. ASSUME NEW s \in StageSet PROVE StageInv(s)'
    <2>1. CASE s = call.stage
      BY <2>1 DEF StageInv
    <2>2. CASE s # call.stage
      <3>1. \A i \in 1..Len(arts') :
              i > Len(arts) => arts'[i].stage # s /\ (arts'[i].name \in FileNames => StageOf(PartOf(arts'[i].name)) # s)
        BY <1>2, <2>2 DEF IsNew
      <3>2. Outside(s) /\ NoEntry(s) /\ EntriesGrow
        BY <1>1, <3>1 DEF Outside, NoEntry, EntriesGrow, TypesInv, IsSequence
      <3>3. ~call'.crashed => ~call.crashed /\ ~(Step("failverdict") /\ call.stage = s)
        OBVIOUS
      <3> QED BY <1>1, <1>3, <3>2, <3>3, StageKept DEF Inv
    <2> QED BY <2>1, <2>2
  <1> QED BY <1>2, <1>3, <1>4, <1>5, <1>6, <1>7 DEF Kept

LEMMA FirstNamesAre == \A s \in StageSet : FirstNames(s) \subseteq FileNames
  <1> SUFFICES ASSUME NEW s \in StageSet, Len(Runners[s]) = 2 PROVE Range(Names(Runners[s][1])) \subseteq FileNames
    BY DEF FirstNames
  <1>1. Len(<<"proposal">>) = 1 /\ Len(<<"structure">>) = 1 /\ Len(<<"writing">>) = 1
    OBVIOUS
  <1>2. s \in {"literature_review", "computation", "analysis_visualization"}
    BY <1>1, StagesAre, RunnersAre
  <1>3. Runners[s][1] \in AllParts
    BY <1>2, RunnersAre DEF AllParts
  <1> QED BY <1>3, NamesAre

\* An artifact of a failure: the stage, the execution and what it cites.
LEMMA EvidencedIs ==
    ASSUME Inv, call.pc \in {"faillog", "failreport"}, NEW name \in {"failure_log", "error_report"},
           NEW from \in SUBSET (1..Len(arts)), arts' = Evidenced(name, from),
           UNCHANGED <<entry, workflow, stages, files, verdicts>>, call'.exec = call.exec, call'.crashed = call.crashed
    PROVE  LET e == arts'[Len(arts) + 1]
           IN  /\ Kept' /\ Len(arts') = Len(arts) + 1 /\ Grows
               /\ e.name = name /\ e.from = from /\ e.stage = call.stage /\ e.content.by = call.exec
  <1> DEFINE e == [name |-> name, stage |-> call.stage, from |-> from,
                   content |-> [by |-> call.exec, status |-> "failed", from |-> 0]]
  <1>1. TypesInv /\ CallInv /\ ExecInv /\ IsSequence(arts) /\ Len(arts) \in Nat
    BY DEF Inv, TypesInv, IsSequence
  <1>2. /\ call.exec > 0 /\ call.exec \in Nat /\ call.stage \in StageSet /\ stages[call.stage].status = "in_progress"
        /\ ~Step("failverdict")
    BY <1>1 DEF CallInv, ExecInv, Failing, Step
  <1>3. e.name = name /\ e.from = from /\ e.stage = call.stage /\ e.content.by = call.exec
    OBVIOUS
  <1>4. arts' = Append(arts, e)
    BY DEF Evidenced
  <1> HIDE DEF e
  <1>5. arts' = arts \o <<e>>
    <2> DEFINE S == Range(arts) \cup {e}
    <2>1. arts \in Seq(S) /\ e \in S
      <3>1. arts \in Seq(Range(arts))
        BY <1>1, Sequenced
      <3> QED BY <3>1
    <2> HIDE DEF S
    <2> QED BY <1>4, <2>1, AppendIsConcat
  <1>6. IsNew(<<e>>) /\ Len(<<e>>) = 1 /\ <<e>>[1] = e
    <2>1. IsSequence(<<e>>) /\ Len(<<e>>) = 1 /\ <<e>>[1] = e
      BY RangeOfOne
    <2>2. Len(arts) + 1 - 1 = Len(arts)
      BY <1>1
    <2>3. \A k \in 1..Len(<<e>>) : k = 1
      BY <2>1
    <2>4. e.name \notin FileNames
      BY <1>3, NamesAre
    <2> QED BY <1>3, <2>1, <2>2, <2>3, <2>4 DEF IsNew
  <1>7. Kept' /\ Len(arts') = Len(arts) + 1 /\ Grows /\ arts'[Len(arts) + 1] = e
    <2>1. /\ Kept' /\ Len(arts') = Len(arts) + Len(<<e>>) /\ Grows
          /\ \A k \in 1..Len(<<e>>) : arts'[Len(arts) + k] = <<e>>[k]
      BY <1>2, <1>5, <1>6, Registers
    <2> QED BY <1>6, <2>1
  <1> QED BY <1>3, <1>7

LEMMA FailLogIs == Inv /\ FailLog => Inv'
  <1> SUFFICES ASSUME Inv, FailLog PROVE Inv'
    OBVIOUS
  <1>0. PICK log : log = Len(arts) + 1
    OBVIOUS
  <1>1. /\ call.pc = "faillog" /\ arts' = Evidenced("failure_log", call.done)
        /\ Goto([call EXCEPT !.mine = <<log>>], "failreport")
        /\ UNCHANGED <<entry, workflow, stages, files, verdicts>> /\ CallInv /\ ExecInv /\ Len(arts) \in Nat
    BY <1>0 DEF FailLog, Step, Inv, TypesInv, IsSequence
  <1>2. /\ call'.pc = "failreport" /\ call'.stage = call.stage /\ call'.later = call.later /\ call'.exec = call.exec
        /\ call'.crashed = call.crashed /\ call'.cited = call.cited /\ call'.done = call.done /\ call'.mine = <<log>>
        /\ DOMAIN call' = CallFields
    BY <1>1, FieldsOfCall DEF Goto, CallInv, CallFields
  <1>3. /\ Kept' /\ Len(arts') = log /\ Grows
        /\ arts'[log].name = "failure_log" /\ arts'[log].stage = call.stage /\ arts'[log].content.by = call.exec
    <2>1. call.done \in SUBSET (1..Len(arts))
      BY <1>1 DEF CallInv
    <2> QED BY <1>0, <1>1, <1>2, <2>1, EvidencedIs
  <1>4. FailingInv /\ call.stage \in StageSet /\ call.exec > 0
    BY <1>1 DEF ExecInv, CallInv, Failing
  <1>5. \A i \in 1..Len(arts) : arts'[i] = arts[i] /\ i \in 1..Len(arts')
    <2>1. \A i \in 1..Len(arts) : i \in 1..Len(arts')
      BY <1>0, <1>1, <1>3
    <2> QED BY <2>1, <1>3 DEF Grows
  <1>6. \A i \in 1..Len(arts') : i \in 1..Len(arts) \/ i = log
    BY <1>0, <1>1, <1>3
  <1>7. FailingInv'
    <2>1. \A i \in call.done : Mine(i)' /\ Named(i)'
      BY <1>1, <1>2, <1>4, <1>5 DEF FailingInv, Mine, Named, CallInv
    <2>2. "failure_log" \notin FirstNames(call.stage)
      BY <1>4, NamesAre, FirstNamesAre
    <2>3. \A i \in 1..Len(arts') : Mine(i)' /\ arts'[i].name \in FirstNames(call.stage) => i \in call.done
      BY <1>2, <1>3, <1>4, <1>5, <1>6, <2>2 DEF FailingInv, Mine
    <2>4. log > 0
      BY <1>0, <1>1
    <2> QED BY <1>2, <1>3, <2>1, <2>3, <2>4 DEF FailingInv, Mine, Step, FirstNames
  <1>8. CallInv'
    <2>1. Range(<<log>>) = {log} /\ IsSequence(<<log>>)
      BY RangeOfOne
    <2>2. log \in 1..Len(arts')
      BY <1>0, <1>1, <1>3
    <2> QED BY <1>1, <1>2, <1>4, <1>5, <2>1, <2>2, FieldsOfCall DEF CallInv, Step, Running, Failing, Ending
  <1>9. ExecInv'
    BY <1>1, <1>2, <1>7 DEF ExecInv, Step, Running, Failing
  <1> QED BY <1>3, <1>8, <1>9 DEF Inv, Kept

LEMMA FailReportIs == Inv /\ FailReport => Inv'
  <1> SUFFICES ASSUME Inv, FailReport PROVE Inv'
    OBVIOUS
  <1>0. PICK log, report : log = Len(arts) /\ report = Len(arts) + 1
    OBVIOUS
  <1>1. /\ call.pc = "failreport" /\ arts' = Evidenced("error_report", call.done \cup Range(call.mine))
        /\ Goto([call EXCEPT !.mine = <<report>>], "failmark")
        /\ UNCHANGED <<entry, workflow, stages, files, verdicts>> /\ CallInv /\ ExecInv /\ Len(arts) \in Nat
    BY <1>0 DEF FailReport, Step, Inv, TypesInv, IsSequence
  <1>2. /\ call'.pc = "failmark" /\ call'.stage = call.stage /\ call'.later = call.later /\ call'.exec = call.exec
        /\ call'.crashed = call.crashed /\ call'.cited = call.cited /\ call'.done = call.done /\ call'.mine = <<report>>
        /\ DOMAIN call' = CallFields
    BY <1>1, FieldsOfCall DEF Goto, CallInv, CallFields
  <1>3. /\ FailingInv /\ call.stage \in StageSet /\ call.exec > 0
        /\ log > 0 /\ call.mine = <<log>> /\ Mine(log) /\ arts[log].name = "failure_log"
    BY <1>0, <1>1 DEF ExecInv, CallInv, Failing, FailingInv, Step
  <1>4. call.done \cup Range(call.mine) = call.done \cup {log}
    BY <1>3, RangeOfOne
  <1>5. /\ Kept' /\ Len(arts') = report /\ Grows
        /\ arts'[report].name = "error_report" /\ arts'[report].stage = call.stage /\ arts'[report].content.by = call.exec
        /\ arts'[report].from = call.done \cup {log}
    <2>1. call.done \cup Range(call.mine) \in SUBSET (1..Len(arts))
      BY <1>1 DEF CallInv
    <2> QED BY <1>0, <1>1, <1>2, <1>4, <2>1, EvidencedIs
  <1>6. \A i \in 1..Len(arts) : arts'[i] = arts[i] /\ i \in 1..Len(arts')
    <2>1. \A i \in 1..Len(arts) : i \in 1..Len(arts')
      BY <1>0, <1>1, <1>5
    <2> QED BY <2>1, <1>5 DEF Grows
  <1>7. \A i \in 1..Len(arts') : i \in 1..Len(arts) \/ i = report
    BY <1>0, <1>1, <1>5
  <1>8. FailingInv'
    <2>1. \A i \in call.done : Mine(i)' /\ Named(i)'
      BY <1>1, <1>2, <1>3, <1>6 DEF FailingInv, Mine, Named, CallInv
    <2>2. "error_report" \notin FirstNames(call.stage)
      BY <1>3, NamesAre, FirstNamesAre
    <2>3. \A i \in 1..Len(arts') : Mine(i)' /\ arts'[i].name \in FirstNames(call.stage) => i \in call.done
      BY <1>2, <1>3, <1>5, <1>6, <1>7, <2>2 DEF FailingInv, Mine
    <2>4. log = Len(arts') - 1 /\ log \in 1..Len(arts)
      BY <1>0, <1>1, <1>3, <1>5
    <2>5. arts'[log] = arts[log]
      BY <1>6, <2>4
    <2> QED BY <1>2, <1>3, <1>5, <2>1, <2>3, <2>4, <2>5 DEF FailingInv, Mine, Step, FirstNames
  <1>9. CallInv'
    <2>1. Range(<<report>>) = {report} /\ IsSequence(<<report>>)
      BY RangeOfOne
    <2>2. report \in 1..Len(arts')
      BY <1>0, <1>1, <1>5
    <2> QED BY <1>1, <1>2, <1>3, <1>6, <2>1, <2>2, FieldsOfCall DEF CallInv, Step, Running, Failing, Ending
  <1>10. ExecInv'
    BY <1>1, <1>2, <1>8 DEF ExecInv, Step, Running, Failing
  <1> QED BY <1>5, <1>9, <1>10 DEF Inv, Kept

-----------------------------------------------------------------------------
(* Writing and registering a part.                                         *)

LEMMA NamesInOrder ==
    ASSUME NEW p \in AllParts, NEW names, names = Names(p) \/ (p = "structure" /\ names = <<"structure_manifest">>)
    PROVE  /\ IsSequence(names) /\ Len(names) \in 1..3
           /\ \A i, j \in 1..Len(names) : names[i] = names[j] => i = j
           /\ \A i \in 1..Len(names) : names[i] \in Range(Names(p))
           /\ Range(names) \subseteq Range(Names(p))
  <1>1. CASE Len(names) = 1 /\ names = <<names[1]>> /\ names[1] \in Range(Names(p))
    <2>1. IsSequence(names) /\ Range(names) = {names[1]}
      BY <1>1, RangeOfOne
    <2> QED BY <1>1, <2>1
  <1>2. CASE names = <<"review_summary", "gap_analysis">> /\ p = "review"
    BY <1>2, NamesOfParts DEF IsSequence, Range
  <1>3. CASE names = <<"proposal", "parameter_table", "research_questions">> /\ p = "proposal"
    BY <1>3, NamesOfParts DEF IsSequence, Range
  <1>4. CASE names = <<"structure_manifest", "structure">> /\ p = "structure"
    BY <1>4, NamesOfParts DEF IsSequence, Range
  <1>5. CASE names = <<"methods", "claim_map">> /\ p = "claims"
    BY <1>5, NamesOfParts DEF IsSequence, Range
  <1>6. CASE p \notin {"review", "proposal", "structure", "claims"} \/ names = <<"structure_manifest">>
    <2>1. \E n \in Range(Names(p)) : names = <<n>>
      <3>1. CASE names = <<"structure_manifest">>
        BY <3>1, NamesOfParts DEF Names, AllParts
      <3>2. CASE names # <<"structure_manifest">>
        BY <1>6, <3>2, NamesOfParts DEF Names, AllParts
      <3> QED BY <3>1, <3>2
    <2>2. PICK n \in Range(Names(p)) : names = <<n>>
      BY <2>1
    <2>3. Len(names) = 1 /\ names[1] = n
      BY <2>2
    <2> QED BY <1>1, <2>2, <2>3
  <1> QED BY <1>2, <1>3, <1>4, <1>5, <1>6 DEF Names

LEMMA MadeIs ==
    ASSUME NEW p \in AllParts, NEW status
    PROVE  /\ IsSequence(Made(p, status)) /\ Len(Made(p, status)) \in 1..3
           /\ \A i, j \in 1..Len(Made(p, status)) : Made(p, status)[i] = Made(p, status)[j] => i = j
           /\ \A i \in 1..Len(Made(p, status)) : Made(p, status)[i] \in Range(Names(p))
           /\ Range(Made(p, status)) \subseteq Range(Names(p))
  <1>1. Made(p, status) = Names(p) \/ (p = "structure" /\ Made(p, status) = <<"structure_manifest">>)
    BY DEF Made
  <1> HIDE DEF Made
  <1> QED BY <1>1, NamesInOrder

\* Two parts of a stage have two places.
LEMMA Places ==
    ASSUME NEW p \in AllParts, NEW q \in AllParts, StageOf(p) = StageOf(q)
    PROVE  /\ Place(p) = Place(q) => p = q
           /\ p \in LastParts => Place(q) <= Place(p)
           /\ Place(p) \in 1..4
  BY DEF AllParts, StageOf, Place, LastParts

\* What a verification does not fail has evidence.
LEMMA VerdictsAre ==
    ASSUME TypesInv, CallInv, Reached(4), WritingInv(4, 3), NEW status \in Verdicts, status # "fail"
    PROVE  call.cited # {}
  <1>1. SUFFICES ASSUME call.cited = {} PROVE status = "fail"
    OBVIOUS
  <1>2. PICK m \in Own : arts[m].name = "methods" /\ arts[m].from = call.cited
    BY DEF WritingInv
  <1>3. m \in 1..Len(arts) /\ IsLatest(m) /\ Len(arts) \in Nat /\ IsSequence(arts)
    BY DEF CallInv, Own, Reached, IsCurrent, TypesInv, IsSequence
  <1>4. Latest("methods") = m /\ m # 0
    BY <1>2, <1>3, LatestIs
  <1>5. Lineage["methods"] = "orphan" /\ "methods" \in DOMAIN Lineage
    BY <1>1, <1>2, <1>4 DEF Lineage, WritingNames
  <1>6. ArtifactTraceability(Lineage) = "fail"
    BY <1>5 DEF ArtifactTraceability
  <1>7. PICK found : status = Rollup(Checks(Lineage, call.cited \subseteq DOMAIN arts, checkpoints # <<>>, found))
    BY DEF Verdicts
  <1> DEFINE checks == Checks(Lineage, call.cited \subseteq DOMAIN arts, checkpoints # <<>>, found)
  <1>8. checks[1] = "fail" /\ 1 \in DOMAIN checks
    BY <1>6 DEF Checks
  <1> HIDE DEF checks
  <1>9. "fail" \in Range(checks)
    BY <1>8 DEF Range
  <1>10. status = Rollup(checks)
    BY <1>7 DEF checks
  <1> QED BY <1>9, <1>10 DEF Rollup

LEMMA NextIs ==
    ASSUME NEW p \in AllParts, At(p), ~Step("load")
    PROVE  /\ Part = p /\ Runner = RunnerWith(p) /\ call.stage = StageOf(p) /\ call.parts = PartsFrom(p)
           /\ call.runners = RunnersFrom(p)
  BY Goes DEF At, Part, Runner, Step

\* The files of part p are written, and no others.
Written(p, status, content) ==
    /\ content.by = call.exec /\ content.status = status
    /\ DOMAIN files' = FileNames
    /\ \A n \in Range(Made(p, status)) : files'[n] = content
    /\ \A n \in FileNames : PartOf(n) # p => files'[n] = files[n]
    /\ \A n \in FileNames : files'[n] \in {files[n], content}
    /\ p # "verify" => verdicts' = verdicts
    /\ p = "verify" => verdicts' = Verdict(status, SourceIds, 0)
    /\ Goto([call EXCEPT !.mode = status], "register")

LEMMA WriteFiles ==
    ASSUME Inv, Write, NEW p \in AllParts, At(p)
    PROVE  \E status \in Outcomes(p) : \E content : Written(p, status, content)
  <1>1. call.pc = "write"
    BY DEF Write, Step
  <1>2. Part = p
    BY <1>1, NextIs DEF Step
  <1>3. PICK status \in Outcomes(p) :
          LET source == SourceOf(p)
              content == [by |-> call.exec, status |-> status,
                          from |-> IF source = "none" \/ call.cited = {} THEN 0 ELSE files[source].by]
          IN  /\ files' = [n \in FileNames |-> IF n \in Range(Made(p, status)) THEN content ELSE files[n]]
              /\ verdicts' = IF p = "verify" THEN Verdict(status, SourceIds, 0) ELSE verdicts
              /\ Goto([call EXCEPT !.mode = status], "register")
    BY <1>2 DEF Write
  <1> DEFINE content == [by |-> call.exec, status |-> status,
                         from |-> IF SourceOf(p) = "none" \/ call.cited = {} THEN 0 ELSE files[SourceOf(p)].by]
  <1>4. content.by = call.exec /\ content.status = status
    OBVIOUS
  <1>5. files' = [n \in FileNames |-> IF n \in Range(Made(p, status)) THEN content ELSE files[n]]
    BY <1>3
  <1> HIDE DEF content
  <1>6. Range(Made(p, status)) \subseteq FileNames /\ \A n \in Range(Made(p, status)) : PartOf(n) = p
    BY MadeIs, NamesAre
  <1>7. /\ DOMAIN files' = FileNames /\ (\A n \in Range(Made(p, status)) : files'[n] = content)
        /\ (\A n \in FileNames : PartOf(n) # p => files'[n] = files[n])
        /\ \A n \in FileNames : files'[n] \in {files[n], content}
    BY <1>5, <1>6
  <1> QED BY <1>3, <1>4, <1>7 DEF Written

LEMMA WriteIs == Inv /\ Write => Inv'
  <1> SUFFICES ASSUME Inv, Write PROVE Inv'
    OBVIOUS
  <1>1. /\ call.pc = "write" /\ UNCHANGED <<entry, workflow, stages, arts>> /\ CallInv /\ ExecInv /\ TypesInv /\ ArtsInv /\ VerdictsInv
        /\ Len(arts) \in Nat
    BY DEF Write, Step, Inv, TypesInv, IsSequence
  <1>2. PICK p \in AllParts : Standing(p)
    BY <1>1 DEF ExecInv
  <1>3. /\ At(p) /\ Part = p /\ Runner = RunnerWith(p) /\ call.stage = StageOf(p) /\ call.exec > 0 /\ call.exec \in Nat
        /\ call.stage \in StageSet /\ stages[call.stage].status = "in_progress"
    BY <1>1, <1>2, NextIs DEF Standing, Step, CallInv, ExecInv, Running
  <1>0. PICK status \in Outcomes(p) : \E content : Written(p, status, content)
    BY <1>3, WriteFiles
  <1>4. PICK content :
              /\ content.by = call.exec /\ content.status = status
              /\ DOMAIN files' = FileNames
              /\ \A n \in Range(Made(p, status)) : files'[n] = content
              /\ \A n \in FileNames : PartOf(n) # p => files'[n] = files[n]
              /\ \A n \in FileNames : files'[n] \in {files[n], content}
              /\ p # "verify" => verdicts' = verdicts
              /\ p = "verify" => verdicts' = Verdict(status, SourceIds, 0)
              /\ Goto([call EXCEPT !.mode = status], "register")
    BY <1>0 DEF Written
  <1>5. /\ Moved("register") /\ call'.mode = status
    BY <1>1, <1>4, FieldsOfCall DEF Goto, Moved, CallInv, CallFields
  <1>6. /\ {"analysis_report", "claim_map", "verification_report"} \subseteq FileNames /\ PartOf("analysis_report") = "analysis"
        /\ PartOf("claim_map") = "claims" /\ PartOf("verification_report") = "verify"
        /\ "claim_map" \in Range(Names("claims")) /\ "verification_report" \in Range(Names("verify"))
        /\ "analysis_report" \in Range(Names("analysis"))
    BY NamesAre, NamesOfParts DEF AllParts, PartOf
  <1>7. p \notin {"package", "handoff", "verify"} => status \in RunnerOf(RunnerWith(p)).says
    BY <1>3 DEF Outcomes
  <1>8. files'["analysis_report"].status \in {"none"} \cup AnalysisStates
    <2>1. CASE p # "analysis"
      BY <1>1, <1>4, <1>6, <2>1 DEF TypesInv
    <2>2. CASE p = "analysis"
      <3>1. RunnerWith(p) = "analysis"
        BY <2>2 DEF RunnerWith, StageOf
      <3>2. status \in AnalysisStates
        BY <1>7, <2>2, <3>1 DEF RunnerOf, AnalysisRunner
      <3>3. files'["analysis_report"] \in {files["analysis_report"], content}
        BY <1>4, <1>6
      <3> QED BY <1>1, <1>4, <3>2, <3>3 DEF TypesInv
    <2> QED BY <2>1, <2>2
  <1>9. \A n \in FileNames : files'[n].by \in 0..call.exec
    <2>1. call.exec \in 0..call.exec
      BY <1>3
    <2> QED BY <1>1, <1>4, <2>1 DEF TypesInv
  <1>10. p = "verify" => Reached(4) /\ WritingInv(4, 3)
    <2>1. p = "verify" => Place(p) = 4 /\ RunnerWith(p) = "writing" /\ Place(p) - 1 = 3
      BY DEF Place, RunnerWith, StageOf
    <2> QED BY <1>1, <1>2, <2>1 DEF Standing, Step
  <1>11. ASSUME p = "verify", status # "fail" PROVE call.cited # {} /\ SourceIds = call.cited /\ HoldsAll(call.cited)
    <2>1. status \in Verdicts
      BY <1>11 DEF Outcomes
    <2>2. call.cited # {}
      BY <1>1, <1>10, <1>11, <2>1, VerdictsAre
    <2>3. HoldsAll(call.cited)
      BY <1>10, <1>11, <2>2 DEF WritingInv
    <2> QED BY <2>2, <2>3 DEF SourceIds
  <1>12. /\ EntriesGrow /\ IsSequence(verdicts') /\ VerdictsInv' /\ \A s : s # call.stage => NoEntry(s)
    <2>1. CASE p # "verify"
      BY <1>1, <1>4, <2>1 DEF EntriesGrow, IsSequence, TypesInv, VerdictsInv, HoldsAll, Holds, NoEntry
    <2>2. CASE p = "verify"
      <3>1. status \in {"pass", "warning"} => SourceIds \subseteq 1..Len(arts) /\ HoldsAll(SourceIds)
        BY <1>1, <1>11, <2>2 DEF CallInv
      <3> QED BY <1>1, <1>4, <2>2, <3>1, EntryIs
    <2> QED BY <2>1, <2>2
  <1>13. TypesInv' /\ ArtsInv'
    <2>1. TypesInv'
      BY <1>1, <1>4, <1>5, <1>8, <1>9, <1>12 DEF TypesInv, IsSequence, Moved
    <2>2. ArtsInv'
      BY <1>1, <1>5 DEF ArtsInv, Named, Stage, Moved
    <2> QED BY <2>1, <2>2
  <1>14. ASSUME NEW s \in StageSet PROVE StageInv(s)'
    <2>1. CASE s = call.stage
      BY <1>1, <1>3, <2>1 DEF StageInv
    <2>2. CASE s # call.stage
      <3>1. Grows
        BY <1>1 DEF Grows, TypesInv, IsSequence
      <3>2. Outside(s)
        BY <1>1, <1>3, <1>4, <2>2 DEF Outside
      <3>3. ~call'.crashed => ~call.crashed /\ ~(Step("failverdict") /\ call.stage = s)
        BY <1>5, <2>2 DEF Moved
      <3> QED BY <1>1, <1>12, <2>2, <3>1, <3>2, <3>3, StageKept DEF Inv
    <2> QED BY <2>1, <2>2
  <1>15. CallInv'
    BY <1>1, <1>3, <1>5, FieldsOfCall DEF CallInv, Step, Running, Failing, Ending, Moved
  <1>16. Standing(p)'
    <2>1. At(p)' /\ Own' = Own
      BY <1>1, <1>3, <1>5 DEF At, Step, Moved, Own
    <2>2. Reached(Place(p))'
      <3>1. \A i \in Own : Mine(i)' /\ IsCurrent(i)' /\ Place(PartOf(arts[i].name)) < Place(p)
        <4>1. Reached(Place(p)) /\ Place(p) \in 1..4
          BY <1>2, Places DEF Standing
        <4>2. \A i \in Own : Mine(i) /\ IsCurrent(i) /\ Place(PartOf(arts[i].name)) < Place(p)
          BY <4>1 DEF Reached
        <4>3. \A i \in Own : PartOf(arts[i].name) # p
          BY <4>1, <4>2
        <4>4. \A i \in Own : files'[arts[i].name] = files[arts[i].name]
          BY <1>4, <4>2, <4>3 DEF IsCurrent, Named
        <4> QED BY <1>1, <1>5, <4>2, <4>4 DEF Mine, IsCurrent, Named, IsLatest, Moved
      <3> QED BY <1>1, <1>2, <1>5, <2>1, <3>1 DEF Standing, Reached, Mine, Moved
    <2>3. ASSUME RunnerWith(p) = "writing" PROVE WritingInv(Place(p), Place(p))'
      <3>1. WritingInv(Place(p), Place(p) - 1) /\ p \in {"claims", "package", "handoff", "verify"} /\ Place(p) \in 1..4
        BY <1>1, <1>2, <2>3, Places DEF Standing, Step, AllParts, RunnerWith, StageOf
      <3>2. call'.cited = call.cited /\ arts' = arts /\ Own' = Own
        BY <1>1, <1>5, <2>1 DEF Moved
      <3>3. ClaimsInv'
        <4>1. CASE p # "claims"
          <5>1. Place(p) - 1 >= 1
            BY <3>1, <4>1 DEF Place
          <5>2. ClaimsInv
            BY <3>1, <5>1 DEF WritingInv
          <5> QED BY <1>4, <1>6, <3>2, <4>1, <5>2 DEF ClaimsInv
        <4>2. CASE p = "claims"
          <5>1. status = IF call.cited = {} THEN ClaimMap(NoAnalysis, NoFigures)
                         ELSE ClaimMap(files["analysis_report"].status, files["figures_manifest"].status)
            BY <1>7, <2>3, <4>2 DEF RunnerOf, WritingRunner
          <5>2. call.cited # {} => status.analysis # NoAnalysis
            BY <1>1, <5>1 DEF ClaimMap, TypesInv, AnalysisStates, NoAnalysis
          <5>3. "claim_map" \in Range(Made(p, status))
            BY <1>6, <4>2 DEF Made
          <5> QED BY <1>4, <3>2, <5>2, <5>3 DEF ClaimsInv
        <4> QED BY <4>1, <4>2
      <3>4. Place(p) >= 4 => ReportInv'
        <4>1. Place(p) >= 4 => p = "verify"
          BY <3>1 DEF Place
        <4>2. ASSUME p = "verify" PROVE ReportInv'
          <5>1. "verification_report" \in Range(Made(p, status))
            BY <1>6, <4>2 DEF Made
          <5> QED BY <1>4, <1>11, <3>2, <4>2, <5>1 DEF ReportInv
        <4> QED BY <4>1, <4>2
      <3> QED BY <3>1, <3>2, <3>3, <3>4 DEF WritingInv, HoldsAll, Holds
    <2>4. \A n \in Range(Made(p, call'.mode)) : files'[n].by = call'.exec
      BY <1>4, <1>5 DEF Moved
    <2>5. RunnerWith(p) # "writing" => call'.mine = <<>>
      BY <1>2, <1>5 DEF Standing, Moved
    <2> QED BY <1>5, <2>1, <2>2, <2>3, <2>4, <2>5 DEF Standing, Step, Moved, Made
  <1>17. ExecInv'
    BY <1>1, <1>3, <1>5, <1>16 DEF ExecInv, Step, Running, Failing, Moved
  <1> QED BY <1>12, <1>13, <1>14, <1>15, <1>17 DEF Inv

LEMMA Prefix ==
    ASSUME NEW s, IsSequence(s), NEW k \in 0..Len(s)
    PROVE  IsSequence(SubSeq(s, 1, k)) /\ Len(SubSeq(s, 1, k)) = k /\ \A i \in 1..k : SubSeq(s, 1, k)[i] = s[i]
  <1>1. s \in Seq(Range(s)) /\ Len(s) \in Nat
    BY Sequenced DEF IsSequence
  <1>2. /\ SubSeq(s, 1, k) \in Seq(Range(s)) /\ Len(SubSeq(s, 1, k)) = k
        /\ \A i \in 1..k : SubSeq(s, 1, k)[i] = s[i]
    BY <1>1, SubSeqProperties
  <1> QED BY <1>1, <1>2, LenProperties DEF IsSequence

\* The artifacts of part p: its files, each once.
LEMMA RecordsAre ==
    ASSUME Inv, Step("register"), NEW p \in AllParts, Standing(p), NEW names, names = Made(p, call.mode)
    PROVE  /\ IsNew(Records(names)) /\ Len(Records(names)) = Len(names)
           /\ \A k \in 1..Len(names) : /\ Records(names)[k].name = names[k]
                                       /\ Records(names)[k].content = files[names[k]]
           /\ p = "claims" => /\ Records(names)[1].from = call.cited \cup Range(call.mine)
                              /\ \A k \in 1..Len(names) : call.cited \subseteq Records(names)[k].from
  <1> DEFINE new == Records(names)
             Before(k) == (Len(arts) + 1)..(Len(arts) + k - 1)
             cited == call.cited \cup Range(call.mine)
  <1>1. /\ TypesInv /\ CallInv /\ Len(arts) \in Nat /\ Part = p /\ call.stage = StageOf(p)
    BY NextIs DEF Inv, TypesInv, IsSequence, Standing, Step
  <1>2. /\ IsSequence(names) /\ Len(names) \in 1..3 /\ \A i \in 1..Len(names) : names[i] \in Range(Names(p))
    BY MadeIs
  <1>3. DOMAIN names = 1..Len(names) /\ \A i \in 1..Len(names) : names[i] \in Range(names)
    BY <1>2, Sequenced DEF Range
  <1>4. new = [k \in 1..Len(names) |->
                  [name |-> names[k], stage |-> call.stage, content |-> files[names[k]],
                   from |-> CASE p \in {"proposal", "structure"} /\ k > 1 -> Before(k)
                              [] p = "claims" -> cited \cup Before(k)
                              [] OTHER -> cited]]
    BY <1>1, <1>3 DEF Records
  <1>5. \A k \in 1..Len(names) :
           /\ new[k].name = names[k] /\ new[k].stage = call.stage /\ new[k].content = files[names[k]]
           /\ new[k].from \subseteq cited \cup Before(k)
           /\ p = "claims" => new[k].from = cited \cup Before(k)
    BY <1>4
  <1>6. IsSequence(new) /\ Len(new) = Len(names)
    <2>1. new = [k \in 1..Len(names) |-> new[k]] /\ Len(names) \in Nat
      BY <1>2, <1>4
    <2> HIDE DEF new
    <2> QED BY <2>1, SequenceIs
  <1> HIDE DEF new
  <1>7. cited \subseteq 1..Len(arts)
    BY <1>1 DEF CallInv
  <1> HIDE DEF cited
  <1>8. \A k \in 1..Len(names) : cited \cup Before(k) \subseteq 1..(Len(arts) + k - 1)
    <2> SUFFICES ASSUME NEW k \in 1..Len(names), NEW x \in cited \cup Before(k) PROVE x \in 1..(Len(arts) + k - 1)
      OBVIOUS
    <2>1. k \in Nat /\ k >= 1
      BY <1>2
    <2> QED BY <1>1, <1>7, <2>1
  <1>9. Before(1) = {}
    BY <1>1
  <1> HIDE DEF Before
  <1>10. IsNew(new)
    <2>1. \A n \in Range(Names(p)) : n \in FileNames /\ PartOf(n) = p
      BY NamesAre
    <2>2. \A k \in 1..Len(names) : new[k].content.by = call.exec
      BY <1>3, <1>5 DEF Standing
    <2> QED BY <1>1, <1>2, <1>5, <1>6, <1>8, <2>1, <2>2 DEF IsNew
  <1>11. p = "claims" => /\ new[1].from = cited /\ \A k \in 1..Len(names) : call.cited \subseteq new[k].from
    <2>1. 1 \in 1..Len(names) /\ call.cited \subseteq cited
      BY <1>2 DEF cited
    <2>2. ASSUME p = "claims" PROVE new[1].from = cited
      BY <1>5, <1>9, <2>1, <2>2
    <2>3. ASSUME p = "claims", NEW k \in 1..Len(names) PROVE call.cited \subseteq new[k].from
      <3>1. new[k].from = cited \cup Before(k)
        BY <1>5, <2>3
      <3> QED BY <2>1, <3>1
    <2> QED BY <2>2, <2>3
  <1> QED BY <1>5, <1>6, <1>10, <1>11 DEF new, cited

\* How the call goes on from part p.
Onward(p) ==
    \/ /\ call'.pc = "write" /\ p \notin LastParts /\ StageOf(p) = "writing"
       /\ call'.parts = PartsFrom(NextPart(p)) /\ call'.runners = RunnersFrom(NextPart(p))
    \/ /\ call'.pc = "load" /\ p \notin LastParts /\ StageOf(p) # "writing"
       /\ call'.runners = RunnersFrom(NextPart(p)) /\ call'.mine = <<>>
    \/ call'.pc = "complete" /\ p \in LastParts /\ call'.mine = <<>>

LEMMA RegisterCall ==
    ASSUME CallInv, TypesInv, Register, NEW p \in AllParts, At(p)
    PROVE  LET n == Len(Made(p, call.mode))
           IN  /\ Onward(p)
               /\ call'.stage = call.stage /\ call'.later = call.later /\ call'.exec = call.exec
               /\ call'.crashed = call.crashed /\ call'.cited = call.cited /\ DOMAIN call' = CallFields
               /\ Own' = Own \cup (Len(arts) + 1)..(Len(arts) + n) /\ IsSequence(call'.mine)
  <1> DEFINE names == Made(p, call.mode)
             n == Len(names)
             ids == NewIds(n)
             mine == call.mine \o ids
             c == [call EXCEPT !.parts = Tail(@), !.mine = @ \o ids]
             d == [c EXCEPT !.done = @ \cup Range(c.mine), !.runners = Tail(@), !.mine = <<>>]
  <1>1. /\ ~Step("load") /\ DOMAIN call = CallFields /\ Len(arts) \in Nat /\ IsSequence(call.mine)
    BY FieldsOfCall DEF Register, Step, CallInv, TypesInv, IsSequence
  <1>2. /\ Part = p /\ call.parts = PartsFrom(p) /\ call.runners = RunnersFrom(p)
    BY <1>1, NextIs
  <1>3. n \in Nat
    <2>1. n \in 1..3
      BY MadeIs
    <2> QED BY <2>1
  <1>4. IF c.parts = <<>> THEN AfterRunner(c) ELSE Goto(c, "write")
    BY <1>2 DEF Register
  <1> HIDE DEF n
  <1>5. IsSequence(ids) /\ Range(ids) = (Len(arts) + 1)..(Len(arts) + n)
    <2>1. ids = [k \in 1..n |-> Len(arts) + k]
      BY DEF NewIds
    <2> HIDE DEF ids
    <2>2. IsSequence(ids) /\ Len(ids) = n /\ DOMAIN ids = 1..n
      <3>1. ids = [k \in 1..n |-> ids[k]]
        BY <2>1
      <3> QED BY <1>3, <2>1, <3>1, SequenceIs
    <2>3. \A x \in (Len(arts) + 1)..(Len(arts) + n) : x - Len(arts) \in 1..n /\ x = ids[x - Len(arts)]
      BY <1>1, <1>3, <2>1
    <2>4. \A k \in 1..n : ids[k] \in (Len(arts) + 1)..(Len(arts) + n)
      BY <1>1, <1>3, <2>1
    <2> QED BY <2>2, <2>3, <2>4 DEF Range
  <1> HIDE DEF ids
  <1>6. IsSequence(mine) /\ Range(mine) = Range(call.mine) \cup Range(ids)
    BY <1>1, <1>5, Joined
  <1> HIDE DEF mine
  <1>7. /\ c.parts = Tail(call.parts) /\ c.mine = mine /\ c.done = call.done /\ c.runners = call.runners
        /\ c.stage = call.stage /\ c.later = call.later /\ c.exec = call.exec /\ c.crashed = call.crashed
        /\ c.cited = call.cited /\ DOMAIN c = CallFields
    BY <1>1 DEF CallFields, mine
  <1> HIDE DEF c
  <1>8. /\ d.done = call.done \cup Range(mine) /\ d.runners = Tail(call.runners) /\ d.mine = <<>>
        /\ d.stage = call.stage /\ d.later = call.later /\ d.exec = call.exec /\ d.crashed = call.crashed
        /\ d.cited = call.cited /\ DOMAIN d = CallFields
    BY <1>7 DEF CallFields
  <1>9. CASE c.parts # <<>>
    <2>1. Goto(c, "write")
      BY <1>4, <1>9
    <2>2. /\ call'.pc = "write" /\ call'.parts = Tail(call.parts) /\ call'.mine = mine /\ call'.done = call.done
          /\ call'.runners = call.runners /\ call'.stage = call.stage /\ call'.later = call.later
          /\ call'.exec = call.exec /\ call'.crashed = call.crashed /\ call'.cited = call.cited /\ DOMAIN call' = CallFields
      BY <1>7, <2>1 DEF Goto, CallFields
    <2>3. p \notin LastParts /\ StageOf(p) = "writing"
      BY <1>2, <1>7, <1>9, Goes
    <2>4. Own' = Own \cup Range(ids)
      BY <1>6, <2>2 DEF Own
    <2>5. Onward(p)
      BY <1>2, <2>2, <2>3, Goes DEF Onward
    <2> QED BY <1>5, <1>6, <2>2, <2>4, <2>5 DEF n
  <1>10. CASE c.parts = <<>>
    <2>1. Goto(d, IF d.runners = <<>> THEN "complete" ELSE "load")
      BY <1>4, <1>10 DEF AfterRunner
    <2> HIDE DEF d
    <2>2. /\ call'.pc = (IF Tail(call.runners) = <<>> THEN "complete" ELSE "load")
          /\ call'.mine = <<>> /\ call'.done = call.done \cup Range(mine)
          /\ call'.runners = Tail(call.runners) /\ call'.stage = call.stage /\ call'.later = call.later
          /\ call'.exec = call.exec /\ call'.crashed = call.crashed /\ call'.cited = call.cited /\ DOMAIN call' = CallFields
      BY <1>8, <2>1 DEF Goto, CallFields
    <2>3. p \notin LastParts => StageOf(p) # "writing"
      BY <1>2, <1>7, <1>10, Goes
    <2>4. Own' = Own \cup Range(ids)
      BY <1>6, <2>2, RangeOfNone DEF Own, NoRange
    <2>5. Onward(p)
      BY <1>2, <2>2, <2>3, Goes DEF Onward
    <2> QED BY <1>5, <2>2, <2>4, <2>5, RangeOfNone DEF n
  <1> QED BY <1>9, <1>10

\* What part p registers is current, and it is of every part up to p.
LEMMA ReachedNext ==
    ASSUME Inv, NEW p \in AllParts, Standing(p), Step("register"), NEW n \in 1..3,
           call'.stage = call.stage, call'.exec = call.exec, files' = files, Grows, Len(arts') = Len(arts) + n,
           Own' = Own \cup (Len(arts) + 1)..(Len(arts) + n),
           NEW names, names = Made(p, call.mode), Len(names) = n,
           \A k \in 1..n : /\ arts'[Len(arts) + k].name = names[k] /\ arts'[Len(arts) + k].content = files[names[k]]
                           /\ arts'[Len(arts) + k].stage = call.stage
    PROVE  Reached(Place(p) + 1)'
  <1> DEFINE len == Len(arts)
             new == (len + 1)..(len + n)
  <1>1. /\ Reached(Place(p)) /\ call.stage = StageOf(p) /\ Place(p) \in 1..4 /\ len \in Nat /\ n \in Nat /\ n >= 1
        /\ CallInv /\ TypesInv
    BY Places DEF Standing, At, Inv, TypesInv, IsSequence
  <1>2. Own \subseteq 1..len
    BY <1>1 DEF CallInv, Own
  <1>3. /\ \A k \in 1..n : names[k] \in Range(Names(p)) /\ names[k] \in Range(names)
        /\ \A k, l \in 1..n : names[k] = names[l] => k = l
    <2>1. /\ IsSequence(names) /\ \A k \in 1..n : names[k] \in Range(Names(p))
          /\ \A k, l \in 1..n : names[k] = names[l] => k = l
      BY MadeIs
    <2>2. \A k \in 1..n : names[k] \in Range(names)
      BY <2>1, Sequenced DEF Range
    <2> QED BY <2>1, <2>2
  <1>4. \A k \in 1..n : /\ names[k] \in FileNames /\ PartOf(names[k]) = p /\ files[names[k]].by = call.exec
    BY <1>1, <1>3, NamesAre DEF Standing
  <1>5. \A i \in 1..(len + n) : i \in 1..len \/ \E k \in 1..n : i = len + k
    <2> SUFFICES ASSUME NEW i \in 1..(len + n) PROVE i \in 1..len \/ \E k \in 1..n : i = len + k
      OBVIOUS
    <2> HIDE DEF len
    <2>1. CASE i <= len
      BY <1>1, <2>1
    <2>2. CASE i > len
      <3>1. i - len \in 1..n /\ i = len + (i - len)
        BY <1>1, <2>2
      <3> QED BY <3>1
    <2> QED BY <1>1, <2>1, <2>2
  <1>6. \A k \in 1..n : len + k \in 1..(len + n) /\ len + k \in new /\ \A i \in 1..len : i < len + k
    BY <1>1
  <1>7. \A i \in new : \E k \in 1..n : i = len + k
    <2>1. \A i \in new : i \in 1..(len + n) /\ i \notin 1..len
      BY <1>1
    <2> QED BY <1>5, <2>1
  <1>8. \A i \in 1..len : arts'[i] = arts[i] /\ i \in 1..(len + n)
    BY <1>1 DEF Grows
  <1>9. Own' = Own \cup new /\ Len(arts') = len + n
    OBVIOUS
  <1> DEFINE at(k) == len + k
  <1>17. \A k \in 1..n : /\ arts'[at(k)].name = names[k] /\ arts'[at(k)].content = files[names[k]]
                         /\ arts'[at(k)].stage = call.stage
    OBVIOUS
  <1>18. \A k \in 1..n : at(k) \in Nat /\ at(k) = len + k
    BY <1>1
  <1>19. /\ \A i \in 1..(len + n) : i \in 1..len \/ \E k \in 1..n : i = at(k)
         /\ \A k \in 1..n : at(k) \in 1..(len + n) /\ at(k) \in new /\ \A i \in 1..len : i < at(k)
         /\ \A i \in new : \E k \in 1..n : i = at(k)
    BY <1>5, <1>6, <1>7
  <1> HIDE DEF new, len, at
  <1>10. \A i \in Own : /\ Mine(i) /\ IsCurrent(i) /\ PartOf(arts[i].name) # p /\ Place(PartOf(arts[i].name)) < Place(p)
                        /\ PartOf(arts[i].name) \in AllParts /\ i \in 1..len
    <2>1. \A i \in Own : Mine(i) /\ IsCurrent(i) /\ Place(PartOf(arts[i].name)) < Place(p)
      BY <1>1 DEF Reached
    <2>2. \A i \in Own : PartOf(arts[i].name) # p
      BY <1>1, <2>1
    <2>3. \A i \in Own : PartOf(arts[i].name) \in AllParts
      BY <2>1, NamesAre DEF IsCurrent, Named
    <2> QED BY <1>2, <2>1, <2>2, <2>3
  <1>11. ASSUME NEW i \in Own PROVE Mine(i)' /\ IsCurrent(i)' /\ Place(PartOf(arts'[i].name)) < Place(p) + 1
    <2>1. i \in 1..len /\ arts'[i] = arts[i] /\ PartOf(arts[i].name) # p /\ PartOf(arts[i].name) \in AllParts
      BY <1>8, <1>10
    <2>2. \A j \in 1..len : arts[j].name = arts[i].name => j <= i
      BY <1>10 DEF IsCurrent, IsLatest, len
    <2>3. ASSUME NEW k \in 1..n PROVE arts'[at(k)].name # arts[i].name
      <3>1. arts'[at(k)].name = names[k]
        BY <1>17
      <3>2. PartOf(names[k]) = p
        BY <1>4
      <3>3. PartOf(arts[i].name) # p
        BY <2>1
      <3> QED BY <3>1, <3>2, <3>3
    <2>4. ASSUME NEW j \in 1..Len(arts'), arts'[j].name = arts'[i].name PROVE j <= i
      <3>1. j \in 1..len
        BY <1>9, <1>19, <2>1, <2>3, <2>4
      <3> QED BY <1>8, <2>1, <2>2, <2>4, <3>1
    <2>5. Place(PartOf(arts[i].name)) \in 1..4 /\ Place(PartOf(arts[i].name)) < Place(p)
      BY <1>10, <2>1, Places
    <2>6. Place(PartOf(arts[i].name)) < Place(p) + 1
      BY <1>1, <2>5
    <2> QED BY <1>10, <2>1, <2>4, <2>6 DEF Mine, IsCurrent, IsLatest, Named
  <1>12. ASSUME NEW k \in 1..n, NEW i, i = at(k)
         PROVE  Mine(i)' /\ IsCurrent(i)' /\ PartOf(arts'[i].name) = p
    <2>1. /\ arts'[i].name = names[k] /\ arts'[i].content = files[names[k]]
          /\ arts'[i].stage = call.stage /\ i \in Nat
      BY <1>12, <1>17, <1>18
    <2>2. \A l \in 1..n : arts'[at(l)].name = names[k] => at(l) = i
      BY <1>3, <1>12, <1>17
    <2>3. \A j \in 1..Len(arts') : arts'[j].name = names[k] => j <= i
      <3> SUFFICES ASSUME NEW j \in 1..(len + n), arts'[j].name = names[k] PROVE j <= i
        BY <1>9
      <3>1. CASE j \in 1..len
        <4>1. j < i /\ j \in Nat
          BY <1>1, <1>12, <1>19, <3>1 DEF len
        <4> QED BY <2>1, <4>1
      <3>2. CASE \E l \in 1..n : j = at(l)
        BY <2>1, <2>2, <3>2
      <3> QED BY <1>19, <3>1, <3>2
    <2>4. Mine(i)'
      BY <1>4, <2>1 DEF Mine
    <2>5. IsCurrent(i)'
      BY <1>4, <2>1, <2>3 DEF IsCurrent, IsLatest, Named
    <2> QED BY <1>4, <2>1, <2>4, <2>5
  <1>13. ASSUME NEW q \in AllParts, StageOf(q) = call.stage, Place(q) < Place(p) + 1
         PROVE  \E i \in Own' : PartOf(arts'[i].name) = q
    <2>1. Place(q) \in 1..4 /\ (Place(p) = Place(q) => p = q)
      BY <1>1, <1>13, Places
    <2>2. CASE Place(q) < Place(p)
      <3>1. PICK i \in Own : PartOf(arts[i].name) = q
        BY <1>1, <1>13, <2>2 DEF Reached
      <3>2. arts'[i] = arts[i] /\ i \in Own'
        BY <1>8, <1>9, <1>10
      <3> QED BY <3>1, <3>2
    <2>3. CASE q = p
      <3>1. 1 \in 1..n
        BY <1>1
      <3>2. at(1) \in Own' /\ PartOf(arts'[at(1)].name) = q
        BY <1>9, <1>12, <1>19, <2>3, <3>1
      <3> QED BY <3>2
    <2>4. Place(q) < Place(p) \/ Place(q) = Place(p)
      BY <1>1, <1>13, <2>1
    <2> QED BY <2>1, <2>2, <2>3, <2>4
  <1>14. ASSUME NEW i \in 1..Len(arts'), Mine(i)' PROVE i \in Own'
    <2>1. CASE i \in 1..len
      <3>1. Mine(i)
        BY <1>8, <1>14, <2>1 DEF Mine
      <3> QED BY <1>1, <1>9, <2>1, <3>1 DEF Reached, len
    <2>2. CASE \E k \in 1..n : i = at(k)
      BY <1>9, <1>19, <2>2
    <2> QED BY <1>9, <1>19, <2>1, <2>2
  <1>15. \A i \in Own' : Mine(i)' /\ IsCurrent(i)' /\ Place(PartOf(arts'[i].name)) < Place(p) + 1
    <2>1. Place(p) < Place(p) + 1
      BY <1>1
    <2>2. ASSUME NEW i \in new PROVE Mine(i)' /\ IsCurrent(i)' /\ Place(PartOf(arts'[i].name)) < Place(p) + 1
      <3>1. PICK k \in 1..n : i = at(k)
        BY <1>19
      <3> QED BY <1>12, <2>1, <3>1
    <2> QED BY <1>9, <1>11, <2>2
  <1>16. \A q \in AllParts : StageOf(q) = call'.stage /\ Place(q) < Place(p) + 1 => \E i \in Own' : PartOf(arts'[i].name) = q
    BY <1>13
  <1> QED BY <1>14, <1>15, <1>16 DEF Reached

\* What writing knows after part p.
LEMMA WritingNext ==
    ASSUME Inv, NEW p \in AllParts, Standing(p), Step("register"), StageOf(p) = "writing",
           call'.cited = call.cited, files' = files, Grows, Own \subseteq Own',
           NEW n \in Nat, \A k \in 1..n : Len(arts) + k \in Own',
           NEW names, names = Made(p, call.mode), Len(names) = n, NEW new,
           \A k \in 1..n : arts'[Len(arts) + k] = new[k] /\ new[k].name = names[k],
           p = "claims" => /\ new[1].from = call.cited \cup Range(call.mine)
                           /\ \A k \in 1..n : call.cited \subseteq new[k].from
    PROVE  WritingInv(Place(p) + 1, Place(p))' /\ (p \in LastParts => WritingInv(5, 5)')
  <1>1. RunnerWith(p) = "writing" /\ p \in {"claims", "package", "handoff", "verify"} /\ Place(p) \in 1..4
    BY Places DEF RunnerWith, AllParts, StageOf
  <1>2. WritingInv(Place(p), Place(p)) /\ CallInv /\ TypesInv /\ ArtsInv
    BY <1>1 DEF Standing, Step, Inv
  <1>3. Own \subseteq 1..Len(arts) /\ call.cited \subseteq 1..Len(arts) /\ \A i \in 1..Len(arts) : arts'[i] = arts[i]
    BY <1>2 DEF CallInv, Own, Grows
  <1>4. call'.cited # {} => HoldsAll(call.cited)'
    BY <1>2, <1>3 DEF WritingInv, HoldsAll, Holds
  <1>5. ClaimsInv'
    BY <1>1, <1>2 DEF WritingInv, ClaimsInv
  <1>6. Place(p) >= 4 => ReportInv'
    BY <1>1, <1>2 DEF WritingInv, ReportInv
  <1>7. /\ \E i \in Own' : arts'[i].name = "methods" /\ arts'[i].from = call.cited
        /\ \E i \in Own' : arts'[i].name = "claim_map" /\ call.cited \subseteq arts'[i].from
    <2>1. CASE p # "claims"
      <3>1. Place(p) > 1
        BY <1>1, <2>1 DEF Place
      <3>2. /\ \E i \in Own : arts[i].name = "methods" /\ arts[i].from = call.cited
            /\ \E i \in Own : arts[i].name = "claim_map" /\ call.cited \subseteq arts[i].from
        BY <1>2, <3>1 DEF WritingInv
      <3> QED BY <1>3, <3>2
    <2>2. CASE p = "claims"
      <3>1. Range(call.mine) = {}
        <4>1. Reached(1)
          BY <2>2 DEF Standing, Place
        <4>2. ASSUME NEW i \in Own PROVE FALSE
          <5>1. PartOf(arts[i].name) \in AllParts /\ Place(PartOf(arts[i].name)) < 1
            BY <4>1, NamesAre DEF Reached, IsCurrent, Named
          <5>2. Place(PartOf(arts[i].name)) \in 1..4
            BY <5>1, Places
          <5> QED BY <5>1, <5>2
        <4> QED BY <4>2 DEF Own
      <3>2. n = 2 /\ names[1] = "methods" /\ names[2] = "claim_map"
        <4>1. names = <<"methods", "claim_map">>
          BY <2>2 DEF Made, Names
        <4> QED BY <4>1
      <3>3. 1 \in 1..n /\ 2 \in 1..n
        BY <3>2
      <3>4. /\ arts'[Len(arts) + 1].name = "methods" /\ arts'[Len(arts) + 1].from = call.cited
            /\ arts'[Len(arts) + 2].name = "claim_map" /\ call.cited \subseteq arts'[Len(arts) + 2].from
        BY <2>2, <3>1, <3>2, <3>3
      <3> QED BY <3>3, <3>4
    <2> QED BY <2>1, <2>2
  <1>8. WritingInv(Place(p) + 1, Place(p))'
    BY <1>4, <1>5, <1>6, <1>7 DEF WritingInv
  <1>9. p \in LastParts => Place(p) >= 4
    BY <1>1 DEF LastParts, Place
  <1> QED BY <1>4, <1>5, <1>6, <1>7, <1>8, <1>9 DEF WritingInv

LEMMA RegisterIs == Inv /\ Register => Inv'
  <1> SUFFICES ASSUME Inv, Register PROVE Inv'
    OBVIOUS
  <1>1. /\ call.pc = "register" /\ UNCHANGED <<entry, workflow, stages, files, verdicts>> /\ CallInv /\ ExecInv /\ TypesInv
        /\ Len(arts) \in Nat
    BY DEF Register, Step, Inv, TypesInv, IsSequence
  <1>2. PICK p \in AllParts : Standing(p)
    BY <1>1 DEF ExecInv
  <1>3. /\ At(p) /\ Part = p /\ call.stage = StageOf(p) /\ call.exec > 0 /\ call.exec \in Nat
        /\ call.stage \in StageSet /\ stages[call.stage].status = "in_progress" /\ Place(p) \in 1..4
    BY <1>1, <1>2, NextIs, Places DEF Standing, Step, CallInv, ExecInv, Running
  <1> DEFINE names == Made(p, call.mode)
             n == Len(names)
             new == Records(names)
  <1>4. n \in 1..3 /\ n \in Nat
    <2>1. n \in 1..3
      BY MadeIs
    <2> QED BY <2>1
  <1>5. /\ IsNew(new) /\ Len(new) = n
        /\ \A k \in 1..n : new[k].name = names[k] /\ new[k].content = files[names[k]]
        /\ p = "claims" => /\ new[1].from = call.cited \cup Range(call.mine)
                           /\ \A k \in 1..n : call.cited \subseteq new[k].from
    BY <1>1, <1>2, RecordsAre DEF Step
  <1>6. arts' = arts \o new
    BY <1>3 DEF Register
  <1>7. /\ Onward(p) /\ call'.stage = call.stage /\ call'.later = call.later /\ call'.exec = call.exec
        /\ call'.crashed = call.crashed /\ call'.cited = call.cited /\ DOMAIN call' = CallFields
        /\ Own' = Own \cup (Len(arts) + 1)..(Len(arts) + n) /\ IsSequence(call'.mine)
    BY <1>1, <1>3, RegisterCall
  <1> HIDE DEF new, n
  <1>8. /\ Kept' /\ Len(arts') = Len(arts) + n /\ Grows
        /\ \A k \in 1..n : arts'[Len(arts) + k] = new[k]
    <2>1. ~Step("failverdict") /\ (~call'.crashed => ~call.crashed)
      BY <1>1, <1>7 DEF Step
    <2> QED BY <1>1, <1>3, <1>5, <1>6, <1>7, <2>1, Registers
  <1>9. \A k \in 1..n : new[k].stage = call.stage
    BY <1>5 DEF IsNew
  <1>10. Reached(Place(p) + 1)'
    BY <1>1, <1>2, <1>4, <1>5, <1>7, <1>8, <1>9, ReachedNext DEF Step, n
  <1>11. \A k \in 1..n : Len(arts) + k \in Own' /\ Own \subseteq Own'
    BY <1>1, <1>4, <1>7
  <1>12. StageOf(p) = "writing" => WritingInv(Place(p) + 1, Place(p))' /\ (p \in LastParts => WritingInv(5, 5)')
    <2>1. Own \subseteq Own' /\ Step("register")
      BY <1>1, <1>7 DEF Step
    <2>2. \A k \in 1..n : arts'[Len(arts) + k] = new[k] /\ new[k].name = names[k]
      BY <1>5, <1>8
    <2>3. Len(names) = n
      BY DEF n
    <2> HIDE DEF names
    <2>4. names = Made(p, call.mode)
      BY DEF names
    <2>5. SUFFICES ASSUME StageOf(p) = "writing" PROVE WritingInv(Place(p) + 1, Place(p))' /\ (p \in LastParts => WritingInv(5, 5)')
      OBVIOUS
    <2>6. \A k \in 1..n : Len(arts) + k \in Own'
      BY <1>11
    <2>7. files' = files
      BY <1>1
    <2>8. call'.cited = call.cited /\ Grows
      BY <1>7, <1>8
    <2>9. p = "claims" => /\ new[1].from = call.cited \cup Range(call.mine)
                          /\ \A k \in 1..n : call.cited \subseteq new[k].from
      BY <1>5
    <2> QED BY <1>2, <1>4, <2>1, <2>2, <2>3, <2>4, <2>5, <2>6, <2>7, <2>8, <2>9, WritingNext
  <1>13. CallInv'
    <2>1. Own \subseteq 1..Len(arts)
      BY <1>1 DEF CallInv, Own
    <2>2. \A i \in 1..Len(arts) : i \in 1..Len(arts')
      BY <1>1, <1>4, <1>8
    <2>3. (Len(arts) + 1)..(Len(arts) + n) \subseteq 1..Len(arts')
      BY <1>1, <1>4, <1>8
    <2>4. Own' \subseteq 1..Len(arts')
      BY <1>7, <2>1, <2>2, <2>3
    <2>5. call'.cited \cup call'.done \subseteq 1..Len(arts') /\ Range(call'.mine) \subseteq 1..Len(arts')
      BY <1>1, <1>7, <2>2, <2>4 DEF CallInv, Own
    <2>6. call'.pc \in Running
      BY <1>7 DEF Onward, Running
    <2> QED BY <1>1, <1>3, <1>7, <2>5, <2>6, FieldsOfCall DEF CallInv
  <1>14. ASSUME p \notin LastParts PROVE Standing(NextPart(p))' /\ call'.pc \in {"write", "load"}
    <2> DEFINE q == NextPart(p)
    <2>1. q \in AllParts /\ StageOf(q) = StageOf(p) /\ Place(q) = Place(p) + 1
      BY <1>14, Goes
    <2>2. RunnerWith(q) = "writing" <=> StageOf(p) = "writing"
      BY <2>1 DEF RunnerWith, AllParts
    <2> HIDE DEF q
    <2>3. CASE call'.pc = "write"
      <3>1. /\ StageOf(p) = "writing" /\ call'.parts = PartsFrom(q) /\ call'.runners = RunnersFrom(q)
        BY <1>7, <1>14, <2>3 DEF Onward, q
      <3>2. At(q)'
        BY <1>3, <1>7, <2>1, <2>3, <3>1 DEF At, Step
      <3>3. Place(q) - 1 = Place(p)
        BY <1>3, <2>1
      <3>4. WritingInv(Place(q), Place(q) - 1)'
        BY <1>12, <2>1, <3>1, <3>3
      <3> QED BY <1>10, <2>1, <2>2, <2>3, <3>1, <3>2, <3>4 DEF Standing, Step, q
    <2>4. CASE call'.pc = "load"
      <3>1. StageOf(p) # "writing" /\ call'.runners = RunnersFrom(q) /\ call'.mine = <<>>
        BY <1>7, <1>14, <2>4 DEF Onward, q
      <3>2. At(q)'
        BY <1>3, <1>7, <2>1, <2>2, <2>4, <3>1 DEF At, Step
      <3> QED BY <1>10, <2>1, <2>2, <2>4, <3>1, <3>2 DEF Standing, Step, q
    <2> QED BY <1>7, <1>14, <2>3, <2>4 DEF Onward
  <1>15. ASSUME p \in LastParts
         PROVE  call'.pc = "complete" /\ call'.mine = <<>> /\ Reached(5)' /\ (StageOf(p) = "writing" => WritingInv(5, 5)')
    <2>1. call'.pc = "complete" /\ call'.mine = <<>>
      BY <1>7, <1>15 DEF Onward
    <2>2. \A q \in AllParts : StageOf(q) = call.stage => Place(q) \in 1..4 /\ Place(q) < Place(p) + 1
      <3> SUFFICES ASSUME NEW q \in AllParts, StageOf(q) = StageOf(p) PROVE Place(q) \in 1..4 /\ Place(q) < Place(p) + 1
        BY <1>3
      <3>1. Place(q) \in 1..4 /\ Place(q) <= Place(p)
        BY <1>15, Places
      <3> QED BY <1>3, <3>1
    <2>3. \A i \in Own' : Place(PartOf(arts'[i].name)) < 5
      <3>1. \A i \in Own' : PartOf(arts'[i].name) \in AllParts
        BY <1>10, NamesAre DEF Reached, IsCurrent, Named
      <3>2. \A q \in AllParts : Place(q) < 5
        BY DEF AllParts, Place
      <3> QED BY <3>1, <3>2
    <2>4. Reached(5)'
      BY <1>7, <1>10, <2>2, <2>3 DEF Reached
    <2> QED BY <1>12, <1>15, <2>1, <2>4
  <1>16. ExecInv'
    <2>1. CASE p \in LastParts
      BY <1>1, <1>3, <1>7, <1>15, <2>1 DEF ExecInv, Step, Running, Failing
    <2>2. CASE p \notin LastParts
      <3>1. NextPart(p) \in AllParts
        BY <2>2, Goes
      <3>2. call'.pc = "load" => call'.mine = <<>>
        BY <1>7, <2>2 DEF Onward
      <3> QED BY <1>1, <1>3, <1>7, <1>14, <2>2, <3>1, <3>2 DEF ExecInv, Step, Running, Failing
    <2> QED BY <2>1, <2>2
  <1> QED BY <1>8, <1>13, <1>16 DEF Inv, Kept

LEMMA CrashIs == Inv /\ Crash => Inv'
  <1> SUFFICES ASSUME Inv, Crash PROVE Inv'
    OBVIOUS
  <1>1. /\ call.pc # "idle" /\ UNCHANGED <<entry, workflow, stages, files, verdicts>> /\ CallInv /\ ExecInv /\ TypesInv
        /\ call' = [Idle EXCEPT !.exec = call.exec, !.crashed = TRUE] /\ call.exec \in Nat
    BY DEF Crash, Step, Inv, CallInv
  <1>2. /\ call'.pc = "idle" /\ call'.later = <<>> /\ call'.exec = call.exec /\ call'.crashed = TRUE
        /\ call'.cited = {} /\ call'.done = {} /\ call'.mine = <<>> /\ DOMAIN call' = CallFields
    BY <1>1, FieldsOfCall DEF Idle, CallFields
  <1>3. Kept' /\ Len(arts') \in Nat
    <2>1. CASE call.pc = "register"
      <3>1. PICK p \in AllParts : Standing(p)
        BY <1>1, <2>1 DEF ExecInv
      <3>2. /\ Part = p /\ call.exec > 0 /\ call.stage \in StageSet /\ stages[call.stage].status = "in_progress"
            /\ ~Step("failverdict") /\ Step("register")
        BY <1>1, <2>1, <3>1, NextIs DEF Standing, Step, CallInv, ExecInv, Running
      <3> DEFINE names == Made(p, call.mode)
                 new == Records(names)
      <3>3. IsNew(new) /\ Len(new) = Len(names)
        BY <2>1, <3>1, RecordsAre DEF Step
      <3>4. PICK k \in 0..2 : k < Len(names) /\ arts' = arts \o SubSeq(new, 1, k)
        BY <2>1, <3>2 DEF Crash, Step
      <3> HIDE DEF new
      <3>5. k \in 0..Len(new) /\ IsSequence(new) /\ k \in Nat
        <4>1. Len(names) \in 1..3
          BY MadeIs
        <4> HIDE DEF names
        <4> QED BY <3>3, <3>4, <4>1 DEF IsNew
      <3>6. /\ IsSequence(SubSeq(new, 1, k)) /\ Len(SubSeq(new, 1, k)) = k
            /\ \A j \in 1..k : SubSeq(new, 1, k)[j] = new[j] /\ j \in 1..Len(new)
        <4>1. \A j \in 1..k : j \in 1..Len(new)
          BY <3>5 DEF IsSequence
        <4> QED BY <3>5, <4>1, Prefix
      <3>7. IsNew(SubSeq(new, 1, k))
        BY <3>3, <3>6 DEF IsNew
      <3> DEFINE some == SubSeq(new, 1, k)
      <3>8. IsNew(some) /\ arts' = arts \o some
        BY <3>4, <3>7
      <3> HIDE DEF some
      <3>9. Kept'
        BY <1>1, <1>2, <3>2, <3>8, Registers
      <3> QED BY <3>9 DEF Kept, TypesInv, IsSequence
    <2>2. CASE call.pc # "register"
      <3>1. arts' = arts
        BY <2>2 DEF Crash, Step
      <3>2. workflow' \in WorkflowRecord /\ call'.exec \in Nat /\ call'.exec >= call.exec
        BY <1>1, <1>2 DEF TypesInv
      <3>3. Kept'
        BY <1>1, <1>2, <3>1, <3>2, LeavesAlone
      <3> QED BY <3>3 DEF Kept, TypesInv, IsSequence
    <2> QED BY <2>1, <2>2
  <1>4. CallInv'
    <2>1. call'.later \in Seq(StageSet) /\ IsSequence(call'.mine) /\ Range(call'.mine) = {}
      BY <1>2, RangeOfNone DEF NoRange
    <2> QED BY <1>1, <1>2, <2>1, FieldsOfCall DEF CallInv, Running, Failing, Ending
  <1>5. ExecInv'
    BY <1>2 DEF ExecInv, Running, Failing, Step
  <1> QED BY <1>3, <1>4, <1>5 DEF Inv, Kept

LEMMA InitIs == Init => Inv
  <1> SUFFICES ASSUME Init PROVE Inv
    OBVIOUS
  <1>1. /\ IsSequence(arts) /\ Len(arts) = 0 /\ IsSequence(verdicts) /\ Len(verdicts) = 0
    BY RangeOfNone DEF Init
  <1>2. /\ call.pc = "idle" /\ call.exec = 0 /\ call.crashed = FALSE /\ call.later = <<>> /\ call.mine = <<>>
        /\ call.cited = {} /\ call.done = {} /\ DOMAIN call = DOMAIN Idle
    BY DEF Init, Idle
  <1>3. TypesInv
    <2>1. workflow \in WorkflowRecord
      BY BoundsAssumption DEF Init, WorkflowRecord
    <2>2. /\ stages \in [StageSet -> StageRecord]
          /\ \A s \in StageSet : stages[s].outputs \cup stages[s].inputs \subseteq 1..Len(arts)
      BY DEF Init, StageRecord
    <2>3. "analysis_report" \in FileNames
      BY NamesAre, NamesOfParts DEF AllParts
    <2>4. /\ DOMAIN files = FileNames /\ \A n \in FileNames : files[n].by \in 0..call.exec
          /\ files["analysis_report"].status = "none"
      BY <1>2, <2>3 DEF Init, NoFile
    <2> QED BY <1>1, <2>1, <2>2, <2>4 DEF Init, TypesInv
  <1>4. CallInv
    <2>1. call.later \in Seq(StageSet) /\ IsSequence(call.mine) /\ Range(call.mine) = {}
      BY <1>2, RangeOfNone DEF NoRange
    <2>2. call.pc \notin Running \cup Failing \cup Ending
      BY <1>2 DEF Running, Failing, Ending
    <2>3. call.cited \cup call.done \subseteq 1..Len(arts) /\ Range(call.mine) \subseteq 1..Len(arts)
      BY <1>2, <2>1
    <2>4. call.exec \in Nat
      BY <1>2
    <2>5. call.crashed \in BOOLEAN
      BY <1>2, Zenon
    <2> QED BY <1>2, <2>1, <2>2, <2>3, <2>4, <2>5 DEF CallInv
  <1>5. ExecInv
    BY <1>2 DEF ExecInv, Running, Failing, Step
  <1>6. ArtsInv /\ VerdictsInv
    BY <1>1 DEF ArtsInv, VerdictsInv
  <1>7. \A s \in StageSet : StageInv(s)
    BY DEF StageInv, Init
  <1> QED BY <1>3, <1>4, <1>5, <1>6, <1>7 DEF Inv

LEMMA Stutters == Inv /\ UNCHANGED vars => Inv'
  <1> SUFFICES ASSUME Inv, UNCHANGED vars PROVE Inv'
    OBVIOUS
  <1>1. UNCHANGED <<entry, workflow, stages, arts, files, verdicts, call>> /\ TypesInv /\ CallInv /\ ArtsInv /\ ExecInv /\ VerdictsInv
    BY DEF vars, Inv
  <1>2. TypesInv' /\ CallInv' /\ ArtsInv' /\ VerdictsInv'
    BY <1>1 DEF TypesInv, IsSequence, CallInv, ArtsInv, Named, Stage, VerdictsInv, HoldsAll, Holds, Step
  <1>3. ExecInv'
    BY <1>1 DEF ExecInv, Step, Standing, At, Reached, Own, Mine, IsCurrent, IsLatest, Named, WritingInv, HoldsAll, Holds,
                ClaimsInv, ReportInv, FailingInv
  <1>4. \A s \in StageSet : StageInv(s)'
    <2> SUFFICES ASSUME NEW s \in StageSet PROVE StageInv(s)'
      OBVIOUS
    <2>1. StageInv(s)
      BY DEF Inv
    <2>2. CompletedInv(s) => CompletedInv(s)'
      BY <1>1 DEF CompletedInv, IsCurrent, IsLatest, Named, Stage
    <2>3. BackedInv => BackedInv'
      BY <1>1 DEF BackedInv, HoldsAll, Holds
    <2>4. FailedInv(s) => FailedInv(s)'
      BY <1>1 DEF FailedInv, LastEntry, Step
    <2> QED BY <1>1, <2>1, <2>2, <2>3, <2>4 DEF StageInv
  <1> QED BY <1>2, <1>3, <1>4 DEF Inv

\* The invariant holds in every state.
THEOREM WorkflowInv == Spec => []Inv
  <1>1. Inv /\ [Next]_vars => Inv'
    <2> SUFFICES ASSUME Inv, [Next]_vars PROVE Inv'
      OBVIOUS
    <2>1. CASE DryRun
      BY <2>1, DryRunIs
    <2>2. CASE CallStage
      BY <2>2, CallStageIs
    <2>3. CASE CallPipeline
      BY <2>3, CallPipelineIs
    <2>4. CASE Begin
      BY <2>4, BeginIs
    <2>5. CASE Load
      BY <2>5, LoadIs
    <2>6. CASE Write
      BY <2>6, WriteIs
    <2>7. CASE Register
      BY <2>7, RegisterIs
    <2>8. CASE Complete
      BY <2>8, CompleteIs
    <2>9. CASE Pending
      BY <2>9, PendingIs
    <2>10. CASE Advance
      BY <2>10, AdvanceIs
    <2>11. CASE Close
      BY <2>11, CloseIs
    <2>12. CASE Return
      BY <2>12, ReturnIs
    <2>13. CASE Unplanned \/ Fail
      BY <2>13, FailIs
    <2>14. CASE FailLog
      BY <2>14, FailLogIs
    <2>15. CASE FailReport
      BY <2>15, FailReportIs
    <2>16. CASE FailMark
      BY <2>16, FailMarkIs
    <2>17. CASE FailVerdict
      BY <2>17, FailVerdictIs
    <2>18. CASE Wait
      BY <2>18, WaitIs
    <2>19. CASE Crash
      BY <2>19, CrashIs
    <2>20. CASE UNCHANGED vars
      BY <2>20, Stutters
    <2> QED
      BY <2>1, <2>2, <2>3, <2>4, <2>5, <2>6, <2>7, <2>8, <2>9, <2>10, <2>11, <2>12, <2>13, <2>14, <2>15, <2>16,
         <2>17, <2>18, <2>19, <2>20 DEF Next, Answer
  <1> QED BY <1>1, InitIs, PTL DEF Spec

-----------------------------------------------------------------------------
(* What the runs check. *)

\* What the JSON files of a project hold has its type: a stage lists artifacts
\* that are registered, and an artifact cites only earlier ones.
THEOREM WorkflowTypeOK == Spec => []TypeOK
  <1>1. Inv => TypeOK
    <2> SUFFICES ASSUME Inv PROVE TypeOK
      OBVIOUS
    <2>1. TypesInv /\ ArtsInv /\ DOMAIN arts = 1..Len(arts)
      BY Sequenced DEF Inv, TypesInv
    <2> QED BY <2>1 DEF TypesInv, ArtsInv, WorkflowRecord, StageRecord, TypeOK
  <1> QED BY <1>1, WorkflowInv, PTL

LEMMA RunnersHaveParts ==
    ASSUME NEW s \in StageSet, NEW r \in Range(Runners[s])
    PROVE  \E q \in AllParts : StageOf(q) = s /\ q \in Range(Parts(r))
  <1>1. CASE s = "writing"
    <2>1. r = "writing"
      BY <1>1, RunnersAre DEF Range
    <2>2. "claims" \in Range(Parts(r)) /\ StageOf("claims") = s /\ "claims" \in AllParts
      BY <1>1, <2>1, PartsOfRunners DEF AllParts, StageOf
    <2> QED BY <2>2
  <1>2. CASE s # "writing"
    <2>1. r \in AllParts /\ StageOf(r) = s /\ r \notin {"claims", "package", "handoff", "verify"}
      BY <1>2, StagesAre, RunnersAre DEF Range, AllParts, StageOf
    <2> QED BY <2>1, PartsOfRunners
  <1> QED BY <1>1, <1>2

\* Whatever was executed, failed or crashed before, and in whatever order: the
\* outputs a completed stage lists in stages.json are the latest artifacts of
\* their names, they are what is on disk, they are of one execution, and every
\* runner of the stage has one among them.
THEOREM WorkflowCompletedIsCurrent == Spec => []CompletedIsCurrent
  <1>1. Inv => CompletedIsCurrent
    <2> SUFFICES ASSUME Inv, NEW s \in StageSet, stages[s].status = "completed"
                 PROVE  LET own == stages[s].outputs
                        IN  /\ \A i \in own : Latest(arts[i].name) = i /\ files[arts[i].name] = arts[i].content
                            /\ Cardinality({arts[i].content.by : i \in own}) = 1
                            /\ \A r \in Range(Runners[s]) : \E i \in own : \E p \in Range(Parts(r)) : arts[i].name \in Range(Names(p))
      BY DEF CompletedIsCurrent
    <2> DEFINE own == stages[s].outputs
    <2>1. CompletedInv(s) /\ TypesInv /\ IsSequence(arts)
      BY DEF Inv, StageInv, TypesInv
    <2>2. own \subseteq 1..Len(arts) /\ \A i \in own : IsCurrent(i)
      BY <2>1 DEF TypesInv, CompletedInv
    <2>3. \A i \in own : Latest(arts[i].name) = i /\ files[arts[i].name] = arts[i].content
      BY <2>1, <2>2, LatestIs DEF IsCurrent
    <2>4. Cardinality({arts[i].content.by : i \in own}) = 1
      <3>1. PICK q \in AllParts : StageOf(q) = s
        BY Begins
      <3>2. PICK i \in own : TRUE
        BY <2>1, <3>1 DEF CompletedInv
      <3>3. \A j \in own : arts[j].content.by = arts[i].content.by
        BY <2>1 DEF CompletedInv
      <3>4. {arts[j].content.by : j \in own} = {arts[i].content.by}
        BY <3>3
      <3> QED BY <3>4, FS_Singleton
    <2>5. ASSUME NEW r \in Range(Runners[s])
          PROVE  \E i \in own : \E p \in Range(Parts(r)) : arts[i].name \in Range(Names(p))
      <3>1. PICK q \in AllParts : StageOf(q) = s /\ q \in Range(Parts(r))
        BY RunnersHaveParts
      <3>2. PICK i \in own : PartOf(arts[i].name) = q
        BY <2>1, <3>1 DEF CompletedInv
      <3>3. arts[i].name \in FileNames
        BY <2>2 DEF IsCurrent, Named
      <3>4. arts[i].name \in Range(Names(q))
        BY <3>2, <3>3, NamesAre
      <3> QED BY <3>1, <3>4
    <2> QED BY <2>3, <2>4, <2>5
  <1> QED BY <1>1, WorkflowInv, PTL

\* A failed stage names an error report of that very execution, which cites the
\* log and all that the runners before the failing one had registered; and once
\* the call is over, unless a process ended, the last entry of verification.json
\* for the stage is that failure.
THEOREM WorkflowFailureIsExplained == Spec => []FailureIsExplained
  <1>1. Inv => FailureIsExplained
    <2> SUFFICES ASSUME Inv, NEW s \in StageSet, stages[s].status = "failed"
                 PROVE  LET report == stages[s].report
                            exec == arts[report].content.by
                            before == {i \in 1..(report - 1) : arts[i].stage = s /\ arts[i].content.by = exec}
                        IN  /\ report # 0 /\ arts[report].name = "error_report"
                            /\ arts[report].from \subseteq before /\ Holds(arts[report].from, "failure_log")
                            /\ \A i \in DOMAIN arts : arts[i].stage = s => arts[i].content.by <= exec
                            /\ Len(Runners[s]) = 2 =>
                                   \A i \in before : arts[i].name \in Range(Names(Runners[s][1])) => i \in arts[report].from
                            /\ Step("idle") /\ ~call.crashed =>
                                   LET last == verdicts[Max({k \in DOMAIN verdicts : verdicts[k].stage = s})]
                                   IN  last.status = "fail" /\ last.sources = {report, Max({i \in before : arts[i].name = "failure_log"})}
      BY DEF FailureIsExplained
    <2> DEFINE report == stages[s].report
               exec == arts[report].content.by
               before == {i \in 1..(report - 1) : arts[i].stage = s /\ arts[i].content.by = exec}
               log == report - 1
    <2>1. /\ FailedInv(s) /\ TypesInv /\ ArtsInv /\ IsSequence(arts) /\ IsSequence(verdicts) /\ Len(arts) \in Nat
          /\ Len(verdicts) \in Nat /\ DOMAIN arts = 1..Len(arts) /\ DOMAIN verdicts = 1..Len(verdicts)
      BY Sequenced DEF Inv, StageInv, TypesInv, IsSequence
    <2>2. /\ report \in 1..Len(arts) /\ arts[report].name = "error_report" /\ log \in arts[report].from
          /\ arts[log].name = "failure_log"
          /\ \A i \in arts[report].from : arts[i].stage = s /\ arts[i].content.by = exec
          /\ \A i \in 1..Len(arts) : arts[i].stage = s => arts[i].content.by <= exec
          /\ \A i \in before : arts[i].name \in FirstNames(s) => i \in arts[report].from
      BY <2>1 DEF FailedInv
    <2>3. ~call.crashed /\ Step("idle") =>
              \E k \in 1..Len(verdicts) : LastEntry(s, k) /\ verdicts[k].status = "fail" /\ verdicts[k].sources = {report, log}
      BY <2>1 DEF FailedInv, Step
    <2>4. arts[report].from \subseteq before /\ report \in Nat /\ report # 0
      BY <2>1, <2>2 DEF ArtsInv
    <2>5. Max({i \in before : arts[i].name = "failure_log"}) = log
      <3> DEFINE logs == {i \in before : arts[i].name = "failure_log"}
      <3>1. log \in logs /\ logs \in SUBSET Nat /\ \A i \in logs : i <= log
        BY <2>2, <2>4
      <3> HIDE DEF logs, log
      <3>2. Max(logs) = log
        BY <3>1, MaxIs
      <3> QED BY <3>2 DEF logs
    <2>6. ASSUME Step("idle"), ~call.crashed
          PROVE  LET last == verdicts[Max({k \in DOMAIN verdicts : verdicts[k].stage = s})]
                 IN  last.status = "fail" /\ last.sources = {report, log}
      <3>1. PICK k \in 1..Len(verdicts) : LastEntry(s, k) /\ verdicts[k].status = "fail" /\ verdicts[k].sources = {report, log}
        BY <2>3, <2>6
      <3> DEFINE its == {j \in DOMAIN verdicts : verdicts[j].stage = s}
      <3>2. k \in its /\ its \in SUBSET Nat /\ \A j \in its : j <= k
        BY <2>1, <3>1 DEF LastEntry
      <3> HIDE DEF its
      <3>3. Max(its) = k
        BY <3>2, MaxIs
      <3> QED BY <3>1, <3>3 DEF its
    <2>7. Len(Runners[s]) = 2 => \A i \in before : arts[i].name \in Range(Names(Runners[s][1])) => i \in arts[report].from
      BY <2>2 DEF FirstNames
    <2>8. Holds(arts[report].from, "failure_log")
      BY <2>2 DEF Holds
    <2>9. \A i \in DOMAIN arts : arts[i].stage = s => arts[i].content.by <= exec
      BY <2>1, <2>2
    <2> HIDE DEF log, before, exec
    <2>10. Step("idle") /\ ~call.crashed =>
              LET last == verdicts[Max({k \in DOMAIN verdicts : verdicts[k].stage = s})]
              IN  last.status = "fail" /\ last.sources = {report, Max({i \in before : arts[i].name = "failure_log"})}
      BY <2>5, <2>6
    <2> USE DEF before, exec
    <2> QED BY <2>2, <2>4, <2>7, <2>8, <2>9, <2>10
  <1> QED BY <1>1, WorkflowInv, PTL

\* No project reaches an entry of verification.json that passes, or a completed
\* writing stage whose verification does not fail, without claims that rest on
\* all the required evidence, and the entry names it.
THEOREM WorkflowVerdictNeedsEvidence == Spec => []VerdictNeedsEvidence
  <1>1. Inv => VerdictNeedsEvidence
    <2> SUFFICES ASSUME Inv PROVE VerdictNeedsEvidence
      OBVIOUS
    <2>1. /\ TypesInv /\ VerdictsInv /\ StageInv("writing") /\ IsSequence(arts) /\ DOMAIN verdicts = 1..Len(verdicts)
      BY StagesAre, Sequenced DEF Inv, TypesInv
    <2>2. \A k \in DOMAIN verdicts : verdicts[k].status \in {"pass", "warning"} =>
              \A n \in RequiredNames : Holds(verdicts[k].sources, n)
      BY <2>1 DEF VerdictsInv, HoldsAll
    <2>3. ASSUME stages["writing"].status = "completed", files["verification_report"].status # "fail"
          PROVE  /\ files["claim_map"].status.analysis # NoAnalysis
                 /\ \A n \in RequiredNames : Holds(arts[Latest("claim_map")].from, n)
      <3>1. BackedInv /\ CompletedInv("writing")
        BY <2>1, <2>3 DEF StageInv
      <3>2. PICK i \in stages["writing"].outputs : arts[i].name = "claim_map" /\ HoldsAll(arts[i].from)
        BY <2>3, <3>1 DEF BackedInv
      <3>3. i \in 1..Len(arts) /\ IsLatest(i)
        BY <2>1, <3>1, <3>2, StagesAre DEF TypesInv, CompletedInv, IsCurrent
      <3>4. Latest("claim_map") = i
        BY <2>1, <3>2, <3>3, LatestIs
      <3> QED BY <2>3, <3>1, <3>2, <3>4 DEF BackedInv, HoldsAll
    <2> QED BY <2>2, <2>3 DEF VerdictNeedsEvidence
  <1> QED BY <1>1, WorkflowInv, PTL

=============================================================================
