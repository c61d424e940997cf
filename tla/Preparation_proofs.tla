------------------------- MODULE Preparation_proofs -------------------------
(***************************************************************************)
(* Proofs about what is prepared before a run: its input files             *)
(* (Calculation), for any number of sessions, structures and requests; and *)
(* the experiment its plan is bound to (RunBinding), for any number of     *)
(* servers, plans and bindings.                                            *)
(***************************************************************************)
EXTENDS RunBinding, Calculation, WellFoundedInduction, TLAPS

-----------------------------------------------------------------------------
(* Types.                                                                  *)

Steps == {"poscar", "species", "look", "stage", "order", "compare", "link", "samefile",
          "unlink", "discard", "incar", "kpoints", "register", "fail"}
Checks == {"existing", "temporary", "other", "final"}

Versions == [version : Nat, poscar : Structures]
Poscars == Structures \cup {Missing}

\* What a generation can resolve its setups to.
Resolved(g) == Setups(g).datasets
SpeciesOf == {Species(p) : p \in Poscars} \cup {<<>>}
DatasetsOf ==
    {ResolveSetups(s, r.setups, SetupTables).datasets : s \in SpeciesOf, r \in Requests} \cup {<<>>}
Potcars == [file : Nat, by : Generators \cup {"user"}, content : UserPotcars \cup DatasetsOf]

Run == [pc : Steps, structure : Versions, request : Requests, species : SpeciesOf,
        expected : DatasetsOf, seen : Poscars, checks : Checks \cup {None},
        temp : Potcars \cup {None}, potcar : BOOLEAN]

\* The type of every variable; a check that is under way has a kind.
DirOK ==
    /\ dir = [POSCAR |-> dir.POSCAR, INCAR |-> dir.INCAR, KPOINTS |-> dir.KPOINTS,
              POTCAR |-> dir.POTCAR, CHGCAR |-> Missing, images |-> 0]
    /\ dir.POSCAR \in Poscars
    /\ dir.POTCAR \in Potcars \cup {Missing}

GenOK ==
    /\ gen \in [Generators -> Run \cup {Idle}]
    /\ \A g \in Generators : gen[g].pc \in {"order", "compare"} => gen[g].checks \in Checks

RestOK ==
    /\ sessions \in {1, 2}
    /\ structure \in Versions \cup {None}
    /\ temps \in SUBSET Nat
    /\ made \in Nat /\ started \in Nat /\ faults \in Nat

CalculationTypeOK == DirOK /\ GenOK /\ RestOK

-----------------------------------------------------------------------------
(* The temporary files.                                                    *)

\* A generation holds its temporary file from Stage on until it has linked it
\* in vain or has discarded it.
Holds(g) ==
    \/ gen[g].pc \in {"link", "samefile", "unlink", "discard"}
    \/ gen[g].pc \in {"order", "compare"} /\ gen[g].checks \in {"temporary", "final"}

\* Files are told apart by their number, and a generation about to unlink
\* POTCAR has found its own file under that name.
FilesApart ==
    /\ dir.POTCAR # Missing => dir.POTCAR.file < made
    /\ \A g \in Generators : Holds(g) =>
          /\ gen[g].temp \in Potcars /\ gen[g].temp.by = g /\ gen[g].temp.file < made
          /\ dir.POTCAR # Missing /\ dir.POTCAR.file = gen[g].temp.file => dir.POTCAR = gen[g].temp
    /\ \A g, h \in Generators : Holds(g) /\ Holds(h) /\ g # h => gen[g].temp.file # gen[h].temp.file
    /\ \A g \in Generators :
          gen[g].pc = "unlink" => dir.POTCAR # Missing /\ dir.POTCAR = gen[g].temp

\* The temporary files are those of the generations that hold one, as long
\* as none was cut off.
TempsHeld ==
    faults = 0 => temps = {gen[g].temp.file : g \in {h \in Generators : Holds(h)}}

Inv == CalculationTypeOK /\ FilesApart /\ TempsHeld

-----------------------------------------------------------------------------
(* No step takes a variable out of its type.                               *)

\* A generation that runs has a run.
LEMMA Runs ==
    ASSUME GenOK, NEW g \in Generators, gen[g].pc # "idle"
    PROVE  gen[g] \in Run
  BY DEF GenOK, Idle

\* The run of one generation is replaced, and the others are left alone.
LEMMA SetRun ==
    ASSUME GenOK, NEW g \in Generators, NEW r \in Run,
           r.pc \in {"order", "compare"} => r.checks \in Checks,
           gen' = [gen EXCEPT ![g] = r]
    PROVE  /\ GenOK'
           /\ gen'[g] = r
           /\ \A h \in Generators : h # g => gen'[h] = gen[h]
  BY DEF GenOK

\* A generation ends.
LEMMA SetIdle ==
    ASSUME GenOK, NEW g \in Generators, Ends(g)
    PROVE  /\ GenOK'
           /\ gen'[g].pc = "idle"
           /\ \A h \in Generators : h # g => gen'[h] = gen[h]
  BY DEF GenOK, Ends, Idle

\* A generation goes on, with nothing else of its run changed.
LEMMA SetStep ==
    ASSUME GenOK, NEW g \in Generators, gen[g].pc # "idle",
           NEW step \in Steps \ {"order", "compare"}, GoTo(g, step)
    PROVE  /\ GenOK'
           /\ gen[g] \in Run
           /\ gen'[g] = [gen[g] EXCEPT !.pc = step] /\ gen'[g].pc = step
           /\ gen'[g].structure = gen[g].structure
           /\ gen'[g].temp = gen[g].temp
           /\ gen'[g].potcar = gen[g].potcar
           /\ \A h \in Generators : h # g => gen'[h] = gen[h]
  <1> DEFINE r == [gen[g] EXCEPT !.pc = step]
  <1>1. gen[g] \in Run
    BY Runs
  <1>2. /\ r \in Run /\ r.pc = step /\ r.structure = gen[g].structure
        /\ r.temp = gen[g].temp /\ r.potcar = gen[g].potcar
    BY <1>1 DEF Run
  <1>3. gen' = [gen EXCEPT ![g] = r]
    BY DEF GoTo
  <1>4. r = [gen[g] EXCEPT !.pc = step]
    OBVIOUS
  <1> HIDE DEF r
  <1>5. GenOK' /\ gen'[g] = r /\ \A h \in Generators : h # g => gen'[h] = gen[h]
    BY <1>2, <1>3, SetRun
  <1> QED BY <1>1, <1>2, <1>4, <1>5

\* A generation begins.
LEMMA BeginStep ==
    ASSUME CalculationTypeOK, NEW g \in Generators, NEW q \in Requests, Begin(g, q)
    PROVE  /\ GenOK' /\ gen[g].pc = "idle" /\ gen'[g] \in Run
           /\ gen'[g].pc = "poscar" /\ gen'[g].structure = structure
           /\ \A h \in Generators : h # g => gen'[h] = gen[h]
  <1> DEFINE r == [pc |-> "poscar", structure |-> structure, request |-> q, species |-> <<>>,
                   expected |-> <<>>, seen |-> Missing, checks |-> None, temp |-> None,
                   potcar |-> FALSE]
  <1>1. structure \in Versions
    BY DEF CalculationTypeOK, RestOK, Begin
  <1>2. r \in Run /\ r.pc = "poscar" /\ r.structure = structure
    BY <1>1 DEF Run, Steps, SpeciesOf, DatasetsOf, Poscars
  <1>3. gen' = [gen EXCEPT ![g] = r] /\ gen[g].pc = "idle"
    BY DEF Begin, At
  <1> HIDE DEF r
  <1> QED BY <1>2, <1>3, SetRun DEF CalculationTypeOK

\* The species are read.
LEMMA ReadSpeciesStep ==
    ASSUME CalculationTypeOK, NEW g \in Generators, ReadSpecies(g)
    PROVE  /\ GenOK' /\ gen[g] \in Run /\ gen'[g] \in Run
           /\ gen'[g].pc = "look"
           /\ gen'[g].structure = gen[g].structure
           /\ gen'[g].request = gen[g].request
           /\ gen'[g].expected = gen[g].expected
           /\ gen'[g].temp = gen[g].temp
           /\ gen'[g].seen = gen[g].seen
           /\ gen'[g].checks = gen[g].checks
           /\ gen'[g].potcar = gen[g].potcar
           /\ \A h \in Generators : h # g => gen'[h] = gen[h]
  <1> DEFINE r == [gen[g] EXCEPT !.pc = "look", !.species = Species(dir.POSCAR)]
  <1>1. gen[g] \in Run
    BY Runs DEF CalculationTypeOK, ReadSpecies, At
  <1>2. Species(dir.POSCAR) \in SpeciesOf
    BY DEF CalculationTypeOK, DirOK, SpeciesOf
  <1>3. /\ r \in Run
        /\ r.pc = "look"
        /\ r.structure = gen[g].structure
        /\ r.request = gen[g].request
        /\ r.expected = gen[g].expected
        /\ r.temp = gen[g].temp
        /\ r.seen = gen[g].seen
        /\ r.checks = gen[g].checks
        /\ r.potcar = gen[g].potcar
    BY <1>1, <1>2 DEF Run, Steps, Checks
  <1>4. gen' = [gen EXCEPT ![g] = r]
    BY DEF ReadSpecies
  <1> HIDE DEF r
  <1>5. r.pc \in {"order", "compare"} => r.checks \in Checks
    BY <1>3 DEF Checks
  <1>6. GenOK' /\ gen'[g] = r /\ \A h \in Generators : h # g => gen'[h] = gen[h]
    BY <1>3, <1>4, <1>5, SetRun DEF CalculationTypeOK
  <1> QED BY <1>1, <1>3, <1>6

\* A POTCAR is found.
LEMMA FindStep ==
    ASSUME CalculationTypeOK, NEW g \in Generators, Find(g)
    PROVE  /\ GenOK' /\ gen[g] \in Run /\ gen'[g] \in Run
           /\ gen'[g].pc = IF Setups(g).reason = "none" THEN "order" ELSE "fail"
           /\ gen'[g].expected = Setups(g).datasets
           /\ gen'[g].checks = "existing"
           /\ gen'[g].structure = gen[g].structure
           /\ gen'[g].request = gen[g].request
           /\ gen'[g].temp = gen[g].temp
           /\ gen'[g].seen = gen[g].seen
           /\ gen'[g].potcar = gen[g].potcar
           /\ \A h \in Generators : h # g => gen'[h] = gen[h]
  <1> DEFINE r == [gen[g] EXCEPT !.pc = IF Setups(g).reason = "none" THEN "order" ELSE "fail",
                            !.expected = Setups(g).datasets, !.checks = "existing"]
  <1>1. gen[g] \in Run
    BY Runs DEF CalculationTypeOK, Find, At
  <1>2. Setups(g).datasets \in DatasetsOf
    BY <1>1 DEF DatasetsOf, Setups, Run
  <1>3. /\ r \in Run
        /\ r.pc = IF Setups(g).reason = "none" THEN "order" ELSE "fail"
        /\ r.expected = Setups(g).datasets
        /\ r.checks = "existing"
        /\ r.structure = gen[g].structure
        /\ r.request = gen[g].request
        /\ r.temp = gen[g].temp
        /\ r.seen = gen[g].seen
        /\ r.potcar = gen[g].potcar
    BY <1>1, <1>2 DEF Run, Steps, Checks
  <1>4. gen' = [gen EXCEPT ![g] = r]
    BY DEF Find
  <1> HIDE DEF r
  <1>5. r.pc \in {"order", "compare"} => r.checks \in Checks
    BY <1>3 DEF Checks
  <1>6. GenOK' /\ gen'[g] = r /\ \A h \in Generators : h # g => gen'[h] = gen[h]
    BY <1>3, <1>4, <1>5, SetRun DEF CalculationTypeOK
  <1> QED BY <1>1, <1>3, <1>6

\* No POTCAR is found: the generation goes on without, stages one, or fails.
LEMMA ChooseStep ==
    ASSUME CalculationTypeOK, NEW g \in Generators, Choose(g)
    PROVE  /\ GenOK' /\ gen[g] \in Run /\ gen'[g] \in Run
           /\ gen'[g].pc \in {"fail", "incar", "stage"}
           /\ gen'[g].pc = "stage" => /\ gen[g].request.library # Unset
                                      /\ Unavailable(Setups(g).datasets, gen[g].request.library) = {}
           /\ gen'[g].expected = Setups(g).datasets
           /\ gen'[g].structure = gen[g].structure
           /\ gen'[g].request = gen[g].request
           /\ gen'[g].temp = gen[g].temp
           /\ gen'[g].seen = gen[g].seen
           /\ gen'[g].checks = gen[g].checks
           /\ gen'[g].potcar = gen[g].potcar
           /\ \A h \in Generators : h # g => gen'[h] = gen[h]
  <1> DEFINE library == gen[g].request.library
             next == IF Setups(g).reason # "none" THEN "fail"
                     ELSE IF library = Unset THEN "incar"
                     ELSE IF Unavailable(Setups(g).datasets, library) # {} THEN "fail" ELSE "stage"
             r == [gen[g] EXCEPT !.pc = next, !.expected = Setups(g).datasets]
  <1>1. gen[g] \in Run
    BY Runs DEF CalculationTypeOK, Choose, At
  <1>2. Setups(g).datasets \in DatasetsOf /\ next \in {"fail", "incar", "stage"}
    BY <1>1 DEF DatasetsOf, Setups, Run
  <1>3. /\ r \in Run
        /\ r.pc = next
        /\ r.expected = Setups(g).datasets
        /\ r.structure = gen[g].structure
        /\ r.request = gen[g].request
        /\ r.temp = gen[g].temp
        /\ r.seen = gen[g].seen
        /\ r.checks = gen[g].checks
        /\ r.potcar = gen[g].potcar
    BY <1>1, <1>2 DEF Run, Steps, Checks
  <1>4. gen' = [gen EXCEPT ![g] = r]
    BY DEF Choose
  <1>7. next = "stage" => library # Unset /\ Unavailable(Setups(g).datasets, library) = {}
    OBVIOUS
  <1> HIDE DEF r, next
  <1>5. r.pc \in {"order", "compare"} => r.checks \in Checks
    BY <1>2, <1>3
  <1>6. GenOK' /\ gen'[g] = r /\ \A h \in Generators : h # g => gen'[h] = gen[h]
    BY <1>3, <1>4, <1>5, SetRun DEF CalculationTypeOK
  <1> QED BY <1>1, <1>2, <1>3, <1>6, <1>7

\* The temporary file is made.
LEMMA StageStep ==
    ASSUME CalculationTypeOK, NEW g \in Generators, Stage(g)
    PROVE  /\ GenOK' /\ gen[g] \in Run /\ gen'[g] \in Run
           /\ gen'[g].pc = "order"
           /\ gen'[g].checks = "temporary"
           /\ gen'[g].temp = [file |-> made, by |-> g, content |-> gen[g].expected]
           /\ gen'[g].structure = gen[g].structure
           /\ gen'[g].request = gen[g].request
           /\ gen'[g].expected = gen[g].expected
           /\ gen'[g].seen = gen[g].seen
           /\ gen'[g].potcar = gen[g].potcar
           /\ \A h \in Generators : h # g => gen'[h] = gen[h]
  <1> DEFINE r == [gen[g] EXCEPT !.pc = "order", !.checks = "temporary",
                            !.temp = [file |-> made, by |-> g, content |-> gen[g].expected]]
  <1>1. gen[g] \in Run
    BY Runs DEF CalculationTypeOK, Stage, At
  <1>2. [file |-> made, by |-> g, content |-> gen[g].expected] \in Potcars
    BY <1>1 DEF CalculationTypeOK, RestOK, Potcars, Run
  <1>3. /\ r \in Run
        /\ r.pc = "order"
        /\ r.checks = "temporary"
        /\ r.temp = [file |-> made, by |-> g, content |-> gen[g].expected]
        /\ r.structure = gen[g].structure
        /\ r.request = gen[g].request
        /\ r.expected = gen[g].expected
        /\ r.seen = gen[g].seen
        /\ r.potcar = gen[g].potcar
    BY <1>1, <1>2 DEF Run, Steps, Checks
  <1>4. gen' = [gen EXCEPT ![g] = r]
    BY DEF Stage
  <1> HIDE DEF r
  <1>5. r.pc \in {"order", "compare"} => r.checks \in Checks
    BY <1>3 DEF Checks
  <1>6. GenOK' /\ gen'[g] = r /\ \A h \in Generators : h # g => gen'[h] = gen[h]
    BY <1>3, <1>4, <1>5, SetRun DEF CalculationTypeOK
  <1> QED BY <1>1, <1>3, <1>6

\* POSCAR is read before the POTCAR that is checked.
LEMMA ReadOrderStep ==
    ASSUME CalculationTypeOK, NEW g \in Generators, ReadOrder(g)
    PROVE  /\ GenOK' /\ gen[g] \in Run /\ gen'[g] \in Run
           /\ gen'[g].pc = "compare"
           /\ gen'[g].seen = dir.POSCAR
           /\ gen'[g].structure = gen[g].structure
           /\ gen'[g].request = gen[g].request
           /\ gen'[g].expected = gen[g].expected
           /\ gen'[g].temp = gen[g].temp
           /\ gen'[g].checks = gen[g].checks
           /\ gen'[g].potcar = gen[g].potcar
           /\ \A h \in Generators : h # g => gen'[h] = gen[h]
  <1> DEFINE r == [gen[g] EXCEPT !.pc = "compare", !.seen = dir.POSCAR]
  <1>1. gen[g] \in Run
    BY Runs DEF CalculationTypeOK, ReadOrder, At
  <1>2. dir.POSCAR \in Poscars /\ gen[g].checks \in Checks
    BY <1>1 DEF CalculationTypeOK, DirOK, GenOK, ReadOrder, At
  <1>3. /\ r \in Run
        /\ r.pc = "compare"
        /\ r.seen = dir.POSCAR
        /\ r.structure = gen[g].structure
        /\ r.request = gen[g].request
        /\ r.expected = gen[g].expected
        /\ r.temp = gen[g].temp
        /\ r.checks = gen[g].checks
        /\ r.potcar = gen[g].potcar
    BY <1>1, <1>2 DEF Run, Steps, Checks
  <1>4. gen' = [gen EXCEPT ![g] = r]
    BY DEF ReadOrder
  <1> HIDE DEF r
  <1>5. r.pc \in {"order", "compare"} => r.checks \in Checks
    BY <1>3, <1>2 DEF Checks
  <1>6. GenOK' /\ gen'[g] = r /\ \A h \in Generators : h # g => gen'[h] = gen[h]
    BY <1>3, <1>4, <1>5, SetRun DEF CalculationTypeOK
  <1> QED BY <1>1, <1>3, <1>6

\* The check passes or fails.
LEMMA CompareStep ==
    ASSUME CalculationTypeOK, NEW g \in Generators, Compare(g)
    PROVE  /\ GenOK' /\ gen[g] \in Run /\ gen'[g] \in Run
           /\ gen[g].checks \in Checks
           /\ IF PotcarValid(gen[g].seen, Checked(g), gen[g].expected)
              THEN /\ gen'[g].pc = Passed[gen[g].checks]
                   /\ gen'[g].potcar <=> gen[g].checks # "temporary"
              ELSE gen'[g].pc = Failed[gen[g].checks] /\ ~gen'[g].potcar
           /\ gen'[g].structure = gen[g].structure
           /\ gen'[g].request = gen[g].request
           /\ gen'[g].expected = gen[g].expected
           /\ gen'[g].temp = gen[g].temp
           /\ gen'[g].seen = gen[g].seen
           /\ gen'[g].checks = gen[g].checks
           /\ \A h \in Generators : h # g => gen'[h] = gen[h]
  <1> DEFINE valid == PotcarValid(gen[g].seen, Checked(g), gen[g].expected)
             step == IF valid THEN Passed[gen[g].checks] ELSE Failed[gen[g].checks]
             potcar == valid /\ gen[g].checks # "temporary"
             r == [gen[g] EXCEPT !.pc = step, !.potcar = potcar]
  <1>1. gen[g] \in Run
    BY Runs DEF CalculationTypeOK, Compare, At
  <1>2. gen[g].checks \in Checks /\ valid \in BOOLEAN /\ potcar \in BOOLEAN
    BY <1>1 DEF CalculationTypeOK, GenOK, Compare, At, PotcarValid
  <1>7. step \in Steps \ {"order", "compare"}
    BY <1>2 DEF Passed, Failed, Checks, Steps
  <1>8. /\ valid => step = Passed[gen[g].checks] /\ (potcar <=> gen[g].checks # "temporary")
        /\ ~valid => step = Failed[gen[g].checks] /\ ~potcar
    OBVIOUS
  <1> HIDE DEF step, potcar
  <1>3. /\ r \in Run
        /\ r.pc = step /\ r.potcar = potcar
        /\ r.structure = gen[g].structure
        /\ r.request = gen[g].request
        /\ r.expected = gen[g].expected
        /\ r.temp = gen[g].temp
        /\ r.seen = gen[g].seen
        /\ r.checks = gen[g].checks
    BY <1>1, <1>2, <1>7 DEF Run
  <1>4. gen' = [gen EXCEPT ![g] = r]
    BY DEF Compare, step, potcar
  <1> HIDE DEF r
  <1>5. r.pc \in {"order", "compare"} => r.checks \in Checks
    BY <1>3, <1>7
  <1>6. GenOK' /\ gen'[g] = r /\ \A h \in Generators : h # g => gen'[h] = gen[h]
    BY <1>3, <1>4, <1>5, SetRun DEF CalculationTypeOK
  <1> QED BY <1>1, <1>2, <1>3, <1>6, <1>8

\* Link: the generation goes on to check POTCAR, its own or another one.
LEMMA LinkStep ==
    ASSUME CalculationTypeOK, NEW g \in Generators, Link(g)
    PROVE  /\ GenOK' /\ gen[g] \in Run /\ gen'[g] \in Run
           /\ gen'[g].pc = "order"
           /\ gen'[g].checks = IF dir.POTCAR = Missing THEN "final" ELSE "other"
           /\ gen'[g].structure = gen[g].structure
           /\ gen'[g].expected = gen[g].expected
           /\ gen'[g].temp = gen[g].temp
           /\ \A h \in Generators : h # g => gen'[h] = gen[h]
  <1>1. gen[g] \in Run
    BY Runs DEF CalculationTypeOK, Link, At
  <1>2. PICK checks \in {"final", "other"} :
          /\ checks = IF dir.POTCAR = Missing THEN "final" ELSE "other"
          /\ gen' = [gen EXCEPT ![g].pc = "order", ![g].checks = checks]
    BY DEF Link
  <1> DEFINE r == [gen[g] EXCEPT !.pc = "order", !.checks = checks]
  <1>3. /\ r \in Run
        /\ r.pc = "order" /\ r.checks = checks
        /\ r.structure = gen[g].structure
        /\ r.expected = gen[g].expected
        /\ r.temp = gen[g].temp
    BY <1>1, <1>2 DEF Run, Steps, Checks
  <1>4. gen' = [gen EXCEPT ![g] = r]
    BY <1>2
  <1> HIDE DEF r
  <1>5. r.pc \in {"order", "compare"} => r.checks \in Checks
    BY <1>2, <1>3 DEF Checks
  <1>6. GenOK' /\ gen'[g] = r /\ \A h \in Generators : h # g => gen'[h] = gen[h]
    BY <1>3, <1>4, <1>5, SetRun DEF CalculationTypeOK
  <1> QED BY <1>1, <1>2, <1>3, <1>6

\* One file of the directory is written or removed.
LEMMA SetPoscar ==
    ASSUME DirOK, NEW p \in Poscars, dir' = [dir EXCEPT !.POSCAR = p]
    PROVE  DirOK' /\ dir'.POSCAR = p /\ dir'.POTCAR = dir.POTCAR /\ dir'.INCAR = dir.INCAR
  BY DEF DirOK

LEMMA SetPotcar ==
    ASSUME DirOK, NEW p \in Potcars \cup {Missing}, dir' = [dir EXCEPT !.POTCAR = p]
    PROVE  DirOK' /\ dir'.POTCAR = p /\ dir'.POSCAR = dir.POSCAR /\ dir'.INCAR = dir.INCAR
  BY DEF DirOK

LEMMA SetIncar ==
    ASSUME DirOK, NEW i, dir' = [dir EXCEPT !.INCAR = i]
    PROVE  DirOK' /\ dir'.INCAR = i /\ dir'.POSCAR = dir.POSCAR /\ dir'.POTCAR = dir.POTCAR
  BY DEF DirOK

LEMMA SetKpoints ==
    ASSUME DirOK, NEW k, dir' = [dir EXCEPT !.KPOINTS = k]
    PROVE  DirOK' /\ dir'.POSCAR = dir.POSCAR /\ dir'.POTCAR = dir.POTCAR /\ dir'.INCAR = dir.INCAR
  BY DEF DirOK

LEMMA SetInputs ==
    ASSUME DirOK, NEW p \in Poscars, NEW k, NEW i,
           dir' = [dir EXCEPT !.POSCAR = p, !.KPOINTS = k, !.INCAR = i]
    PROVE  DirOK' /\ dir'.INCAR = i /\ dir'.POTCAR = dir.POTCAR
  <1>1. PICK a : a = [dir EXCEPT !.POSCAR = p]
    OBVIOUS
  <1>2. PICK b : b = [a EXCEPT !.KPOINTS = k]
    OBVIOUS
  <1>3. dir' = [b EXCEPT !.INCAR = i]
    BY <1>1, <1>2
  <1>4. a = [POSCAR |-> p, INCAR |-> dir.INCAR, KPOINTS |-> dir.KPOINTS,
             POTCAR |-> dir.POTCAR, CHGCAR |-> Missing, images |-> 0]
    BY <1>1 DEF DirOK
  <1>5. b = [POSCAR |-> p, INCAR |-> dir.INCAR, KPOINTS |-> k,
             POTCAR |-> dir.POTCAR, CHGCAR |-> Missing, images |-> 0]
    BY <1>2, <1>4
  <1>6. dir' = [POSCAR |-> p, INCAR |-> i, KPOINTS |-> k,
                POTCAR |-> dir.POTCAR, CHGCAR |-> Missing, images |-> 0]
    BY <1>3, <1>5
  <1> QED BY <1>6 DEF DirOK

\* A POTCAR is linked where there was none, or left alone.
LEMMA LinkDir ==
    ASSUME CalculationTypeOK, NEW g \in Generators, Link(g), gen[g].temp \in Potcars
    PROVE  /\ DirOK' /\ dir'.POSCAR = dir.POSCAR /\ dir'.INCAR = dir.INCAR
           /\ IF dir.POTCAR = Missing
              THEN dir'.POTCAR = gen[g].temp /\ UNCHANGED temps
              ELSE dir'.POTCAR = dir.POTCAR /\ temps' = temps \ {gen[g].temp.file}
  <1>1. CASE dir.POTCAR = Missing
    <2>1. dir' = [dir EXCEPT !.POTCAR = gen[g].temp] /\ UNCHANGED temps
      BY <1>1 DEF Link
    <2> QED BY <1>1, <2>1, SetPotcar DEF CalculationTypeOK
  <1>2. CASE dir.POTCAR # Missing
    <2>1. UNCHANGED dir /\ temps' = temps \ {gen[g].temp.file}
      BY <1>2 DEF Link
    <2> QED BY <1>2, <2>1 DEF CalculationTypeOK, DirOK
  <1> QED BY <1>1, <1>2

\* The number of bands that a generation asks for is refused.
Refused(g) ==
    /\ Unset \notin {NumberOfElectrons(g), gen[g].request.bands}
    /\ BandsRefused(gen[g].request.bands, NumberOfElectrons(g), gen[g].request.spin)

\* What INCAR becomes.
LEMMA IncarDir ==
    ASSUME CalculationTypeOK, NEW g \in Generators, WriteIncar(g)
    PROVE  /\ DirOK' /\ dir'.POSCAR = dir.POSCAR /\ dir'.POTCAR = dir.POTCAR
           /\ \/ GoTo(g, "fail") /\ UNCHANGED dir
              \/ /\ GoTo(g, "kpoints")
                 /\ ~Refused(g)
                 /\ dir'.INCAR.version = gen[g].structure.version
                 /\ dir'.INCAR.halves = NumberOfElectrons(g)
                 /\ dir'.INCAR.bands = IncarBands(g, NumberOfElectrons(g))
                 /\ dir'.INCAR.request = gen[g].request
  <1> DEFINE r == gen[g].request
             i == [version |-> gen[g].structure.version, halves |-> NumberOfElectrons(g),
                   bands |-> IncarBands(g, NumberOfElectrons(g)), request |-> r,
                   parallel |-> ParallelTags(r),
                   dynamics |-> r.job \in {"md", "aimd"}, text |-> "plain"]
  <1>1. IF Refused(g) THEN GoTo(g, "fail") /\ UNCHANGED dir
        ELSE GoTo(g, "kpoints") /\ dir' = [dir EXCEPT !.INCAR = i]
    BY DEF WriteIncar, Refused
  <1>2. /\ i.version = gen[g].structure.version /\ i.halves = NumberOfElectrons(g)
        /\ i.bands = IncarBands(g, NumberOfElectrons(g)) /\ i.request = gen[g].request
    OBVIOUS
  <1> HIDE DEF i
  <1>3. CASE Refused(g)
    BY <1>1, <1>3 DEF CalculationTypeOK, DirOK
  <1>4. CASE ~Refused(g)
    <2>1. DirOK' /\ dir'.INCAR = i /\ dir'.POSCAR = dir.POSCAR /\ dir'.POTCAR = dir.POTCAR
      BY <1>1, <1>4, SetIncar DEF CalculationTypeOK
    <2> QED BY <1>1, <1>2, <1>4, <2>1
  <1> QED BY <1>3, <1>4

\* No step takes a variable out of its type.
LEMMA NextType == CalculationTypeOK /\ FilesApart /\ [CalcNext]_calcVars => CalculationTypeOK'
  <1> SUFFICES ASSUME CalculationTypeOK, FilesApart, [CalcNext]_calcVars PROVE CalculationTypeOK'
    OBVIOUS
  <1>0. DirOK /\ GenOK /\ RestOK
    BY DEF CalculationTypeOK
  <1>27. UNCHANGED <<sessions, structure, temps, made, started, faults>> => RestOK'
    BY <1>0 DEF RestOK
  <1>28. UNCHANGED dir => DirOK'
    BY <1>0 DEF DirOK
  <1>29. UNCHANGED gen => GenOK'
    BY <1>0 DEF GenOK
  <1>1. ASSUME NEW s \in Structures, Remodel(s) PROVE CalculationTypeOK'
    <2>1. structure' \in Versions
      BY <1>0, <1>1 DEF Remodel, Versions, RestOK
    <2>2. RestOK'
      BY <1>0, <1>1, <2>1 DEF Remodel, RestOK
    <2> QED BY <1>1, <1>28, <1>29, <2>2 DEF Remodel, CalculationTypeOK
  <1>2. ASSUME NEW s \in Structures, NEW t \in Texts, PlaceInputs(s, t) PROVE CalculationTypeOK'
    <2>1. DirOK'
      BY <1>0, <1>2, SetInputs DEF PlaceInputs, Poscars
    <2> QED BY <1>2, <1>29, <1>27, <2>1 DEF PlaceInputs, CalculationTypeOK
  <1>3. ASSUME NEW p \in UserPotcars, PlacePotcar(p) PROVE CalculationTypeOK'
    <2>1. [file |-> made, by |-> "user", content |-> p] \in Potcars
      BY <1>0 DEF Potcars, RestOK
    <2>2. DirOK'
      BY <1>0, <1>3, <2>1, SetPotcar DEF PlacePotcar
    <2>3. RestOK'
      BY <1>0, <1>3 DEF PlacePotcar, RestOK
    <2> QED BY <1>3, <1>29, <2>2, <2>3 DEF PlacePotcar, CalculationTypeOK
  <1>4. CASE RemovePotcar
    <2>1. DirOK'
      BY <1>0, <1>4, SetPotcar DEF RemovePotcar
    <2> QED BY <1>4, <1>29, <1>27, <2>1 DEF RemovePotcar, CalculationTypeOK
  <1>5. ASSUME NEW r \in Requests, Direct(r) PROVE CalculationTypeOK'
    <2>1. RestOK'
      BY <1>0, <1>5 DEF Direct, RestOK
    <2> QED BY <1>5, <1>28, <1>29, <2>1 DEF Direct, CalculationTypeOK
  <1>6. ASSUME NEW r \in Requests, NEW g \in Generators, Begin(g, r) PROVE CalculationTypeOK'
    <2>1. RestOK'
      BY <1>0, <1>6 DEF Begin, RestOK
    <2> QED BY <1>6, <1>28, <2>1, BeginStep DEF Begin, CalculationTypeOK
  <1>7. ASSUME NEW r \in PlanRequests, BeginPlan(r) PROVE CalculationTypeOK'
    <2>1. RestOK'
      BY <1>0, <1>7 DEF BeginPlan, RestOK
    <2> QED BY <1>7, <1>28, <1>29, <2>1 DEF BeginPlan, CalculationTypeOK
  <1>8. CASE FinishPlan
    BY <1>8, <1>28, <1>29, <1>27 DEF FinishPlan, CalculationTypeOK
  <1>9. CASE UNCHANGED calcVars
    BY <1>9, <1>28, <1>29, <1>27 DEF calcVars, CalculationTypeOK
  <1>10. ASSUME NEW g \in Generators, WritePoscar(g) PROVE CalculationTypeOK'
    <2>1. GenOK' /\ gen[g] \in Run
      BY <1>0, <1>10, SetStep DEF WritePoscar, At, Steps
    <2>2. gen[g].structure.poscar \in Poscars
      BY <2>1 DEF Run, Versions, Poscars
    <2>3. DirOK'
      BY <1>0, <1>10, <2>2, SetPoscar DEF WritePoscar
    <2> QED BY <1>10, <1>27, <2>1, <2>3 DEF WritePoscar, CalculationTypeOK
  <1>11. ASSUME NEW g \in Generators, ReadSpecies(g) PROVE CalculationTypeOK'
    BY <1>11, <1>28, <1>27, ReadSpeciesStep DEF ReadSpecies, CalculationTypeOK
  <1>12. ASSUME NEW g \in Generators, Find(g) PROVE CalculationTypeOK'
    BY <1>12, <1>28, <1>27, FindStep DEF Find, CalculationTypeOK
  <1>13. ASSUME NEW g \in Generators, Choose(g) PROVE CalculationTypeOK'
    BY <1>13, <1>28, <1>27, ChooseStep DEF Choose, CalculationTypeOK
  <1>14. ASSUME NEW g \in Generators, Stage(g) PROVE CalculationTypeOK'
    <2>1. RestOK'
      BY <1>0, <1>14 DEF Stage, RestOK
    <2> QED BY <1>14, <1>28, <2>1, StageStep DEF Stage, CalculationTypeOK
  <1>15. ASSUME NEW g \in Generators, StageFails(g) PROVE CalculationTypeOK'
    BY <1>0, <1>15, <1>28, <1>27, SetStep DEF StageFails, At, Steps, CalculationTypeOK
  <1>16. ASSUME NEW g \in Generators, ReadOrder(g) PROVE CalculationTypeOK'
    BY <1>16, <1>28, <1>27, ReadOrderStep DEF ReadOrder, CalculationTypeOK
  <1>17. ASSUME NEW g \in Generators, Compare(g) PROVE CalculationTypeOK'
    BY <1>17, <1>28, <1>27, CompareStep DEF Compare, CalculationTypeOK
  <1>18. ASSUME NEW g \in Generators, SameFile(g) PROVE CalculationTypeOK'
    <2>1. GenOK'
      BY <1>0, <1>18, SetStep DEF SameFile, At, Steps
    <2> QED BY <1>18, <1>28, <1>27, <2>1 DEF SameFile, CalculationTypeOK
  <1>19. ASSUME NEW g \in Generators, Unlink(g) PROVE CalculationTypeOK'
    <2>1. GenOK'
      BY <1>0, <1>19, SetStep DEF Unlink, At, Steps
    <2>2. DirOK'
      BY <1>0, <1>19, SetPotcar DEF Unlink
    <2> QED BY <1>19, <1>27, <2>1, <2>2 DEF Unlink, CalculationTypeOK
  <1>20. ASSUME NEW g \in Generators, Discard(g) PROVE CalculationTypeOK'
    <2>1. GenOK'
      BY <1>0, <1>20, SetStep DEF Discard, At, Steps
    <2>2. RestOK'
      BY <1>0, <1>20 DEF Discard, RestOK
    <2> QED BY <1>20, <1>28, <2>1, <2>2 DEF Discard, CalculationTypeOK
  <1>21. ASSUME NEW g \in Generators, Fail(g) PROVE CalculationTypeOK'
    BY <1>0, <1>21, <1>28, <1>27, SetIdle DEF Fail, CalculationTypeOK
  <1>22. ASSUME NEW g \in Generators, WriteIncar(g) PROVE CalculationTypeOK'
    <2>1. GenOK'
      BY <1>0, <1>22, IncarDir, SetStep DEF WriteIncar, At, Steps
    <2> QED BY <1>22, <1>27, <2>1, IncarDir DEF WriteIncar, CalculationTypeOK
  <1>23. ASSUME NEW g \in Generators, WriteKpoints(g) PROVE CalculationTypeOK'
    <2>1. GenOK'
      BY <1>0, <1>23, SetStep DEF WriteKpoints, At, Steps
    <2>2. DirOK'
      BY <1>0, <1>23, SetKpoints DEF WriteKpoints
    <2> QED BY <1>23, <1>27, <2>1, <2>2 DEF WriteKpoints, CalculationTypeOK
  <1>24. ASSUME NEW g \in Generators, Register(g) PROVE CalculationTypeOK'
    BY <1>0, <1>24, <1>28, <1>27, SetIdle DEF Register, CalculationTypeOK
  <1>25. ASSUME NEW g \in Generators, Crash(g) PROVE CalculationTypeOK'
    <2>1. RestOK'
      BY <1>0, <1>25 DEF Crash, RestOK
    <2> QED BY <1>0, <1>25, <1>28, <2>1, SetIdle DEF Crash, CalculationTypeOK
  <1>26. ASSUME NEW g \in Generators, Link(g) PROVE CalculationTypeOK'
    <2>1. RestOK'
      BY <1>0, <1>26 DEF Link, RestOK
    <2>2. gen[g].temp \in Potcars
      BY <1>26 DEF Link, At, FilesApart, Holds
    <2> QED BY <1>26, <2>1, <2>2, LinkStep, LinkDir DEF Link, CalculationTypeOK
  <1> QED BY <1>1, <1>2, <1>3, <1>4, <1>5, <1>6, <1>7, <1>8, <1>9, <1>10, <1>11, <1>12, <1>13,
             <1>14, <1>15, <1>16, <1>17, <1>18, <1>19, <1>20, <1>21, <1>22, <1>23, <1>24, <1>25,
             <1>26 DEF CalcNext

-----------------------------------------------------------------------------
(* The temporary files stay those of the generations that hold one.        *)

\* No generation takes or gives up a file, and none comes to unlink POTCAR.
SameHolders ==
    \A h \in Generators :
        /\ Holds(h)' <=> Holds(h)
        /\ Holds(h) => gen'[h].temp = gen[h].temp
        /\ gen'[h].pc = "unlink" => gen[h].pc = "unlink"

LEMMA GenKept == UNCHANGED gen => SameHolders
  BY DEF SameHolders, Holds

LEMMA OneHolder ==
    ASSUME NEW g \in Generators, \A h \in Generators : h # g => gen'[h] = gen[h],
           Holds(g)' <=> Holds(g), Holds(g) => gen'[g].temp = gen[g].temp,
           gen'[g].pc = "unlink" => gen[g].pc = "unlink"
    PROVE  SameHolders
  <1> SUFFICES ASSUME NEW h \in Generators
               PROVE  /\ Holds(h)' <=> Holds(h)
                      /\ Holds(h) => gen'[h].temp = gen[h].temp
                      /\ gen'[h].pc = "unlink" => gen[h].pc = "unlink"
    BY DEF SameHolders
  <1>1. CASE h = g
    BY <1>1
  <1>2. CASE h # g
    BY <1>2 DEF Holds
  <1> QED BY <1>1, <1>2

\* While they do not, and POTCAR stays, so does what is said of the files.
LEMMA FilesKept ==
    ASSUME CalculationTypeOK, FilesApart, SameHolders, dir'.POTCAR = dir.POTCAR, made' = made
    PROVE  FilesApart'
  <1>1. ASSUME NEW g \in Generators, Holds(g)' PROVE Holds(g) /\ gen'[g].temp = gen[g].temp
    BY <1>1 DEF SameHolders
  <1>2. ASSUME NEW g \in Generators, gen'[g].pc = "unlink"
        PROVE  dir'.POTCAR # Missing /\ dir'.POTCAR = gen'[g].temp
    <2>1. gen[g].pc = "unlink" /\ Holds(g) /\ gen'[g].temp = gen[g].temp
      BY <1>2 DEF SameHolders, Holds
    <2> QED BY <2>1 DEF FilesApart
  <1>3. ASSUME NEW g \in Generators, Holds(g)'
        PROVE  /\ gen'[g].temp \in Potcars /\ gen'[g].temp.by = g /\ gen'[g].temp.file < made'
               /\ dir'.POTCAR # Missing /\ dir'.POTCAR.file = gen'[g].temp.file => dir'.POTCAR = gen'[g].temp
    BY <1>1, <1>3 DEF FilesApart
  <1>4. ASSUME NEW g \in Generators, NEW h \in Generators, Holds(g)', Holds(h)', g # h
        PROVE  gen'[g].temp.file # gen'[h].temp.file
    BY <1>1, <1>4 DEF FilesApart
  <1>5. dir'.POTCAR # Missing => dir'.POTCAR.file < made'
    BY DEF FilesApart
  <1> QED BY <1>2, <1>3, <1>4, <1>5 DEF FilesApart

LEMMA TempsKept ==
    ASSUME TempsHeld, SameHolders, temps' = temps, faults' = faults
    PROVE  TempsHeld'
  <1> SUFFICES ASSUME faults = 0
               PROVE  temps = {gen'[g].temp.file : g \in {h \in Generators : Holds(h)'}}
    BY DEF TempsHeld
  <1>1. temps = {gen[g].temp.file : g \in {h \in Generators : Holds(h)}}
    BY DEF TempsHeld
  <1>2. {h \in Generators : Holds(h)'} = {h \in Generators : Holds(h)}
    BY DEF SameHolders
  <1>3. \A g \in {h \in Generators : Holds(h)} : gen'[g].temp = gen[g].temp
    BY DEF SameHolders
  <1> QED BY <1>1, <1>2, <1>3

\* The user places a POTCAR: no generation was about to unlink one.
LEMMA PlaceFiles ==
    ASSUME CalculationTypeOK, FilesApart, NEW p \in UserPotcars, PlacePotcar(p)
    PROVE  FilesApart'
  <1>1. /\ dir.POTCAR = Missing /\ UNCHANGED gen /\ made' = made + 1 /\ made \in Nat
        /\ dir' = [dir EXCEPT !.POTCAR = [file |-> made, by |-> "user", content |-> p]]
    BY DEF PlacePotcar, CalculationTypeOK, RestOK
  <1>2. [file |-> made, by |-> "user", content |-> p] \in Potcars
    BY <1>1 DEF Potcars
  <1>3. dir'.POTCAR = [file |-> made, by |-> "user", content |-> p]
    BY <1>1, <1>2, SetPotcar DEF CalculationTypeOK
  <1>4. \A g \in Generators : Holds(g)' <=> Holds(g)
    BY <1>1 DEF Holds
  <1>5. dir'.POTCAR.file = made /\ made < made'
    BY <1>1, <1>3
  <1>6. \A g \in Generators : Holds(g) => gen[g].temp.file \in Nat /\ gen[g].temp.file < made
    BY DEF FilesApart, Potcars
  <1>7. \A g \in Generators : gen[g].pc # "unlink"
    BY <1>1 DEF FilesApart
  <1>8. ASSUME NEW g \in Generators, Holds(g)
        PROVE  /\ gen'[g].temp \in Potcars /\ gen'[g].temp.by = g /\ gen'[g].temp.file < made'
               /\ dir'.POTCAR.file # gen'[g].temp.file
    BY <1>1, <1>5, <1>6, <1>8 DEF FilesApart
  <1>9. \A g, h \in Generators : Holds(g) /\ Holds(h) /\ g # h => gen'[g].temp.file # gen'[h].temp.file
    BY <1>1 DEF FilesApart
  <1> QED BY <1>1, <1>4, <1>5, <1>7, <1>8, <1>9 DEF FilesApart

\* POTCAR is removed, by the user or by a generation, and nobody is about to
\* unlink it then.
LEMMA RemoveFiles ==
    ASSUME CalculationTypeOK, FilesApart, dir'.POTCAR = Missing, made' = made,
           \A g \in Generators : /\ Holds(g)' <=> Holds(g)
                                 /\ Holds(g) => gen'[g].temp = gen[g].temp
                                 /\ gen'[g].pc # "unlink"
    PROVE  FilesApart'
  BY DEF FilesApart

\* A temporary file is made, with a number of its own.
LEMMA StageFiles ==
    ASSUME CalculationTypeOK, FilesApart, TempsHeld, NEW g \in Generators, Stage(g)
    PROVE  FilesApart' /\ TempsHeld'
  <1> DEFINE t == [file |-> made, by |-> g, content |-> gen[g].expected]
  <1>1. /\ gen[g] \in Run /\ gen[g].pc = "stage"
        /\ gen'[g].pc = "order" /\ gen'[g].checks = "temporary" /\ gen'[g].temp = t
        /\ \A h \in Generators : h # g => gen'[h] = gen[h]
        /\ dir' = dir /\ faults' = faults /\ made \in Nat /\ made' = made + 1
        /\ temps' = temps \cup {made}
    BY StageStep DEF Stage, At, CalculationTypeOK, RestOK
  <1>2. t \in Potcars /\ t.by = g /\ t.file = made
    BY <1>1 DEF Potcars, Run
  <1> HIDE DEF t
  <1>3. /\ Holds(g)' /\ ~Holds(g)
        /\ \A h \in Generators : h # g => (Holds(h)' <=> Holds(h))
    BY <1>1 DEF Holds
  <1>4. \A h \in Generators : Holds(h) => gen[h].temp.file \in Nat /\ gen[h].temp.file < made
    BY DEF FilesApart, Potcars
  <1>5. dir.POTCAR # Missing => dir.POTCAR.file \in Nat /\ dir.POTCAR.file < made
    BY DEF FilesApart, CalculationTypeOK, DirOK, Potcars
  <1>6. ASSUME NEW h \in Generators, Holds(h)'
        PROVE  /\ gen'[h].temp \in Potcars /\ gen'[h].temp.by = h /\ gen'[h].temp.file < made'
               /\ dir.POTCAR # Missing /\ dir.POTCAR.file = gen'[h].temp.file => dir.POTCAR = gen'[h].temp
    <2>1. CASE h = g
      BY <1>1, <1>2, <1>5, <2>1
    <2>2. CASE h # g
      <3>1. Holds(h) /\ gen'[h].temp = gen[h].temp
        BY <1>1, <1>3, <1>6, <2>2
      <3> QED BY <1>1, <1>4, <3>1 DEF FilesApart
    <2> QED BY <2>1, <2>2
  <1>7. ASSUME NEW h \in Generators, NEW k \in Generators, Holds(h)', Holds(k)', h # k
        PROVE  gen'[h].temp.file # gen'[k].temp.file
    <2>1. \A i \in {h, k} : i # g => Holds(i) /\ gen'[i].temp = gen[i].temp
      BY <1>1, <1>3, <1>7
    <2>2. CASE h # g /\ k # g
      BY <1>7, <2>1, <2>2 DEF FilesApart
    <2>3. CASE h = g
      <3>1. Holds(k) /\ gen'[k].temp.file < made /\ gen'[k].temp.file \in Nat
        BY <1>4, <1>7, <2>1, <2>3
      <3> QED BY <1>1, <1>2, <2>3, <3>1
    <2>4. CASE k = g
      <3>1. Holds(h) /\ gen'[h].temp.file < made /\ gen'[h].temp.file \in Nat
        BY <1>4, <1>7, <2>1, <2>4
      <3> QED BY <1>1, <1>2, <2>4, <3>1
    <2> QED BY <2>2, <2>3, <2>4
  <1>8. ASSUME NEW h \in Generators, gen'[h].pc = "unlink"
        PROVE  dir.POTCAR # Missing /\ dir.POTCAR = gen'[h].temp
    BY <1>1, <1>8 DEF FilesApart
  <1>9. dir.POTCAR # Missing => dir.POTCAR.file < made'
    BY <1>1, <1>5
  <1>10. FilesApart'
    BY <1>1, <1>6, <1>7, <1>8, <1>9 DEF FilesApart
  <1>11. TempsHeld'
    <2>1. SUFFICES ASSUME faults = 0
                   PROVE  temps' = {gen'[h].temp.file : h \in {k \in Generators : Holds(k)'}}
      BY <1>1 DEF TempsHeld
    <2>2. temps = {gen[h].temp.file : h \in {k \in Generators : Holds(k)}}
      BY <2>1 DEF TempsHeld
    <2>3. {k \in Generators : Holds(k)'} = {k \in Generators : Holds(k)} \cup {g}
      BY <1>3
    <2>4. \A h \in {k \in Generators : Holds(k)} : gen'[h].temp = gen[h].temp
      BY <1>1, <1>3
    <2> QED BY <1>1, <1>2, <2>2, <2>3, <2>4
  <1> QED BY <1>10, <1>11

\* A generation gives up its file, and the file goes.
LEMMA GivenUp ==
    ASSUME CalculationTypeOK, FilesApart, TempsHeld, NEW g \in Generators, Holds(g), ~Holds(g)',
           \A h \in Generators : h # g => gen'[h] = gen[h],
           temps' = temps \ {gen[g].temp.file}, faults' = faults
    PROVE  TempsHeld'
  <1>1. SUFFICES ASSUME faults = 0
                 PROVE  temps' = {gen'[h].temp.file : h \in {k \in Generators : Holds(k)'}}
    BY DEF TempsHeld
  <1>2. temps = {gen[h].temp.file : h \in {k \in Generators : Holds(k)}}
    BY <1>1 DEF TempsHeld
  <1>3. {k \in Generators : Holds(k)'} = {k \in Generators : Holds(k)} \ {g}
    <2>1. \A k \in Generators : k # g => (Holds(k)' <=> Holds(k))
      BY DEF Holds
    <2> QED BY <2>1
  <1>4. \A h \in {k \in Generators : Holds(k)} \ {g} : gen'[h].temp = gen[h].temp
    OBVIOUS
  <1>5. \A h \in {k \in Generators : Holds(k)} \ {g} : gen[h].temp.file # gen[g].temp.file
    BY DEF FilesApart
  <1> QED BY <1>2, <1>3, <1>4, <1>5

\* What a generation gives up is said of the others only.
LEMMA GivenUpFiles ==
    ASSUME CalculationTypeOK, FilesApart, NEW g \in Generators, ~Holds(g)', gen'[g].pc # "unlink",
           \A h \in Generators : h # g => gen'[h] = gen[h],
           dir'.POTCAR = dir.POTCAR, made' = made
    PROVE  FilesApart'
  <1>1. \A h \in Generators : Holds(h)' => h # g /\ Holds(h) /\ gen'[h] = gen[h]
    BY DEF Holds
  <1>2. \A h \in Generators : gen'[h].pc = "unlink" => h # g /\ gen'[h] = gen[h]
    OBVIOUS
  <1>3. ASSUME NEW h \in Generators, Holds(h)'
        PROVE  /\ gen'[h].temp \in Potcars /\ gen'[h].temp.by = h /\ gen'[h].temp.file < made'
               /\ dir'.POTCAR # Missing /\ dir'.POTCAR.file = gen'[h].temp.file => dir'.POTCAR = gen'[h].temp
    BY <1>1, <1>3 DEF FilesApart
  <1>4. ASSUME NEW h \in Generators, NEW k \in Generators, Holds(h)', Holds(k)', h # k
        PROVE  gen'[h].temp.file # gen'[k].temp.file
    BY <1>1, <1>4 DEF FilesApart
  <1>5. \A h \in Generators : gen'[h].pc = "unlink" => dir'.POTCAR # Missing /\ dir'.POTCAR = gen'[h].temp
    BY <1>2 DEF FilesApart
  <1>6. dir'.POTCAR # Missing => dir'.POTCAR.file < made'
    BY DEF FilesApart
  <1> QED BY <1>3, <1>4, <1>5, <1>6 DEF FilesApart

\* Link gives the name POTCAR to the generation's own file, or gives it up.
LEMMA LinkFiles ==
    ASSUME CalculationTypeOK, FilesApart, TempsHeld, NEW g \in Generators, Link(g)
    PROVE  FilesApart' /\ TempsHeld'
  <1>1. /\ gen[g] \in Run /\ gen[g].pc = "link" /\ gen'[g].pc = "order"
        /\ gen'[g].checks = IF dir.POTCAR = Missing THEN "final" ELSE "other"
        /\ gen'[g].temp = gen[g].temp
        /\ \A h \in Generators : h # g => gen'[h] = gen[h]
        /\ faults' = faults /\ made' = made
    BY LinkStep DEF Link, At
  <1>2. Holds(g) /\ gen[g].temp \in Potcars /\ gen[g].temp.file < made
    BY <1>1 DEF Holds, FilesApart
  <1>3. CASE dir.POTCAR = Missing
    <2>1. dir'.POTCAR = gen[g].temp /\ temps' = temps
      BY <1>2, <1>3, LinkDir
    <2>2. SameHolders
      <3>1. Holds(g)' /\ gen'[g].pc # "unlink"
        BY <1>1, <1>3 DEF Holds
      <3> QED BY <1>1, <1>2, <3>1, OneHolder
    <2>3. \A h \in Generators : gen'[h].pc # "unlink"
      BY <1>3, <2>2 DEF FilesApart, SameHolders
    <2>4. ASSUME NEW h \in Generators, Holds(h)'
          PROVE  /\ gen'[h].temp \in Potcars /\ gen'[h].temp.by = h /\ gen'[h].temp.file < made'
                 /\ dir'.POTCAR.file = gen'[h].temp.file => dir'.POTCAR = gen'[h].temp
      <3>1. Holds(h) /\ gen'[h].temp = gen[h].temp
        BY <2>2, <2>4 DEF SameHolders
      <3>2. h # g => gen[h].temp.file # gen[g].temp.file
        BY <1>2, <3>1 DEF FilesApart
      <3> QED BY <1>1, <2>1, <3>1, <3>2 DEF FilesApart
    <2>5. ASSUME NEW h \in Generators, NEW k \in Generators, Holds(h)', Holds(k)', h # k
          PROVE  gen'[h].temp.file # gen'[k].temp.file
      BY <2>2, <2>5 DEF FilesApart, SameHolders
    <2>6. dir'.POTCAR.file < made'
      BY <1>1, <1>2, <2>1
    <2> QED BY <1>1, <2>1, <2>2, <2>3, <2>4, <2>5, <2>6, TempsKept DEF FilesApart
  <1>4. CASE dir.POTCAR # Missing
    <2>1. dir'.POTCAR = dir.POTCAR /\ temps' = temps \ {gen[g].temp.file}
      BY <1>2, <1>4, LinkDir
    <2>2. ~Holds(g)' /\ gen'[g].pc # "unlink"
      BY <1>1, <1>4 DEF Holds
    <2> QED BY <1>1, <1>2, <2>1, <2>2, GivenUp, GivenUpFiles
  <1> QED BY <1>3, <1>4

\* SameFile finds its own file under the name POTCAR, or another one.
LEMMA SameFileFiles ==
    ASSUME CalculationTypeOK, FilesApart, TempsHeld, NEW g \in Generators, SameFile(g)
    PROVE  FilesApart' /\ TempsHeld'
  <1>1. PICK step \in {"unlink", "discard"} :
          /\ GoTo(g, step)
          /\ step = "unlink" => dir.POTCAR # Missing /\ dir.POTCAR.file = gen[g].temp.file
    BY DEF SameFile
  <1>2. /\ gen[g].pc = "samefile" /\ gen'[g].pc = step /\ gen'[g].temp = gen[g].temp
        /\ \A h \in Generators : h # g => gen'[h] = gen[h]
        /\ dir' = dir /\ temps' = temps /\ faults' = faults /\ made' = made
    BY <1>1, SetStep DEF SameFile, At, Steps, CalculationTypeOK
  <1>3. Holds(g) /\ Holds(g)'
    BY <1>2 DEF Holds
  <1>4. ASSUME NEW h \in Generators
        PROVE  (Holds(h)' <=> Holds(h)) /\ gen'[h].temp = gen[h].temp
    <2>1. CASE h = g
      BY <1>2, <1>3, <2>1
    <2>2. CASE h # g
      BY <1>2, <2>2 DEF Holds
    <2> QED BY <2>1, <2>2
  <1>5. ASSUME NEW h \in Generators, gen'[h].pc = "unlink"
        PROVE  dir.POTCAR # Missing /\ dir.POTCAR = gen'[h].temp
    <2>1. CASE h = g
      BY <1>1, <1>2, <1>3, <1>5, <2>1 DEF FilesApart
    <2>2. CASE h # g
      BY <1>2, <1>5, <2>2 DEF FilesApart
    <2> QED BY <2>1, <2>2
  <1>6. ASSUME NEW h \in Generators, Holds(h)'
        PROVE  /\ gen'[h].temp \in Potcars /\ gen'[h].temp.by = h /\ gen'[h].temp.file < made'
               /\ dir'.POTCAR # Missing /\ dir'.POTCAR.file = gen'[h].temp.file => dir'.POTCAR = gen'[h].temp
    BY <1>2, <1>4, <1>6 DEF FilesApart
  <1>7. ASSUME NEW h \in Generators, NEW k \in Generators, Holds(h)', Holds(k)', h # k
        PROVE  gen'[h].temp.file # gen'[k].temp.file
    BY <1>4, <1>7 DEF FilesApart
  <1>8. dir'.POTCAR # Missing => dir'.POTCAR.file < made'
    BY <1>2 DEF FilesApart
  <1>9. FilesApart'
    BY <1>2, <1>5, <1>6, <1>7, <1>8 DEF FilesApart
  <1>10. TempsHeld'
    <2>1. SUFFICES ASSUME faults = 0
                   PROVE  temps = {gen'[h].temp.file : h \in {k \in Generators : Holds(k)'}}
      BY <1>2 DEF TempsHeld
    <2>2. temps = {gen[h].temp.file : h \in {k \in Generators : Holds(k)}}
      BY <2>1 DEF TempsHeld
    <2>3. {k \in Generators : Holds(k)'} = {k \in Generators : Holds(k)}
      BY <1>4
    <2> QED BY <1>4, <2>2, <2>3
  <1> QED BY <1>9, <1>10

\* Unlink takes the generation's own file, so no other was about to.
LEMMA UnlinkFiles ==
    ASSUME CalculationTypeOK, FilesApart, TempsHeld, NEW g \in Generators, Unlink(g)
    PROVE  FilesApart' /\ TempsHeld'
  <1>1. /\ gen[g].pc = "unlink" /\ gen'[g].pc = "discard" /\ gen'[g].temp = gen[g].temp
        /\ \A h \in Generators : h # g => gen'[h] = gen[h]
        /\ temps' = temps /\ faults' = faults /\ made' = made
    BY SetStep DEF Unlink, At, Steps, CalculationTypeOK
  <1>2. dir'.POTCAR = Missing
    BY SetPotcar DEF Unlink, CalculationTypeOK
  <1>3. SameHolders
    <2>1. Holds(g)' /\ Holds(g) /\ gen'[g].pc # "unlink"
      BY <1>1 DEF Holds
    <2> QED BY <1>1, <2>1, OneHolder
  <1>4. \A h \in Generators : gen[h].pc = "unlink" => h = g
    <2> SUFFICES ASSUME NEW h \in Generators, gen[h].pc = "unlink" PROVE h = g
      OBVIOUS
    <2>1. dir.POTCAR = gen[h].temp /\ dir.POTCAR = gen[g].temp
      BY <1>1 DEF FilesApart
    <2>2. gen[h].temp.by = h /\ gen[g].temp.by = g
      BY <1>1 DEF FilesApart, Holds
    <2> QED BY <2>1, <2>2
  <1>5. \A h \in Generators : gen'[h].pc # "unlink"
    BY <1>1, <1>3, <1>4 DEF SameHolders
  <1>6. FilesApart'
    BY <1>1, <1>2, <1>3, <1>5, RemoveFiles DEF SameHolders
  <1> QED BY <1>1, <1>3, <1>6, TempsKept

\* Compare leads from a check of a temporary file to a step that holds it.
LEMMA CompareHolds ==
    ASSUME CalculationTypeOK, NEW g \in Generators, Compare(g)
    PROVE  SameHolders
  <1>1. /\ gen[g].pc = "compare" /\ gen[g].checks \in Checks /\ gen'[g].checks = gen[g].checks
        /\ gen'[g].pc \in {Passed[gen[g].checks], Failed[gen[g].checks]}
        /\ gen'[g].temp = gen[g].temp
        /\ \A h \in Generators : h # g => gen'[h] = gen[h]
    BY CompareStep DEF Compare, At
  <1>2. (Holds(g)' <=> Holds(g)) /\ gen'[g].pc # "unlink"
    BY <1>1 DEF Holds, Checks, Passed, Failed
  <1> QED BY <1>1, <1>2, OneHolder

\* The steps of a generation that neither take nor give up a file.
LEMMA QuietSteps ==
    ASSUME CalculationTypeOK, NEW g \in Generators,
           \/ WritePoscar(g) \/ ReadSpecies(g) \/ Find(g) \/ Choose(g) \/ StageFails(g)
           \/ ReadOrder(g) \/ Compare(g) \/ Fail(g) \/ WriteIncar(g) \/ WriteKpoints(g) \/ Register(g)
    PROVE  /\ SameHolders
           /\ dir'.POTCAR = dir.POTCAR
           /\ UNCHANGED <<temps, faults, made>>
  <1>0. DirOK /\ GenOK
    BY DEF CalculationTypeOK
  <1>1. CASE WritePoscar(g)
    <2>1. /\ gen[g] \in Run /\ gen[g].pc = "poscar" /\ gen'[g].pc = "species"
          /\ \A h \in Generators : h # g => gen'[h] = gen[h]
      BY <1>0, <1>1, SetStep DEF WritePoscar, At, Steps
    <2>2. gen[g].structure.poscar \in Poscars
      BY <2>1 DEF Run, Versions, Poscars
    <2>3. dir'.POTCAR = dir.POTCAR
      BY <1>0, <1>1, <2>2, SetPoscar DEF WritePoscar
    <2>4. ~Holds(g) /\ ~Holds(g)'
      BY <2>1 DEF Holds
    <2> QED BY <1>1, <2>1, <2>3, <2>4, OneHolder DEF WritePoscar
  <1>2. CASE ReadSpecies(g)
    <2>1. /\ gen[g].pc = "species" /\ gen'[g].pc = "look"
          /\ \A h \in Generators : h # g => gen'[h] = gen[h]
      BY <1>2, ReadSpeciesStep DEF ReadSpecies, At
    <2>2. ~Holds(g) /\ ~Holds(g)'
      BY <2>1 DEF Holds
    <2> QED BY <1>2, <2>1, <2>2, OneHolder DEF ReadSpecies
  <1>3. CASE Find(g)
    <2>1. /\ gen[g].pc = "look" /\ gen'[g].pc \in {"order", "fail"} /\ gen'[g].checks = "existing"
          /\ \A h \in Generators : h # g => gen'[h] = gen[h]
      BY <1>3, FindStep DEF Find, At
    <2>2. ~Holds(g) /\ ~Holds(g)'
      BY <2>1 DEF Holds
    <2> QED BY <1>3, <2>1, <2>2, OneHolder DEF Find
  <1>4. CASE Choose(g)
    <2>1. /\ gen[g].pc = "look" /\ gen'[g].pc \in {"fail", "incar", "stage"}
          /\ \A h \in Generators : h # g => gen'[h] = gen[h]
      BY <1>4, ChooseStep DEF Choose, At
    <2>2. ~Holds(g) /\ ~Holds(g)'
      BY <2>1 DEF Holds
    <2> QED BY <1>4, <2>1, <2>2, OneHolder DEF Choose
  <1>5. CASE StageFails(g)
    <2>1. /\ gen[g].pc = "stage" /\ gen'[g].pc = "fail"
          /\ \A h \in Generators : h # g => gen'[h] = gen[h]
      BY <1>0, <1>5, SetStep DEF StageFails, At, Steps
    <2>2. ~Holds(g) /\ ~Holds(g)'
      BY <2>1 DEF Holds
    <2> QED BY <1>5, <2>1, <2>2, OneHolder DEF StageFails
  <1>6. CASE ReadOrder(g)
    <2>1. /\ gen[g].pc = "order" /\ gen'[g].pc = "compare"
          /\ gen'[g].checks = gen[g].checks /\ gen'[g].temp = gen[g].temp
          /\ \A h \in Generators : h # g => gen'[h] = gen[h]
      BY <1>6, ReadOrderStep DEF ReadOrder, At
    <2>2. Holds(g)' <=> Holds(g)
      BY <2>1 DEF Holds
    <2> QED BY <1>6, <2>1, <2>2, OneHolder DEF ReadOrder
  <1>7. CASE Compare(g)
    BY <1>7, CompareHolds DEF Compare
  <1>8. CASE Fail(g)
    <2>1. /\ gen[g].pc = "fail" /\ gen'[g].pc = "idle"
          /\ \A h \in Generators : h # g => gen'[h] = gen[h]
      BY <1>0, <1>8, SetIdle DEF Fail, At
    <2>2. ~Holds(g) /\ ~Holds(g)'
      BY <2>1 DEF Holds
    <2> QED BY <1>8, <2>1, <2>2, OneHolder DEF Fail
  <1>9. CASE WriteIncar(g)
    <2>1. /\ gen[g].pc = "incar" /\ gen'[g].pc \in {"fail", "kpoints"}
          /\ dir'.POTCAR = dir.POTCAR
          /\ \A h \in Generators : h # g => gen'[h] = gen[h]
      <3>1. gen[g].pc = "incar" /\ (GoTo(g, "fail") \/ GoTo(g, "kpoints"))
        BY <1>9 DEF WriteIncar, At
      <3> QED BY <1>0, <1>9, <3>1, IncarDir, SetStep DEF Steps
    <2>2. ~Holds(g) /\ ~Holds(g)'
      BY <2>1 DEF Holds
    <2> QED BY <1>9, <2>1, <2>2, OneHolder DEF WriteIncar
  <1>10. CASE WriteKpoints(g)
    <2>1. /\ gen[g].pc = "kpoints" /\ gen'[g].pc = "register"
          /\ \A h \in Generators : h # g => gen'[h] = gen[h]
      BY <1>0, <1>10, SetStep DEF WriteKpoints, At, Steps
    <2>2. ~Holds(g) /\ ~Holds(g)'
      BY <2>1 DEF Holds
    <2>3. dir'.POTCAR = dir.POTCAR
      BY <1>0, <1>10, SetKpoints DEF WriteKpoints
    <2> QED BY <1>10, <2>1, <2>2, <2>3, OneHolder DEF WriteKpoints
  <1>11. CASE Register(g)
    <2>1. /\ gen[g].pc = "register" /\ gen'[g].pc = "idle"
          /\ \A h \in Generators : h # g => gen'[h] = gen[h]
      BY <1>0, <1>11, SetIdle DEF Register, At
    <2>2. ~Holds(g) /\ ~Holds(g)'
      BY <2>1 DEF Holds
    <2> QED BY <1>11, <2>1, <2>2, OneHolder DEF Register
  <1> QED BY <1>1, <1>2, <1>3, <1>4, <1>5, <1>6, <1>7, <1>8, <1>9, <1>10, <1>11

\* No step breaks the invariant.
LEMMA NextInv == Inv /\ [CalcNext]_calcVars => Inv'
  <1> SUFFICES ASSUME Inv, [CalcNext]_calcVars PROVE FilesApart' /\ TempsHeld'
    BY NextType DEF Inv
  <1>0. CalculationTypeOK /\ FilesApart /\ TempsHeld /\ DirOK /\ GenOK
    BY DEF Inv, CalculationTypeOK
  <1>1. ASSUME SameHolders, dir'.POTCAR = dir.POTCAR, UNCHANGED <<temps, faults, made>>
        PROVE  FilesApart' /\ TempsHeld'
    BY <1>0, <1>1, FilesKept, TempsKept
  <1>2. ASSUME NEW s \in Structures, Remodel(s) PROVE FilesApart' /\ TempsHeld'
    BY <1>1, <1>2, GenKept DEF Remodel
  <1>3. ASSUME NEW s \in Structures, NEW t \in Texts, PlaceInputs(s, t) PROVE FilesApart' /\ TempsHeld'
    <2>1. dir'.POTCAR = dir.POTCAR
      BY <1>0, <1>3, SetInputs DEF PlaceInputs, Poscars
    <2> QED BY <1>1, <1>3, <2>1, GenKept DEF PlaceInputs
  <1>4. ASSUME NEW p \in UserPotcars, PlacePotcar(p) PROVE FilesApart' /\ TempsHeld'
    BY <1>0, <1>4, PlaceFiles, GenKept, TempsKept DEF PlacePotcar
  <1>5. CASE RemovePotcar
    <2>1. dir'.POTCAR = Missing
      BY <1>0, <1>5, SetPotcar DEF RemovePotcar
    <2>2. SameHolders /\ UNCHANGED <<gen, temps, faults, made>> /\ \A g \in Generators : gen[g].pc # "unlink"
      BY <1>5, GenKept DEF RemovePotcar
    <2> QED BY <1>0, <2>1, <2>2, RemoveFiles, TempsKept DEF SameHolders
  <1>6. ASSUME NEW r \in Requests, Direct(r) PROVE FilesApart' /\ TempsHeld'
    BY <1>1, <1>6, GenKept DEF Direct
  <1>7. ASSUME NEW r \in Requests, NEW g \in Generators, Begin(g, r) PROVE FilesApart' /\ TempsHeld'
    <2>1. /\ gen[g].pc = "idle" /\ gen'[g].pc = "poscar"
          /\ \A h \in Generators : h # g => gen'[h] = gen[h]
      BY <1>0, <1>7, BeginStep
    <2>2. ~Holds(g) /\ ~Holds(g)'
      BY <2>1 DEF Holds
    <2> QED BY <1>1, <1>7, <2>1, <2>2, OneHolder DEF Begin
  <1>8. ASSUME NEW r \in PlanRequests, BeginPlan(r) PROVE FilesApart' /\ TempsHeld'
    BY <1>1, <1>8, GenKept DEF BeginPlan
  <1>9. CASE FinishPlan
    BY <1>1, <1>9, GenKept DEF FinishPlan
  <1>10. CASE UNCHANGED calcVars
    BY <1>1, <1>10, GenKept DEF calcVars
  <1>11. ASSUME NEW g \in Generators, Discard(g) PROVE FilesApart' /\ TempsHeld'
    <2>1. /\ gen[g].pc = "discard" /\ gen'[g].pc \in {"incar", "fail"}
          /\ \A h \in Generators : h # g => gen'[h] = gen[h]
          /\ temps' = temps \ {gen[g].temp.file} /\ UNCHANGED <<dir, faults, made>>
      BY <1>0, <1>11, SetStep DEF Discard, At, Steps
    <2>2. Holds(g) /\ ~Holds(g)'
      BY <2>1 DEF Holds
    <2> QED BY <1>0, <2>1, <2>2, GivenUp, GivenUpFiles
  <1>12. ASSUME NEW g \in Generators, Crash(g) PROVE FilesApart' /\ TempsHeld'
    <2>1. /\ gen'[g].pc = "idle" /\ UNCHANGED <<dir, made>>
          /\ \A h \in Generators : h # g => gen'[h] = gen[h]
      BY <1>0, <1>12, SetIdle DEF Crash
    <2>2. ~Holds(g)' /\ gen'[g].pc # "unlink"
      BY <2>1 DEF Holds
    <2>3. FilesApart'
      BY <1>0, <2>1, <2>2, GivenUpFiles
    <2>4. faults' # 0
      BY <1>0, <1>12 DEF Crash, CalculationTypeOK, RestOK
    <2> QED BY <2>3, <2>4 DEF TempsHeld
  <1> QED BY <1>0, <1>1, <1>2, <1>3, <1>4, <1>5, <1>6, <1>7, <1>8, <1>9, <1>10, <1>11, <1>12,
             QuietSteps, StageFiles, LinkFiles, SameFileFiles, UnlinkFiles DEF CalcNext

\* The initial state satisfies the invariant.
LEMMA InitInv == CalcInit => Inv
  <1> SUFFICES ASSUME CalcInit PROVE Inv
    OBVIOUS
  <1>1. gen = [g \in Generators |-> Idle] /\ \A g \in Generators : gen[g].pc = "idle"
    BY DEF CalcInit, Idle
  <1>2. GenOK
    BY <1>1 DEF GenOK
  <1>3. DirOK
    BY DEF CalcInit, DirOK, Poscars
  <1>4. RestOK
    BY DEF CalcInit, RestOK
  <1>5. \A g \in Generators : ~Holds(g) /\ gen[g].pc # "unlink"
    BY <1>1 DEF Holds
  <1>6. dir.POTCAR = Missing /\ temps = {}
    BY DEF CalcInit
  <1>7. FilesApart
    BY <1>5, <1>6 DEF FilesApart
  <1>8. TempsHeld
    BY <1>5, <1>6 DEF TempsHeld
  <1> QED BY <1>2, <1>3, <1>4, <1>7, <1>8 DEF Inv, CalculationTypeOK

\* Every variable keeps its type in every behaviour.
THEOREM CalcTypeOK == CalcSpec => []CalculationTypeOK
  <1>1. Inv => CalculationTypeOK
    BY DEF Inv
  <1> QED BY <1>1, InitInv, NextInv, PTL DEF CalcSpec

\* generate_potcar: once no generation runs and none was cut off, no temporary
\* copy of a POTCAR is left, whichever of the two names another session, the
\* user or a failing check took away in between.
THEOREM CalcNoTempLeft == CalcSpec => []NoTempLeft
  <1>1. Inv => NoTempLeft
    <2> SUFFICES ASSUME Inv, Quiet, faults = 0 PROVE temps = {}
      BY DEF NoTempLeft
    <2>1. {h \in Generators : Holds(h)} = {}
      BY DEF Quiet, Holds
    <2>2. temps = {gen[g].temp.file : g \in {h \in Generators : Holds(h)}}
      BY DEF Inv, TempsHeld
    <2> QED BY <2>1, <2>2
  <1> QED BY <1>1, InitInv, NextInv, PTL DEF CalcSpec

\* A step of a generation changes POTCAR only by giving the name to a file of
\* its own, or by taking that very file away.
LEMMA OwnPotcar ==
    ASSUME Inv, [CalcNext]_calcVars, NEW g \in Generators, gen[g].pc # "idle", gen'[g] # gen[g],
           dir.POTCAR # Missing
    PROVE  dir'.POTCAR = dir.POTCAR \/ dir.POTCAR.by = g
  <1>0. CalculationTypeOK /\ FilesApart /\ DirOK /\ GenOK
    BY DEF Inv, CalculationTypeOK
  <1>1. ~UNCHANGED gen
    OBVIOUS
  <1>2. \/ \E r \in Requests, h \in Generators : Begin(h, r)
        \/ \E h \in Generators :
              \/ WritePoscar(h) \/ ReadSpecies(h) \/ Find(h) \/ Choose(h) \/ StageFails(h)
              \/ ReadOrder(h) \/ Compare(h) \/ Fail(h) \/ WriteIncar(h) \/ WriteKpoints(h) \/ Register(h)
        \/ \E h \in Generators : Stage(h) \/ SameFile(h) \/ Discard(h) \/ Crash(h)
        \/ \E h \in Generators : Link(h)
        \/ \E h \in Generators : Unlink(h)
    BY <1>1 DEF CalcNext, calcVars, Remodel, PlaceInputs, PlacePotcar, RemovePotcar, Direct,
                BeginPlan, FinishPlan
  <1>3. ASSUME NEW h \in Generators, Link(h) PROVE dir'.POTCAR = dir.POTCAR
    BY <1>3 DEF Link
  <1>4. ASSUME NEW h \in Generators, Unlink(h) PROVE dir.POTCAR.by = g
    <2>1. gen[h].pc = "unlink" /\ \A k \in Generators : k # h => gen'[k] = gen[k]
      BY <1>0, <1>4, SetStep DEF Unlink, At, Steps
    <2>2. h = g
      BY <2>1
    <2> QED BY <1>0, <2>1, <2>2 DEF FilesApart, Holds
  <1> QED BY <1>0, <1>2, <1>3, <1>4, QuietSteps DEF Begin, Stage, SameFile, Discard, Crash

\* generate_potcar never overwrites a POTCAR, and takes one away only if it
\* linked that very file in the same call, whoever else generates into the
\* directory and whatever the user places there.
THEOREM CalcOthersPotcarKept == CalcSpec => OthersPotcarKept
  <1>1. Inv /\ [CalcNext]_calcVars =>
          [\A g \in Generators :
              (gen[g].pc # "idle" /\ gen'[g] # gen[g] /\ dir.POTCAR # Missing)
                 => (dir'.POTCAR = dir.POTCAR \/ dir.POTCAR.by = g)]_calcVars
    BY OwnPotcar
  <1> QED BY <1>1, InitInv, NextInv, PTL DEF CalcSpec, OthersPotcarKept

-----------------------------------------------------------------------------
(* Sessions that follow each other.                                        *)

PotcarAgrees ==
    (dir.POTCAR # Missing /\ dir.POTCAR.by # "user")
        => PotcarElements(dir.POTCAR.content) = structure.poscar.species

Current == structure # None /\ manifest # None /\ manifest.version = structure.version

\* One generation runs at a time, on the registered structure.
OneAtATime ==
    \A g \in Generators : gen[g].pc # "idle" =>
        /\ structure # None /\ gen[g].structure = structure
        /\ \A h \in Generators : gen[h].pc # "idle" => h = g

\* What is in the directory at each step of it.
StepAgrees(g) ==
    /\ gen[g].pc \notin {"idle", "poscar"} => dir.POSCAR = structure.poscar
    /\ gen[g].pc = "compare" => gen[g].seen = structure.poscar
    /\ \/ gen[g].pc \in {"stage", "link", "samefile", "unlink", "discard", "incar", "kpoints", "register"}
       \/ gen[g].pc \in {"order", "compare"} /\ gen[g].checks # "existing"
       => PotcarAgrees
    /\ gen[g].pc = "link" => PotcarElements(gen[g].temp.content) = structure.poscar.species
    /\ gen[g].pc \in {"kpoints", "register"} => dir.INCAR.version = structure.version

\* A manifest is of the current structure or of an earlier one; that of the
\* current one is of what is in the directory.
CurrentAgrees ==
    /\ manifest # None => /\ manifest.version \in Nat
                          /\ structure = None => manifest.version = 0
                          /\ structure # None => manifest.version <= structure.version
    /\ structure # None => structure.version > 0
    /\ Current => /\ dir.POSCAR = structure.poscar
                  /\ dir.INCAR.version = structure.version
                  /\ PotcarAgrees

Agreement == OneAtATime /\ (\A g \in Generators : StepAgrees(g)) /\ CurrentAgrees

SessionInv == Inv /\ (sessions = 1 => Agreement)

\* A generation that runs is the only one that can break what is said of the
\* steps.
LEMMA OneStep ==
    ASSUME Agreement, NEW g \in Generators, gen[g].pc # "idle", structure' = structure,
           \A h \in Generators : h # g => gen'[h] = gen[h],
           gen'[g].pc # "idle" => gen'[g].structure = gen[g].structure,
           StepAgrees(g)', CurrentAgrees'
    PROVE  Agreement'
  <1>1. \A h \in Generators : h # g => gen[h].pc = "idle" /\ gen'[h].pc = "idle"
    BY DEF Agreement, OneAtATime
  <1>2. structure # None /\ gen[g].structure = structure
    BY DEF Agreement, OneAtATime
  <1>3. OneAtATime'
    BY <1>1, <1>2 DEF OneAtATime
  <1>4. ASSUME NEW h \in Generators, h # g PROVE StepAgrees(h)'
    BY <1>1, <1>4 DEF StepAgrees
  <1>5. \A h \in Generators : StepAgrees(h)'
    BY <1>4
  <1> QED BY <1>3, <1>5 DEF Agreement

\* A step that brings the files to the current structure keeps the manifest
\* in agreement with them.
LEMMA CurrentKept ==
    ASSUME CurrentAgrees, structure' = structure, manifest' = manifest,
           dir'.POSCAR = dir.POSCAR \/ dir'.POSCAR = structure.poscar,
           dir'.INCAR = dir.INCAR \/ dir'.INCAR.version = structure.version,
           PotcarAgrees => PotcarAgrees'
    PROVE  CurrentAgrees'
  BY DEF CurrentAgrees, Current

\* A POTCAR that passes a check has the elements of POSCAR.
LEMMA ValidElements ==
    ASSUME NEW poscar, NEW file, NEW expected, PotcarValid(poscar, Datasets(file), expected)
    PROVE  file # Missing /\ PotcarElements(file.content) = poscar.species
  BY DEF PotcarValid, PotcarReason, Datasets

\* What the user and the stages before and behind do to a directory.
LEMMA OtherSteps ==
    ASSUME CalculationTypeOK, Agreement, UNCHANGED <<gen, structure, manifest>>,
           \/ UNCHANGED dir
           \/ \E p \in UserPotcars : PlacePotcar(p)
           \/ RemovePotcar
    PROVE  Agreement'
  <1>1. /\ dir'.POSCAR = dir.POSCAR /\ dir'.INCAR = dir.INCAR
        /\ dir'.POTCAR = dir.POTCAR \/ dir'.POTCAR = Missing \/ dir'.POTCAR.by = "user"
    <2>1. ASSUME NEW p \in UserPotcars, PlacePotcar(p)
          PROVE  dir'.POSCAR = dir.POSCAR /\ dir'.INCAR = dir.INCAR /\ dir'.POTCAR.by = "user"
      <3>1. [file |-> made, by |-> "user", content |-> p] \in Potcars
        BY DEF Potcars, CalculationTypeOK, RestOK
      <3>2. dir' = [dir EXCEPT !.POTCAR = [file |-> made, by |-> "user", content |-> p]]
        BY <2>1 DEF PlacePotcar
      <3>3. dir'.POTCAR = [file |-> made, by |-> "user", content |-> p]
            /\ dir'.POSCAR = dir.POSCAR /\ dir'.INCAR = dir.INCAR
        BY <3>1, <3>2, SetPotcar DEF CalculationTypeOK
      <3> QED BY <3>3
    <2>2. CASE RemovePotcar
      BY <2>2, SetPotcar DEF RemovePotcar, CalculationTypeOK
    <2> QED BY <2>1, <2>2
  <1>2. PotcarAgrees => PotcarAgrees'
    BY <1>1 DEF PotcarAgrees
  <1>3. CurrentAgrees'
    BY <1>1, <1>2, CurrentKept DEF Agreement
  <1>4. OneAtATime'
    BY DEF Agreement, OneAtATime
  <1>5. ASSUME NEW g \in Generators PROVE StepAgrees(g)'
    BY <1>1, <1>2 DEF Agreement, StepAgrees
  <1> QED BY <1>3, <1>4, <1>5 DEF Agreement

\* A new structure has no manifest yet.
LEMMA RemodelStep ==
    ASSUME CalculationTypeOK, Agreement, sessions = 1, NEW s \in Structures, Remodel(s)
    PROVE  Agreement'
  <1>1. /\ Quiet /\ UNCHANGED <<gen, manifest, dir>>
        /\ structure' = [version |-> IF structure = None THEN 1 ELSE structure.version + 1, poscar  |-> s]
    BY DEF Remodel
  <1>2. structure # None => structure.version \in Nat
    BY DEF CalculationTypeOK, RestOK, Versions
  <1>3. structure' # None
    BY <1>1, <1>2, NoneAssumption
  <1>4. /\ structure'.version > 0
        /\ manifest # None => manifest.version \in Nat /\ manifest.version < structure'.version
    BY <1>1, <1>2 DEF Agreement, CurrentAgrees
  <1>5. CurrentAgrees'
    BY <1>1, <1>2, <1>3, <1>4 DEF CurrentAgrees, Current
  <1>6. OneAtATime' /\ \A g \in Generators : StepAgrees(g)'
    BY <1>1 DEF OneAtATime, StepAgrees, Quiet
  <1> QED BY <1>5, <1>6 DEF Agreement

\* Without a structure nothing runs and no manifest is current.
LEMMA NoStructure ==
    ASSUME Agreement, structure = None, UNCHANGED <<gen, structure>>,
           \/ UNCHANGED manifest
           \/ manifest'.version = 0
    PROVE  Agreement'
  <1>1. \A g \in Generators : gen'[g].pc = "idle"
    BY DEF Agreement, OneAtATime
  <1>2. OneAtATime' /\ \A g \in Generators : StepAgrees(g)'
    BY <1>1 DEF OneAtATime, StepAgrees
  <1>3. CurrentAgrees'
    BY DEF Agreement, CurrentAgrees, Current
  <1> QED BY <1>2, <1>3 DEF Agreement

\* A generation begins on the registered structure, when no other one runs.
LEMMA BeginAgrees ==
    ASSUME CalculationTypeOK, Agreement, sessions = 1, NEW g \in Generators, NEW r \in Requests, Begin(g, r)
    PROVE  Agreement'
  <1>1. /\ Quiet /\ structure # None /\ UNCHANGED <<structure, manifest, dir>>
        /\ gen'[g].pc = "poscar" /\ gen'[g].structure = structure
        /\ \A h \in Generators : h # g => gen'[h] = gen[h]
    BY BeginStep DEF Begin
  <1>2. \A h \in Generators : h # g => gen'[h].pc = "idle"
    BY <1>1 DEF Quiet
  <1>3. OneAtATime'
    BY <1>1, <1>2 DEF OneAtATime
  <1>4. \A h \in Generators : gen'[h].pc \in {"idle", "poscar"}
    BY <1>1, <1>2
  <1>5. \A h \in Generators : StepAgrees(h)'
    BY <1>4 DEF StepAgrees
  <1>6. CurrentAgrees'
    BY <1>1, CurrentKept DEF Agreement, PotcarAgrees
  <1> QED BY <1>3, <1>5, <1>6 DEF Agreement

\* POSCAR is written and its species are read.
LEMMA WritePoscarAgrees ==
    ASSUME CalculationTypeOK, Agreement, NEW g \in Generators, WritePoscar(g)
    PROVE  Agreement'
  <1>1. /\ gen[g] \in Run /\ gen[g].pc = "poscar" /\ gen'[g].pc = "species"
        /\ gen'[g].structure = gen[g].structure
        /\ \A h \in Generators : h # g => gen'[h] = gen[h]
        /\ UNCHANGED <<structure, manifest>>
    BY SetStep DEF WritePoscar, At, Steps, CalculationTypeOK
  <1>2. gen[g].structure.poscar \in Poscars /\ gen[g].structure = structure
    BY <1>1 DEF Run, Versions, Poscars, Agreement, OneAtATime
  <1>3. dir'.POSCAR = structure.poscar /\ dir'.POTCAR = dir.POTCAR /\ dir'.INCAR = dir.INCAR
    BY <1>2, SetPoscar DEF WritePoscar, CalculationTypeOK
  <1>4. StepAgrees(g)'
    BY <1>1, <1>3 DEF StepAgrees
  <1>5. CurrentAgrees'
    BY <1>1, <1>3, CurrentKept DEF Agreement, PotcarAgrees
  <1> QED BY <1>1, <1>4, <1>5, OneStep

\* The steps of a generation that leave the directory and the manifest alone.
LEMMA LookingAgrees ==
    ASSUME CalculationTypeOK, Agreement, NEW g \in Generators,
           \/ ReadSpecies(g) \/ Find(g) \/ Choose(g) \/ Stage(g) \/ StageFails(g) \/ ReadOrder(g)
           \/ Compare(g) \/ SameFile(g) \/ Discard(g)
    PROVE  Agreement'
  <1>1. GenOK /\ StepAgrees(g)
    BY DEF CalculationTypeOK, Agreement
  <1>2. UNCHANGED <<structure, manifest, dir>>
    BY DEF ReadSpecies, Find, Choose, Stage, StageFails, ReadOrder, Compare, SameFile, Discard
  <1>3. CurrentAgrees' /\ (PotcarAgrees' <=> PotcarAgrees)
    BY <1>2, CurrentKept DEF Agreement, PotcarAgrees
  <1>4. CASE ReadSpecies(g)
    <2>1. gen[g].pc = "species" /\ gen'[g].pc = "look"
      BY <1>4, ReadSpeciesStep DEF ReadSpecies, At
    <2>2. StepAgrees(g)'
      BY <1>1, <1>2, <2>1 DEF StepAgrees
    <2> QED BY <1>2, <1>3, <1>4, <2>1, <2>2, OneStep, ReadSpeciesStep
  <1>5. CASE Find(g)
    <2>1. gen[g].pc = "look" /\ gen'[g].pc \in {"order", "fail"} /\ gen'[g].checks = "existing"
      BY <1>5, FindStep DEF Find, At
    <2>2. StepAgrees(g)'
      BY <1>1, <1>2, <2>1 DEF StepAgrees
    <2> QED BY <1>2, <1>3, <1>5, <2>1, <2>2, OneStep, FindStep
  <1>6. CASE Choose(g)
    <2>1. gen[g].pc = "look" /\ gen'[g].pc \in {"fail", "incar", "stage"} /\ dir.POTCAR = Missing
      BY <1>6, ChooseStep DEF Choose, At
    <2>2. PotcarAgrees
      BY <2>1 DEF PotcarAgrees
    <2>3. StepAgrees(g)'
      BY <1>1, <1>2, <1>3, <2>1, <2>2 DEF StepAgrees
    <2> QED BY <1>2, <1>3, <1>6, <2>1, <2>3, OneStep, ChooseStep
  <1>7. CASE Stage(g)
    <2>1. gen[g].pc = "stage" /\ gen'[g].pc = "order"
      BY <1>7, StageStep DEF Stage, At
    <2>2. StepAgrees(g)'
      BY <1>1, <1>2, <1>3, <2>1 DEF StepAgrees
    <2> QED BY <1>2, <1>3, <1>7, <2>1, <2>2, OneStep, StageStep
  <1>8. CASE StageFails(g)
    <2>1. /\ gen[g].pc = "stage" /\ gen'[g].pc = "fail" /\ gen'[g].structure = gen[g].structure
          /\ \A h \in Generators : h # g => gen'[h] = gen[h]
      BY <1>1, <1>8, SetStep DEF StageFails, At, Steps
    <2>2. StepAgrees(g)'
      BY <1>1, <1>2, <2>1 DEF StepAgrees
    <2> QED BY <1>2, <1>3, <2>1, <2>2, OneStep
  <1>9. CASE ReadOrder(g)
    <2>1. /\ gen[g].pc = "order" /\ gen'[g].pc = "compare" /\ gen'[g].seen = dir.POSCAR
          /\ gen'[g].checks = gen[g].checks
      BY <1>9, ReadOrderStep DEF ReadOrder, At
    <2>2. StepAgrees(g)'
      BY <1>1, <1>2, <1>3, <2>1 DEF StepAgrees
    <2> QED BY <1>2, <1>3, <1>9, <2>1, <2>2, OneStep, ReadOrderStep
  <1>10. CASE Compare(g)
    <2>1. gen[g].pc = "compare" /\ gen[g].checks \in Checks /\ gen'[g].temp = gen[g].temp
      BY <1>10, CompareStep DEF Compare, At
    <2>2. dir.POSCAR = structure.poscar /\ gen[g].seen = structure.poscar
      BY <1>1, <2>1 DEF StepAgrees
    <2>3. gen[g].checks # "existing" => PotcarAgrees
      BY <1>1, <2>1 DEF StepAgrees
    <2>4. CASE PotcarValid(gen[g].seen, Checked(g), gen[g].expected)
      <3>1. gen'[g].pc = Passed[gen[g].checks]
        BY <1>10, <2>4, CompareStep
      <3>2. ASSUME gen[g].checks = "temporary" PROVE StepAgrees(g)' /\ gen'[g].pc = "link"
        <4>1. PotcarElements(gen[g].temp.content) = structure.poscar.species
          BY <2>2, <2>4, <3>2, ValidElements DEF Checked
        <4>2. gen'[g].pc = "link"
          BY <3>1, <3>2 DEF Passed
        <4> QED BY <1>2, <1>3, <2>1, <2>2, <2>3, <3>2, <4>1, <4>2 DEF StepAgrees
      <3>3. ASSUME gen[g].checks = "existing" PROVE StepAgrees(g)' /\ gen'[g].pc = "incar"
        <4>1. PotcarElements(dir.POTCAR.content) = structure.poscar.species
          BY <2>2, <2>4, <3>3, ValidElements DEF Checked
        <4>2. gen'[g].pc = "incar" /\ PotcarAgrees
          BY <3>1, <3>3, <4>1 DEF Passed, PotcarAgrees
        <4> QED BY <1>2, <1>3, <2>2, <4>2 DEF StepAgrees
      <3>4. ASSUME gen[g].checks \in {"other", "final"}
            PROVE  StepAgrees(g)' /\ gen'[g].pc \in {"incar", "discard"}
        <4>1. gen'[g].pc \in {"incar", "discard"} /\ PotcarAgrees
          BY <2>3, <3>1, <3>4 DEF Passed
        <4> QED BY <1>2, <1>3, <2>2, <4>1 DEF StepAgrees
      <3>5. StepAgrees(g)' /\ gen'[g].pc # "idle"
        BY <2>1, <3>2, <3>3, <3>4 DEF Checks
      <3> QED BY <1>2, <1>3, <1>10, <2>1, <3>5, OneStep, CompareStep
    <2>5. CASE ~PotcarValid(gen[g].seen, Checked(g), gen[g].expected)
      <3>1. gen'[g].pc = Failed[gen[g].checks]
        BY <1>10, <2>5, CompareStep
      <3>2. /\ gen'[g].pc \in {"fail", "discard", "samefile"}
            /\ gen'[g].pc # "fail" => gen[g].checks # "existing"
        BY <2>1, <3>1 DEF Checks, Failed
      <3>3. StepAgrees(g)'
        BY <1>2, <1>3, <2>2, <2>3, <3>2 DEF StepAgrees
      <3> QED BY <1>2, <1>3, <1>10, <2>1, <3>2, <3>3, OneStep, CompareStep
    <2> QED BY <2>4, <2>5
  <1>11. CASE SameFile(g)
    <2>1. PICK step \in {"unlink", "discard"} : GoTo(g, step)
      BY <1>11 DEF SameFile
    <2>2. /\ gen[g].pc = "samefile" /\ gen'[g].pc = step /\ gen'[g].structure = gen[g].structure
          /\ \A h \in Generators : h # g => gen'[h] = gen[h]
      BY <1>1, <1>11, <2>1, SetStep DEF SameFile, At, Steps
    <2>3. StepAgrees(g)'
      BY <1>1, <1>2, <1>3, <2>1, <2>2 DEF StepAgrees
    <2> QED BY <1>2, <1>3, <2>1, <2>2, <2>3, OneStep
  <1>12. CASE Discard(g)
    <2>1. PICK step \in {"incar", "fail"} : GoTo(g, step)
      BY <1>12 DEF Discard
    <2>2. /\ gen[g].pc = "discard" /\ gen'[g].pc = step /\ gen'[g].structure = gen[g].structure
          /\ \A h \in Generators : h # g => gen'[h] = gen[h]
      BY <1>1, <1>12, <2>1, SetStep DEF Discard, At, Steps
    <2>3. StepAgrees(g)'
      BY <1>1, <1>2, <1>3, <2>1, <2>2 DEF StepAgrees
    <2> QED BY <1>2, <1>3, <2>1, <2>2, <2>3, OneStep
  <1> QED BY <1>4, <1>5, <1>6, <1>7, <1>8, <1>9, <1>10, <1>11, <1>12

\* The own POTCAR is linked, or the one that took the name is looked at.
LEMMA LinkAgrees ==
    ASSUME CalculationTypeOK, FilesApart, Agreement, NEW g \in Generators, Link(g)
    PROVE  Agreement'
  <1>1. gen[g].pc = "link" /\ gen[g].temp \in Potcars /\ StepAgrees(g)
    BY DEF Link, At, FilesApart, Holds, Agreement
  <1>2. /\ gen'[g].pc = "order" /\ gen'[g].structure = gen[g].structure
        /\ \A h \in Generators : h # g => gen'[h] = gen[h]
    BY LinkStep
  <1>3. /\ UNCHANGED <<structure, manifest>>
        /\ dir'.POSCAR = dir.POSCAR /\ dir'.INCAR = dir.INCAR
        /\ dir'.POTCAR = dir.POTCAR \/ dir'.POTCAR = gen[g].temp
    BY <1>1, LinkDir DEF Link
  <1>4. PotcarAgrees'
    BY <1>1, <1>3 DEF StepAgrees, PotcarAgrees
  <1>5. StepAgrees(g)'
    BY <1>1, <1>2, <1>3, <1>4 DEF StepAgrees
  <1>6. CurrentAgrees'
    BY <1>3, <1>4, CurrentKept DEF Agreement
  <1> QED BY <1>1, <1>2, <1>3, <1>5, <1>6, OneStep

\* The own POTCAR is taken away again.
LEMMA UnlinkAgrees ==
    ASSUME CalculationTypeOK, Agreement, NEW g \in Generators, Unlink(g)
    PROVE  Agreement'
  <1>1. /\ gen[g].pc = "unlink" /\ gen'[g].pc = "discard" /\ gen'[g].structure = gen[g].structure
        /\ \A h \in Generators : h # g => gen'[h] = gen[h]
    BY SetStep DEF Unlink, At, Steps, CalculationTypeOK
  <1>2. /\ UNCHANGED <<structure, manifest>> /\ dir'.POTCAR = Missing
        /\ dir'.POSCAR = dir.POSCAR /\ dir'.INCAR = dir.INCAR
    BY SetPotcar DEF Unlink, CalculationTypeOK
  <1>3. PotcarAgrees' /\ StepAgrees(g)
    BY <1>2 DEF PotcarAgrees, Agreement
  <1>4. StepAgrees(g)'
    BY <1>1, <1>2, <1>3 DEF StepAgrees
  <1>5. CurrentAgrees'
    BY <1>2, <1>3, CurrentKept DEF Agreement
  <1> QED BY <1>1, <1>2, <1>4, <1>5, OneStep

\* INCAR is written for the structure of the run, which is the registered one.
LEMMA WriteIncarAgrees ==
    ASSUME CalculationTypeOK, Agreement, NEW g \in Generators, WriteIncar(g)
    PROVE  Agreement'
  <1>1. gen[g].pc = "incar" /\ UNCHANGED <<structure, manifest>>
    BY DEF WriteIncar, At
  <1>2. gen[g].structure = structure /\ StepAgrees(g)
    BY <1>1 DEF Agreement, OneAtATime
  <1>3. dir'.POSCAR = dir.POSCAR /\ dir'.POTCAR = dir.POTCAR
    BY IncarDir
  <1>4. PICK step \in {"fail", "kpoints"} :
          GoTo(g, step) /\ IF step = "fail" THEN UNCHANGED dir
                         ELSE dir'.INCAR.version = gen[g].structure.version
    BY IncarDir
  <1>5. /\ gen'[g].pc = step /\ gen'[g].structure = gen[g].structure
        /\ \A h \in Generators : h # g => gen'[h] = gen[h]
    BY <1>1, <1>4, SetStep DEF Steps, CalculationTypeOK
  <1>6. PotcarAgrees' <=> PotcarAgrees
    BY <1>1, <1>3 DEF PotcarAgrees
  <1>7. StepAgrees(g)'
    BY <1>1, <1>2, <1>3, <1>4, <1>5, <1>6 DEF StepAgrees
  <1>8. dir'.INCAR = dir.INCAR \/ dir'.INCAR.version = structure.version
    BY <1>2, <1>4
  <1>9. CurrentAgrees'
    BY <1>1, <1>3, <1>6, <1>8, CurrentKept DEF Agreement
  <1> QED BY <1>1, <1>4, <1>5, <1>7, <1>9, OneStep

\* KPOINTS says nothing of the structure.
LEMMA WriteKpointsAgrees ==
    ASSUME CalculationTypeOK, Agreement, NEW g \in Generators, WriteKpoints(g)
    PROVE  Agreement'
  <1>1. /\ gen[g].pc = "kpoints" /\ gen'[g].pc = "register" /\ gen'[g].structure = gen[g].structure
        /\ \A h \in Generators : h # g => gen'[h] = gen[h]
    BY SetStep DEF WriteKpoints, At, Steps, CalculationTypeOK
  <1>2. /\ UNCHANGED <<structure, manifest>> /\ dir'.POTCAR = dir.POTCAR
        /\ dir'.POSCAR = dir.POSCAR /\ dir'.INCAR = dir.INCAR
    BY SetKpoints DEF WriteKpoints, CalculationTypeOK
  <1>3. (PotcarAgrees' <=> PotcarAgrees) /\ StepAgrees(g)
    BY <1>2 DEF PotcarAgrees, Agreement
  <1>4. StepAgrees(g)'
    BY <1>1, <1>2, <1>3 DEF StepAgrees
  <1>5. CurrentAgrees'
    BY <1>2, <1>3, CurrentKept DEF Agreement
  <1> QED BY <1>1, <1>2, <1>4, <1>5, OneStep

\* A generation ends: the manifest it registers is of what it wrote; one that
\* fails or is cut off registers none.
LEMMA EndAgrees ==
    ASSUME CalculationTypeOK, Agreement, NEW g \in Generators, Register(g) \/ Fail(g) \/ Crash(g)
    PROVE  Agreement'
  <1>1. /\ gen[g].pc # "idle" /\ gen'[g].pc = "idle" /\ UNCHANGED <<structure, dir>>
        /\ \A h \in Generators : h # g => gen'[h] = gen[h]
    BY SetIdle DEF Register, Fail, Crash, At, CalculationTypeOK
  <1>2. StepAgrees(g)'
    BY <1>1 DEF StepAgrees
  <1>3. (PotcarAgrees' <=> PotcarAgrees) /\ StepAgrees(g)
    BY <1>1 DEF PotcarAgrees, Agreement
  <1>4. ASSUME Register(g) PROVE CurrentAgrees'
    <2>1. gen[g].pc = "register" /\ manifest'.version = gen[g].structure.version
      BY <1>4 DEF Register, At
    <2>2. structure # None /\ gen[g].structure = structure
      BY <1>1 DEF Agreement, OneAtATime
    <2>3. structure.version \in Nat
      BY <2>2 DEF CalculationTypeOK, RestOK, Versions
    <2>4. /\ dir.POSCAR = structure.poscar /\ dir.INCAR.version = structure.version
          /\ PotcarAgrees
      BY <1>3, <2>1 DEF StepAgrees
    <2> QED BY <1>1, <1>3, <2>1, <2>2, <2>3, <2>4 DEF Agreement, CurrentAgrees, Current
  <1>5. ASSUME UNCHANGED manifest PROVE CurrentAgrees'
    BY <1>1, <1>3, <1>5, CurrentKept DEF Agreement
  <1>6. CurrentAgrees'
    BY <1>4, <1>5 DEF Fail, Crash
  <1> QED BY <1>1, <1>2, <1>6, OneStep

\* No step breaks the agreement of sessions that follow each other.
LEMMA NextAgrees == Inv /\ Agreement /\ sessions = 1 /\ [CalcNext]_calcVars => Agreement'
  <1> SUFFICES ASSUME Inv, Agreement, sessions = 1, [CalcNext]_calcVars PROVE Agreement'
    OBVIOUS
  <1>0. CalculationTypeOK /\ FilesApart
    BY DEF Inv
  <1>1. ASSUME NEW s \in Structures, Remodel(s) PROVE Agreement'
    BY <1>0, <1>1, RemodelStep
  <1>2. ASSUME NEW s \in Structures, NEW t \in Texts, PlaceInputs(s, t) PROVE Agreement'
    BY <1>2, NoStructure DEF PlaceInputs
  <1>3. ASSUME NEW r \in Requests, Direct(r) PROVE Agreement'
    <2>1. structure = None /\ UNCHANGED <<gen, structure>> /\ manifest'.version = 0
      BY <1>3 DEF Direct
    <2> QED BY <2>1, NoStructure
  <1>4. ASSUME NEW p \in UserPotcars, PlacePotcar(p) PROVE Agreement'
    <2>1. UNCHANGED <<gen, structure, manifest>>
      BY <1>4 DEF PlacePotcar
    <2> QED BY <1>0, <1>4, <2>1, OtherSteps
  <1>5. CASE RemovePotcar
    <2>1. UNCHANGED <<gen, structure, manifest>>
      BY <1>5 DEF RemovePotcar
    <2> QED BY <1>0, <1>5, <2>1, OtherSteps
  <1>6. ASSUME \/ \E r \in PlanRequests : BeginPlan(r)
               \/ FinishPlan
               \/ UNCHANGED calcVars
        PROVE  Agreement'
    <2>1. UNCHANGED <<gen, structure, manifest, dir>>
      BY <1>6 DEF BeginPlan, FinishPlan, calcVars
    <2> QED BY <1>0, <2>1, OtherSteps
  <1>7. ASSUME NEW r \in Requests, NEW g \in Generators, Begin(g, r) PROVE Agreement'
    BY <1>0, <1>7, BeginAgrees
  <1>8. ASSUME NEW g \in Generators, WriteKpoints(g) PROVE Agreement'
    BY <1>0, <1>8, WriteKpointsAgrees
  <1> QED BY <1>0, <1>1, <1>2, <1>3, <1>4, <1>5, <1>6, <1>7, <1>8, WritePoscarAgrees, LookingAgrees,
             LinkAgrees, UnlinkAgrees, WriteIncarAgrees, EndAgrees DEF CalcNext

\* The initial state agrees: nothing runs and nothing is registered.
LEMMA InitAgrees == CalcInit => Agreement
  BY DEF CalcInit, Idle, Agreement, OneAtATime, StepAgrees, CurrentAgrees, Current

\* Generations that follow each other, whatever fails, is cut off, is placed
\* or removed between their steps: once the current structure has its
\* manifest, POSCAR is that structure, INCAR was made for it and a POTCAR the
\* program made has the elements of POSCAR, in its order.
THEOREM CalcCurrentInputs == CalcSpec => []CurrentInputsAgree
  <1>1. CalcInit => SessionInv
    BY InitInv, InitAgrees DEF SessionInv
  <1>2. SessionInv /\ [CalcNext]_calcVars => SessionInv'
    <2> SUFFICES ASSUME SessionInv, [CalcNext]_calcVars PROVE SessionInv'
      OBVIOUS
    <2>1. UNCHANGED sessions
      BY DEF CalcNext, calcVars, Remodel, PlaceInputs, PlacePotcar, RemovePotcar, Direct, Begin,
             WritePoscar, ReadSpecies, Find, Choose, Stage, StageFails, ReadOrder, Compare, Link,
             SameFile, Unlink, Discard, Fail, WriteIncar, WriteKpoints, Register, Crash,
             BeginPlan, FinishPlan
    <2> QED BY <2>1, NextInv, NextAgrees DEF SessionInv
  <1>3. SessionInv => CurrentInputsAgree
    BY DEF SessionInv, Agreement, CurrentAgrees, Current, PotcarAgrees, CurrentInputsAgree
  <1> QED BY <1>1, <1>2, <1>3, PTL DEF CalcSpec

-----------------------------------------------------------------------------
(* Numbers.                                                                *)

\* A set of naturals has a least element.
LEMMA Least ==
    ASSUME NEW T, T \subseteq Nat, T # {}
    PROVE  \E n \in T : \A m \in T : n <= m
  <1> DEFINE R == {ss \in Nat \X Nat : ss[1] < ss[2]}
  <1>1. IsWellFoundedOn(R, Nat)
    BY NatLessThanWellFounded DEF OpToRel
  <1>2. \A m, n \in Nat : m < n => <<m, n>> \in R
    OBVIOUS
  <1> HIDE DEF R
  <1>3. \E n \in T : \A m \in T : ~(<<m, n>> \in R)
    BY <1>1, WFMin
  <1>4. PICK n \in T : \A m \in T : <<m, n>> \notin R
    BY <1>3
  <1>5. \A m \in T : ~(m < n)
    BY <1>2, <1>4
  <1> QED BY <1>5

\* Induction over the naturals, for a set of them.
LEMMA AllNaturals ==
    ASSUME NEW S, 0 \in S, \A n \in Nat : n \in S => n + 1 \in S
    PROVE  \A n \in Nat : n \in S
  <1> DEFINE T == Nat \ S
  <1> SUFFICES ASSUME T # {} PROVE FALSE
    OBVIOUS
  <1>1. \A n \in Nat : n - 1 \in Nat /\ n - 1 \in S => n \in S
    OBVIOUS
  <1>2. T \subseteq Nat
    OBVIOUS
  <1>3. PICK n \in T : \A m \in T : n <= m
    <2> HIDE DEF T
    <2> QED BY <1>2, Least
  <1>4. n \in Nat /\ n # 0 /\ n - 1 \in Nat /\ n - 1 \in S
    BY <1>3
  <1> QED BY <1>1, <1>3, <1>4

\* The partial sums of a sequence of naturals.
LEMMA PartialSums ==
    ASSUME NEW N \in Nat, NEW c, \A i \in 1 .. N : c[i] \in Nat
    PROVE  \E p \in [0 .. N -> Nat] : p[0] = 0 /\ \A i \in 1 .. N : p[i] = p[i - 1] + c[i]
  <1> DEFINE Part(k) == \E p \in [0 .. k -> Nat] :
                           p[0] = 0 /\ \A i \in 1 .. k : p[i] = p[i - 1] + c[i]
             S == {k \in Nat : k <= N => Part(k)}
  <1>1. 0 \in S
    <2>1. PICK p : p = [i \in 0 .. 0 |-> 0]
      OBVIOUS
    <2>2. p \in [0 .. 0 -> Nat] /\ p[0] = 0 /\ \A i \in 1 .. 0 : p[i] = p[i - 1] + c[i]
      BY <2>1
    <2>3. Part(0)
      BY <2>2
    <2> QED BY <2>3
  <1>2. ASSUME NEW k \in Nat, k \in S PROVE k + 1 \in S
    <2> SUFFICES ASSUME k + 1 <= N PROVE Part(k + 1)
      OBVIOUS
    <2>1. PICK p \in [0 .. k -> Nat] : p[0] = 0 /\ \A i \in 1 .. k : p[i] = p[i - 1] + c[i]
      BY <1>2
    <2>2. c[k + 1] \in Nat /\ p[k] \in Nat
      BY <2>1
    <2>3. PICK q : q = [i \in 0 .. k + 1 |-> IF i = k + 1 THEN p[k] + c[k + 1] ELSE p[i]]
      OBVIOUS
    <2>4. q \in [0 .. k + 1 -> Nat]
      BY <2>2, <2>3
    <2>5. \A i \in 0 .. k : q[i] = p[i]
      BY <2>3
    <2>6. q[k + 1] = p[k] + c[k + 1]
      BY <2>3
    <2>7. ASSUME NEW i \in 1 .. k + 1 PROVE q[i] = q[i - 1] + c[i]
      <3>1. CASE i = k + 1
        <4>1. q[i - 1] = p[k]
          BY <2>5, <3>1
        <4> QED BY <2>6, <3>1, <4>1
      <3>2. CASE i # k + 1
        <4>1. i \in 1 .. k /\ i - 1 \in 0 .. k /\ i \in 0 .. k
          BY <3>2
        <4> QED BY <2>1, <2>5, <4>1
      <3> QED BY <3>1, <3>2
    <2>8. q[0] = 0
      BY <2>1, <2>5
    <2> QED BY <2>4, <2>7, <2>8
  <1>3. N \in S
    <2> HIDE DEF S
    <2> QED BY <1>1, <1>2, AllNaturals
  <1>4. Part(N)
    <2> HIDE DEF Part
    <2> QED BY <1>3
  <1> QED BY <1>4

\* The sum of a sequence of naturals is a natural.
LEMMA TotalNat ==
    ASSUME NEW c, NEW N \in Nat, Len(c) = N, \A i \in 1 .. N : c[i] \in Nat
    PROVE  Total(c) \in Nat
  <1> DEFINE Sums(s) == s = [i \in 0 .. Len(c) |-> IF i = 0 THEN 0 ELSE s[i - 1] + c[i]]
  <1>1. PICK p \in [0 .. N -> Nat] : p[0] = 0 /\ \A i \in 1 .. N : p[i] = p[i - 1] + c[i]
    BY PartialSums
  <1>2. Sums(p)
    BY <1>1
  <1>3. Sums(CHOOSE s : Sums(s))
    <2>1. \E s : Sums(s)
      BY <1>2
    <2> HIDE DEF Sums
    <2> QED BY <2>1
  <1>4. PICK s : Sums(s) /\ Total(c) = s[Len(c)]
    BY <1>3 DEF Total
  <1>5. s[0] = 0 /\ \A i \in 1 .. N : s[i] = s[i - 1] + c[i]
    <2>1. s = [i \in 0 .. N |-> IF i = 0 THEN 0 ELSE s[i - 1] + c[i]]
      BY <1>4
    <2> QED BY <2>1
  <1> DEFINE S == {k \in Nat : k <= N => s[k] \in Nat}
  <1>6. 0 \in S
    BY <1>5
  <1>7. ASSUME NEW k \in Nat, k \in S PROVE k + 1 \in S
    <2> SUFFICES ASSUME k + 1 <= N PROVE s[k + 1] \in Nat
      OBVIOUS
    <2>1. k + 1 \in 1 .. N /\ (k + 1) - 1 = k /\ s[k] \in Nat
      BY <1>7
    <2>2. s[k + 1] = s[k] + c[k + 1]
      BY <1>5, <2>1
    <2> QED BY <2>1, <2>2
  <1>8. N \in S
    <2> HIDE DEF S
    <2> QED BY <1>6, <1>7, AllNaturals
  <1> QED BY <1>4, <1>8

-----------------------------------------------------------------------------
(* The numbers of bands.                                                   *)

\* A quotient that is rounded up is at least the quotient, and by less than one.
LEMMA CeilFour ==
    ASSUME NEW a \in Int
    PROVE  CeilDiv(a, 4) \in Int /\ 4 * CeilDiv(a, 4) >= a /\ 4 * CeilDiv(a, 4) < a + 4
  BY DEF CeilDiv

LEMMA CeilTen ==
    ASSUME NEW a \in Int
    PROVE  CeilDiv(a, 10) \in Int /\ 10 * CeilDiv(a, 10) >= a
  BY DEF CeilDiv

LEMMA OccupiedIs == ASSUME NEW h \in Nat, NEW moment PROVE OccupiedBands(h, 1, moment) = CeilDiv(h, 4)
  BY DEF OccupiedBands

\* The bands that are occupied with a moment, unless it is no number.
LEMMA OccupiedInt ==
    ASSUME NEW h \in Nat, NEW ispin \in {1, 2}, NEW moment \in Int \cup {Unset, PerIon},
           ~(ispin = 2 /\ moment = PerIon)
    PROVE  OccupiedBands(h, ispin, moment) \in Int
  <1>1. CASE ispin = 2 /\ moment # Unset
    <2>1. PICK m \in Int : m = AbsValue(moment)
      BY <1>1 DEF AbsValue
    <2>2. OccupiedBands(h, ispin, moment) = CeilDiv(h + m, 4) /\ h + m \in Int
      BY <1>1, <2>1 DEF OccupiedBands
    <2> QED BY <2>2, CeilFour
  <1>2. CASE ~(ispin = 2 /\ moment # Unset)
    <2>1. OccupiedBands(h, ispin, moment) = CeilDiv(h, 4)
      BY <1>2 DEF OccupiedBands
    <2> QED BY <2>1, CeilFour
  <1> QED BY <1>1, <1>2

\* VASP's default leaves at least three bands empty.
LEMMA DefaultAbove ==
    ASSUME NEW h \in Nat, NEW ions \in Nat, NEW noncollinear \in BOOLEAN
    PROVE  /\ DefaultBands(h, ions, noncollinear) \in Int
           /\ DefaultBands(h, ions, noncollinear) > CeilDiv(h, 4)
           /\ DefaultBands(h, ions, noncollinear) > 0
  <1> DEFINE tenths == Larger(10 * Nint(h) + 5 * Larger(ions, 6), 3 * h)
  <1>1. Nint(h) \in Int /\ 4 * Nint(h) >= h + 3
    BY DEF Nint
  <1>2. Larger(ions, 6) \in Nat /\ Larger(ions, 6) >= 6
    BY DEF Larger
  <1>3. tenths \in Int /\ tenths >= 10 * Nint(h) + 30
    BY <1>1, <1>2 DEF Larger
  <1>4. PICK t \in Int : t = tenths /\ t >= 10 * Nint(h) + 30
    BY <1>3
  <1>5. DefaultBands(h, ions, noncollinear) = CeilDiv(t, 10) * (IF noncollinear THEN 2 ELSE 1)
    BY <1>4 DEF DefaultBands
  <1>6. CeilDiv(t, 10) \in Int /\ 10 * CeilDiv(t, 10) >= t
    BY CeilTen
  <1>7. CeilDiv(h, 4) \in Int /\ 4 * CeilDiv(h, 4) < h + 4
    BY CeilFour
  <1>8. PICK c \in Int : c = CeilDiv(t, 10) /\ 10 * c >= t
    BY <1>6
  <1>9. PICK d \in Int : DefaultBands(h, ions, noncollinear) = d /\ (d = c \/ d = 2 * c)
    <2>1. c * 1 = c /\ c * 2 = 2 * c /\ 2 * c \in Int
      OBVIOUS
    <2> QED BY <1>5, <1>8, <2>1
  <1>10. PICK o \in Int : o = CeilDiv(h, 4) /\ 4 * o < h + 4
    BY <1>7
  <1>11. PICK n \in Int : n = Nint(h) /\ 4 * n >= h + 3 /\ t >= 10 * n + 30
    BY <1>1, <1>4
  <1>12. d > o /\ d > 0
    BY <1>8, <1>9, <1>10, <1>11
  <1> QED BY <1>9, <1>10, <1>12

\* A multiple of the default that is rounded up is no less than the default.
LEMMA MultipleAbove ==
    ASSUME NEW f \in {6, 10, 12}, NEW d \in Int, d > 0
    PROVE  CeilDiv(f * d, 4) \in Int /\ CeilDiv(f * d, 4) >= d
  <1>1. f * d \in Int /\ f * d >= 4 * d
    <2>1. 6 * d >= 4 * d /\ 10 * d >= 4 * d /\ 12 * d >= 4 * d
      OBVIOUS
    <2> QED BY <2>1
  <1>2. PICK a \in Int : a = f * d /\ a >= 4 * d
    BY <1>1
  <1>3. CeilDiv(a, 4) \in Int /\ 4 * CeilDiv(a, 4) >= a
    BY CeilFour
  <1> QED BY <1>2, <1>3

\* A number that is chosen for a task is above the occupied bands.
LEMMA ChosenAbove ==
    ASSUME NEW job, NEW h \in Nat, NEW ions \in Nat, NEW noncollinear \in BOOLEAN, NEW moment,
           ChooseBands(job, h, ions, Unset, noncollinear) # Unset
    PROVE  ChooseBands(job, h, ions, Unset, noncollinear) > OccupiedBands(h, 1, moment)
  <1>1. Factor(job) \in {0, 6, 10, 12}
    BY DEF Factor
  <1>2. Factor(job) # 0
        /\ ChooseBands(job, h, ions, Unset, noncollinear)
              = CeilDiv(Factor(job) * DefaultBands(h, ions, noncollinear), 4)
    BY DEF ChooseBands
  <1>3. PICK d \in Int : d = DefaultBands(h, ions, noncollinear) /\ d > CeilDiv(h, 4) /\ d > 0
    BY DefaultAbove
  <1>4. PICK f \in {6, 10, 12} : f = Factor(job)
    BY <1>1, <1>2
  <1>5. PICK o \in Int : o = CeilDiv(h, 4)
    BY CeilFour
  <1>6. PICK b \in Int : b = CeilDiv(f * d, 4) /\ b >= d
    BY <1>3, MultipleAbove, Zenon
  <1>7. b > o
    <2>1. d > o
      BY <1>3, <1>5, Zenon
    <2>2. \A x, y, z \in Int : x >= y /\ y > z => x > z
      OBVIOUS
    <2> QED BY <1>6, <2>1, <2>2, Zenon
  <1> QED BY <1>2, <1>3, <1>4, <1>5, <1>6, <1>7, OccupiedIs, Zenon

\* The electrons of a POTCAR whose datasets state theirs.
LEMMA ElectronsNat ==
    ASSUME NEW poscar \in Structures \cup {Missing}, NEW potcar \in Seq(DOMAIN Zval) \cup {Missing}
    PROVE  Electrons(poscar, potcar, Zval) \in Nat \cup {Unset}
  <1> SUFFICES ASSUME Readable(poscar), potcar # Missing, Len(potcar) = Len(poscar.species)
               PROVE  Electrons(poscar, potcar, Zval) \in Nat
    BY DEF Electrons
  <1>1. /\ poscar \in Structures /\ potcar \in Seq(DOMAIN Zval)
        /\ Len(poscar.counts) = Len(potcar) /\ poscar.counts \in Seq(Nat)
    BY StructureAssumption DEF Readable
  <1> DEFINE c == [i \in DOMAIN potcar |-> Zval[potcar[i]] * poscar.counts[i]]
  <1>2. Electrons(poscar, potcar, Zval) = Total(c)
    BY DEF Electrons
  <1>3. PICK N \in Nat : N = Len(potcar) /\ DOMAIN potcar = 1 .. N
    BY <1>1
  <1>4. \A x, y \in Nat : x * y \in Nat
    OBVIOUS
  <1>5. ASSUME NEW i \in 1 .. N PROVE c[i] \in Nat
    <2>1. Zval[potcar[i]] \in Nat
      BY <1>1, <1>3, DatasetAssumption
    <2>2. poscar.counts[i] \in Nat
      BY <1>1, <1>3
    <2>3. c[i] = Zval[potcar[i]] * poscar.counts[i]
      BY <1>3
    <2> HIDE DEF c
    <2> QED BY <1>4, <2>1, <2>2, <2>3
  <1>6. Len(c) = N
    BY <1>3
  <1> HIDE DEF c
  <1>7. Total(c) \in Nat
    BY <1>5, <1>6, TotalNat
  <1> QED BY <1>2, <1>7

-----------------------------------------------------------------------------
(* The number of bands of the INCAR.                                       *)

Contents == Seq(DOMAIN Zval)

\* A POTCAR, made or about to be made, has datasets that state their electrons.
DatasetsKnown ==
    /\ dir.POTCAR # Missing => dir.POTCAR.content \in Contents
    /\ \A g \in Generators : gen[g].pc = "stage" => gen[g].expected \in Contents
    /\ \A g \in Generators : Holds(g) => gen[g].temp.content \in Contents

BandsInv == Inv /\ DatasetsKnown /\ BandsAboveOccupied

\* Where the POTCAR of a next state comes from.
LEMMA PotcarOrigin ==
    ASSUME Inv, [CalcNext]_calcVars
    PROVE  \/ dir'.POTCAR \in {dir.POTCAR, Missing}
           \/ \E p \in UserPotcars : dir'.POTCAR.content = p
           \/ \E g \in Generators : Holds(g) /\ dir'.POTCAR = gen[g].temp
  <1>0. CalculationTypeOK /\ FilesApart /\ DirOK /\ GenOK
    BY DEF Inv, CalculationTypeOK
  <1>1. ASSUME NEW s \in Structures, NEW t \in Texts, PlaceInputs(s, t) PROVE dir'.POTCAR = dir.POTCAR
    BY <1>0, <1>1, SetInputs DEF PlaceInputs, Poscars
  <1>2. ASSUME NEW p \in UserPotcars, PlacePotcar(p) PROVE dir'.POTCAR.content = p
    <2>1. PICK f \in Potcars : f = [file |-> made, by |-> "user", content |-> p]
      BY <1>0 DEF Potcars, CalculationTypeOK, RestOK
    <2>2. dir' = [dir EXCEPT !.POTCAR = f]
      BY <1>2, <2>1 DEF PlacePotcar
    <2>3. dir'.POTCAR = f
      BY <1>0, <2>2, SetPotcar
    <2> QED BY <2>1, <2>3
  <1>3. CASE RemovePotcar
    BY <1>0, <1>3, SetPotcar DEF RemovePotcar
  <1>4. ASSUME NEW g \in Generators, Link(g)
        PROVE  dir'.POTCAR = dir.POTCAR \/ (Holds(g) /\ dir'.POTCAR = gen[g].temp)
    <2>1. Holds(g) /\ gen[g].temp \in Potcars
      BY <1>0, <1>4 DEF Link, At, Holds, FilesApart
    <2> QED BY <1>0, <1>4, <2>1, LinkDir
  <1>5. ASSUME NEW g \in Generators, Unlink(g) PROVE dir'.POTCAR = Missing
    BY <1>0, <1>5, SetPotcar DEF Unlink
  <1>6. ASSUME UNCHANGED dir PROVE dir'.POTCAR = dir.POTCAR
    BY <1>6
  <1>7. ASSUME NEW g \in Generators,
               Stage(g) \/ SameFile(g) \/ Discard(g) \/ Crash(g)
        PROVE  UNCHANGED dir
    BY <1>7 DEF Stage, SameFile, Discard, Crash
  <1>8. \/ UNCHANGED dir
        \/ \E s \in Structures, t \in Texts : PlaceInputs(s, t)
        \/ \E p \in UserPotcars : PlacePotcar(p)
        \/ RemovePotcar
        \/ \E g \in Generators :
              \/ WritePoscar(g) \/ ReadSpecies(g) \/ Find(g) \/ Choose(g) \/ StageFails(g) \/ ReadOrder(g)
              \/ Compare(g) \/ Fail(g) \/ WriteIncar(g) \/ WriteKpoints(g) \/ Register(g)
        \/ \E g \in Generators : Link(g)
        \/ \E g \in Generators : Unlink(g)
    BY <1>7 DEF CalcNext, calcVars, Remodel, Direct, Begin, BeginPlan, FinishPlan
  <1> QED BY <1>0, <1>1, <1>2, <1>3, <1>4, <1>5, <1>6, <1>8, QuietSteps

\* Where the temporary file of a generation comes from.
LEMMA TempOrigin ==
    ASSUME Inv, [CalcNext]_calcVars, NEW g \in Generators, Holds(g)'
    PROVE  \/ Holds(g) /\ gen'[g].temp = gen[g].temp
           \/ gen[g].pc = "stage" /\ gen'[g].temp.content = gen[g].expected
  <1>0. CalculationTypeOK /\ FilesApart /\ DirOK /\ GenOK
    BY DEF Inv, CalculationTypeOK
  <1>1. CASE SameHolders
    BY <1>1 DEF SameHolders
  <1>2. CASE UNCHANGED gen
    BY <1>1, <1>2, GenKept
  <1>3. ASSUME NEW h \in Generators, \A k \in Generators : k # h => gen'[k] = gen[k], g # h
        PROVE  Holds(g) /\ gen'[g].temp = gen[g].temp
    BY <1>3 DEF Holds
  <1>4. ASSUME NEW h \in Generators, NEW r \in Requests, Begin(h, r)
        PROVE  Holds(g) /\ gen'[g].temp = gen[g].temp
    <2>1. gen'[h].pc = "poscar" /\ \A k \in Generators : k # h => gen'[k] = gen[k]
      BY <1>0, <1>4, BeginStep
    <2>2. g # h
      BY <2>1 DEF Holds
    <2> QED BY <1>3, <2>1, <2>2
  <1>5. ASSUME NEW h \in Generators, Stage(h)
        PROVE  \/ Holds(g) /\ gen'[g].temp = gen[g].temp
               \/ gen[g].pc = "stage" /\ gen'[g].temp.content = gen[g].expected
    <2>1. gen[h].pc = "stage" /\ \A k \in Generators : k # h => gen'[k] = gen[k]
      BY <1>0, <1>5, StageStep DEF Stage, At
    <2>2. gen'[h].temp = [file |-> made, by |-> h, content |-> gen[h].expected]
      BY <1>0, <1>5, StageStep
    <2>3. gen'[h].temp.content = gen[h].expected
      BY <2>2
    <2> QED BY <1>3, <2>1, <2>3
  <1>6. ASSUME NEW h \in Generators, Link(h) \/ SameFile(h) \/ Unlink(h)
        PROVE  Holds(g) /\ gen'[g].temp = gen[g].temp
    <2>1. Holds(h) /\ gen'[h].temp = gen[h].temp /\ \A k \in Generators : k # h => gen'[k] = gen[k]
      <3>1. CASE Link(h)
        BY <1>0, <3>1, LinkStep DEF Link, At, Holds
      <3>2. CASE SameFile(h)
        <4>1. PICK step \in {"unlink", "discard"} : GoTo(h, step)
          BY <3>2 DEF SameFile
        <4> QED BY <1>0, <3>2, <4>1, SetStep DEF SameFile, At, Holds, Steps
      <3>3. CASE Unlink(h)
        BY <1>0, <3>3, SetStep DEF Unlink, At, Holds, Steps
      <3> QED BY <1>6, <3>1, <3>2, <3>3
    <2> QED BY <1>3, <2>1
  <1>7. ASSUME NEW h \in Generators, Discard(h) \/ Crash(h)
        PROVE  Holds(g) /\ gen'[g].temp = gen[g].temp
    <2>1. ~Holds(h)' /\ \A k \in Generators : k # h => gen'[k] = gen[k]
      <3>1. CASE Discard(h)
        <4>1. PICK step \in {"incar", "fail"} : GoTo(h, step)
          BY <3>1 DEF Discard
        <4>2. gen'[h].pc = step /\ \A k \in Generators : k # h => gen'[k] = gen[k]
          BY <1>0, <3>1, <4>1, SetStep DEF Discard, At, Steps
        <4> QED BY <4>1, <4>2 DEF Holds
      <3>2. CASE Crash(h)
        <4>1. gen'[h].pc = "idle" /\ \A k \in Generators : k # h => gen'[k] = gen[k]
          BY <1>0, <3>2, SetIdle DEF Crash
        <4> QED BY <4>1 DEF Holds
      <3> QED BY <1>7, <3>1, <3>2
    <2> QED BY <1>3, <2>1
  <1>8. \/ UNCHANGED gen
        \/ \E h \in Generators, r \in Requests : Begin(h, r)
        \/ \E h \in Generators :
              \/ WritePoscar(h) \/ ReadSpecies(h) \/ Find(h) \/ Choose(h) \/ StageFails(h) \/ ReadOrder(h)
              \/ Compare(h) \/ Fail(h) \/ WriteIncar(h) \/ WriteKpoints(h) \/ Register(h)
        \/ \E h \in Generators : Stage(h)
        \/ \E h \in Generators : Link(h) \/ SameFile(h) \/ Unlink(h)
        \/ \E h \in Generators : Discard(h) \/ Crash(h)
    BY DEF CalcNext, calcVars, Remodel, PlaceInputs, PlacePotcar, RemovePotcar, Direct, BeginPlan, FinishPlan
  <1> QED BY <1>0, <1>1, <1>2, <1>4, <1>5, <1>6, <1>7, <1>8, QuietSteps

\* A generation makes a POTCAR only of datasets the library has.
LEMMA StageOrigin ==
    ASSUME Inv, [CalcNext]_calcVars, NEW g \in Generators, gen'[g].pc = "stage"
    PROVE  gen'[g] = gen[g] \/ Choose(g)
  <1>0. CalculationTypeOK /\ GenOK
    BY DEF Inv, CalculationTypeOK
  <1>1. ASSUME NEW h \in Generators, \A k \in Generators : k # h => gen'[k] = gen[k],
               gen'[h].pc # "stage"
        PROVE  gen'[g] = gen[g]
    BY <1>1
  <1>2. ASSUME NEW h \in Generators, NEW step \in Steps \ {"order", "compare", "stage"},
               gen[h].pc # "idle", GoTo(h, step)
        PROVE  gen'[g] = gen[g]
    BY <1>0, <1>1, <1>2, SetStep
  <1>3. ASSUME NEW h \in Generators, Ends(h) PROVE gen'[g] = gen[g]
    BY <1>0, <1>1, <1>3, SetIdle
  <1>4. ASSUME NEW h \in Generators, NEW r \in Requests, Begin(h, r) PROVE gen'[g] = gen[g]
    BY <1>0, <1>1, <1>4, BeginStep
  <1>5. ASSUME NEW h \in Generators,
               \/ WritePoscar(h) \/ StageFails(h) \/ SameFile(h) \/ Unlink(h) \/ Discard(h)
               \/ WriteIncar(h) \/ WriteKpoints(h)
        PROVE  gen'[g] = gen[g]
    <2>1. gen[h].pc # "idle" /\ \E step \in Steps \ {"order", "compare", "stage"} : GoTo(h, step)
      BY <1>5 DEF WritePoscar, StageFails, SameFile, Unlink, Discard, WriteIncar, WriteKpoints, At,
                  Steps
    <2> QED BY <1>2, <2>1
  <1>6. ASSUME NEW h \in Generators, Fail(h) \/ Register(h) \/ Crash(h) PROVE gen'[g] = gen[g]
    BY <1>3, <1>6 DEF Fail, Register, Crash
  <1>7. ASSUME NEW h \in Generators,
               ReadSpecies(h) \/ Find(h) \/ Stage(h) \/ ReadOrder(h) \/ Link(h)
        PROVE  gen'[g] = gen[g]
    BY <1>0, <1>1, <1>7, ReadSpeciesStep, FindStep, StageStep, ReadOrderStep, LinkStep
  <1>8. ASSUME NEW h \in Generators, Compare(h) PROVE gen'[g] = gen[g]
    <2>1. gen[h].checks \in Checks /\ gen'[h].pc \in {Passed[gen[h].checks], Failed[gen[h].checks]}
          /\ \A k \in Generators : k # h => gen'[k] = gen[k]
      BY <1>0, <1>8, CompareStep
    <2>2. gen'[h].pc # "stage"
      BY <2>1 DEF Checks, Passed, Failed
    <2> QED BY <1>1, <2>1, <2>2
  <1>9. ASSUME NEW h \in Generators, Choose(h) PROVE gen'[g] = gen[g] \/ Choose(g)
    BY <1>0, <1>9, ChooseStep
  <1>10. \/ UNCHANGED gen
         \/ \E h \in Generators, r \in Requests : Begin(h, r)
         \/ \E h \in Generators :
              \/ WritePoscar(h) \/ StageFails(h) \/ SameFile(h) \/ Unlink(h) \/ Discard(h)
              \/ WriteIncar(h) \/ WriteKpoints(h)
         \/ \E h \in Generators : Fail(h) \/ Register(h) \/ Crash(h)
         \/ \E h \in Generators : ReadSpecies(h) \/ Find(h) \/ Stage(h) \/ ReadOrder(h) \/ Link(h)
         \/ \E h \in Generators : Compare(h)
         \/ \E h \in Generators : Choose(h)
    BY DEF CalcNext, calcVars, Remodel, PlaceInputs, PlacePotcar, RemovePotcar, Direct, BeginPlan, FinishPlan
  <1> QED BY <1>4, <1>5, <1>6, <1>7, <1>8, <1>9, <1>10

\* One dataset for each species, or none.
LEMMA ResolvedDatasets ==
    ASSUME NEW e, NEW request, NEW tables, NEW d,
           d = ResolveSetups(e, request, tables).datasets
    PROVE  d = <<>> \/ (DOMAIN d = DOMAIN e /\ d = [i \in DOMAIN e |-> d[i]])
  <1>1. PICK reason :
          d = IF reason # "none" THEN <<>>
              ELSE [i \in DOMAIN e |->
                      <<e[i], Suffix(tables[request.base], request.overrides, e[i])>>]
    <2>1. d = IF ResolveSetups(e, request, tables).reason # "none" THEN <<>>
              ELSE [i \in DOMAIN e |->
                      <<e[i], Suffix(tables[request.base], request.overrides, e[i])>>]
      BY DEF ResolveSetups
    <2> QED BY <2>1
  <1> QED BY <1>1

\* The datasets of a setup request are in the library that has none of them
\* missing.
LEMMA ChosenDatasets ==
    ASSUME CalculationTypeOK, NEW g \in Generators, Choose(g), gen'[g].pc = "stage"
    PROVE  gen'[g].expected \in Contents
  <1>1. /\ gen[g] \in Run /\ gen'[g].expected = Setups(g).datasets
        /\ gen[g].request.library # Unset
        /\ Unavailable(Setups(g).datasets, gen[g].request.library) = {}
    BY ChooseStep
  <1>2. PICK library : library = gen[g].request.library /\ library \subseteq DOMAIN Zval
    BY <1>1, DatasetAssumption DEF Run
  <1>3. PICK e : e \in Seq(STRING) /\ e = gen[g].species
    <2>1. gen[g].species \in SpeciesOf
      BY <1>1 DEF Run
    <2>2. ASSUME NEW p \in Poscars PROVE Species(p) \in Seq(STRING)
      <3>1. CASE Readable(p)
        <4>1. p \in Structures
          BY <3>1 DEF Readable, Poscars
        <4> QED BY <3>1, <4>1, StructureAssumption DEF Species
      <3>2. CASE ~Readable(p)
        BY <3>2 DEF Species
      <3> QED BY <3>1, <3>2
    <2>3. <<>> \in Seq(STRING)
      OBVIOUS
    <2> QED BY <2>1, <2>2, <2>3 DEF SpeciesOf
  <1>4. PICK d : d = Setups(g).datasets
    OBVIOUS
  <1>5. d = <<>> \/ (DOMAIN d = 1 .. Len(e) /\ d = [i \in 1 .. Len(e) |-> d[i]])
    <2>1. DOMAIN e = 1 .. Len(e)
      BY <1>3
    <2>2. d = ResolveSetups(e, gen[g].request.setups, SetupTables).datasets
      BY <1>3, <1>4 DEF Setups
    <2> QED BY <2>1, <2>2, ResolvedDatasets
  <1>6. \A i \in DOMAIN d : d[i] \in DOMAIN Zval
    BY <1>1, <1>2, <1>4 DEF Unavailable, Range
  <1>7. d \in Seq(DOMAIN Zval)
    <2>1. CASE d = <<>>
      BY <2>1
    <2>2. PICK n \in Nat : n = Len(e)
      BY <1>3
    <2>3. CASE DOMAIN d = 1 .. n /\ d = [i \in 1 .. n |-> d[i]]
      BY <1>6, <2>2, <2>3
    <2> QED BY <1>5, <2>1, <2>2, <2>3
  <1> QED BY <1>1, <1>4, <1>7 DEF Contents

\* Every POTCAR stays one whose datasets state their electrons.
LEMMA KnownKept == Inv /\ DatasetsKnown /\ [CalcNext]_calcVars => DatasetsKnown'
  <1> SUFFICES ASSUME Inv, DatasetsKnown, [CalcNext]_calcVars PROVE DatasetsKnown'
    OBVIOUS
  <1>1. dir'.POTCAR # Missing => dir'.POTCAR.content \in Contents
    <2>1. ASSUME NEW p \in UserPotcars PROVE p \in Contents
      BY DatasetAssumption DEF Contents
    <2> QED BY <2>1, PotcarOrigin DEF DatasetsKnown
  <1>2. ASSUME NEW g \in Generators, gen'[g].pc = "stage" PROVE gen'[g].expected \in Contents
    <2>1. CalculationTypeOK
      BY DEF Inv
    <2> QED BY <1>2, <2>1, StageOrigin, ChosenDatasets DEF DatasetsKnown
  <1>3. ASSUME NEW g \in Generators, Holds(g)' PROVE gen'[g].temp.content \in Contents
    BY <1>3, TempOrigin DEF DatasetsKnown
  <1> QED BY <1>1, <1>2, <1>3 DEF DatasetsKnown

\* The number that a generation writes is above the bands its electrons occupy.
LEMMA WrittenBands ==
    ASSUME CalculationTypeOK, DatasetsKnown, NEW g \in Generators, WriteIncar(g), ~UNCHANGED dir,
           NumberOfElectrons(g) # Unset, IncarBands(g, NumberOfElectrons(g)) # Unset
    PROVE  IncarBands(g, NumberOfElectrons(g))
              > OccupiedBands(NumberOfElectrons(g),
                              IF gen[g].request.bands = Unset THEN 1 ELSE gen[g].request.spin.ispin,
                              gen[g].request.spin.moment)
  <1>1. gen[g] \in Run /\ DirOK
    BY Runs DEF CalculationTypeOK, WriteIncar, At
  <1>2. /\ gen[g].request.bands \in Int \cup {Unset}
        /\ gen[g].request.nelect \in Nat \cup {Unset}
        /\ gen[g].request.spin \in Spins
    BY <1>1, DatasetAssumption DEF Run
  <1> DEFINE spin == gen[g].request.spin
  <1>7. /\ spin.ispin \in {1, 2} /\ spin.moment \in Int \cup {Unset, PerIon}
        /\ spin.noncollinear \in BOOLEAN
    BY <1>2 DEF Spins
  <1>3. PICK h \in Nat : h = NumberOfElectrons(g)
    <2>1. dir.POSCAR \in Structures \cup {Missing} /\ Datasets(dir.POTCAR) \in Seq(DOMAIN Zval) \cup {Missing}
      BY <1>1 DEF DirOK, Poscars, Datasets, DatasetsKnown, Contents
    <2>2. Electrons(dir.POSCAR, Datasets(dir.POTCAR), Zval) \in Nat \cup {Unset}
      BY <2>1, ElectronsNat
    <2> QED BY <1>2, <2>2 DEF NumberOfElectrons
  <1>4. PICK ions \in Nat : ions = Total(gen[g].structure.poscar.counts)
    <2>1. gen[g].structure.poscar \in Structures
      BY <1>1 DEF Run, Versions
    <2>2. PICK c \in Seq(Nat) : c = gen[g].structure.poscar.counts
      BY <2>1, StructureAssumption
    <2>3. Len(c) \in Nat /\ \A i \in 1 .. Len(c) : c[i] \in Nat
      OBVIOUS
    <2>4. Total(c) \in Nat
      BY <2>3, TotalNat
    <2> QED BY <2>2, <2>4
  <1>5. CASE gen[g].request.bands = Unset
    <2>1. IncarBands(g, h) = ChooseBands(gen[g].request.job, h, ions, Unset, spin.noncollinear)
      BY <1>3, <1>4, <1>5 DEF IncarBands
    <2>2. IncarBands(g, h) > OccupiedBands(h, 1, spin.moment)
      BY <1>3, <1>7, <2>1, ChosenAbove
    <2> QED BY <1>3, <1>5, <2>2
  <1>6. CASE gen[g].request.bands # Unset
    <2>1. PICK user \in Int : user = gen[g].request.bands
      BY <1>2, <1>6
    <2>2. IncarBands(g, h) = user
      BY <1>3, <1>6, <2>1 DEF IncarBands, ChooseBands
    <2>3. ~BandsRefused(user, h, spin)
      BY <1>3, <1>6, <2>1, IncarDir DEF Refused
    <2>4. ~(spin.ispin = 2 /\ spin.moment = PerIon) /\ ~BandsTooFew(user, h, spin.ispin, spin.moment)
      BY <2>3 DEF BandsRefused
    <2>5. PICK o \in Int : o = OccupiedBands(h, spin.ispin, spin.moment)
      BY <1>7, <2>4, OccupiedInt
    <2>6. ~(user <= o)
      BY <2>4, <2>5 DEF BandsTooFew
    <2>7. user > o
      BY <2>6
    <2> QED BY <1>3, <1>6, <2>2, <2>5, <2>7, Zenon
  <1> QED BY <1>5, <1>6

\* INCAR is written by a generation, or placed by the user without a number
\* of bands.
LEMMA BandsKept ==
    Inv /\ DatasetsKnown /\ BandsAboveOccupied /\ [CalcNext]_calcVars => BandsAboveOccupied'
  <1> SUFFICES ASSUME Inv, DatasetsKnown, BandsAboveOccupied, [CalcNext]_calcVars
               PROVE  BandsAboveOccupied'
    OBVIOUS
  <1>0. CalculationTypeOK /\ FilesApart /\ DirOK
    BY DEF Inv, CalculationTypeOK
  <1>1. ASSUME dir'.INCAR = dir.INCAR PROVE BandsAboveOccupied'
    BY <1>1 DEF BandsAboveOccupied
  <1>2. ASSUME NEW s \in Structures, NEW t \in Texts, PlaceInputs(s, t) PROVE BandsAboveOccupied'
    <2>1. PICK i : /\ i.bands = Unset
                   /\ dir' = [dir EXCEPT !.POSCAR = s, !.KPOINTS = [mode |-> "line", text |-> "plain"],
                                         !.INCAR = i]
      <3>1. PICK i : i = [version |-> 0, halves |-> Unset, bands |-> Unset, request |-> Unset,
                          parallel |-> Unset, dynamics |-> FALSE, text |-> t]
        OBVIOUS
      <3> QED BY <1>2, <3>1 DEF PlaceInputs
    <2>2. dir'.INCAR = i
      BY <1>0, <2>1, SetInputs DEF Poscars
    <2> QED BY <2>1, <2>2 DEF BandsAboveOccupied
  <1>3. ASSUME NEW g \in Generators, WriteIncar(g) PROVE BandsAboveOccupied'
    <2>1. CASE UNCHANGED dir
      BY <1>1, <2>1
    <2>2. CASE ~UNCHANGED dir
      <3>1. /\ dir'.INCAR.halves = NumberOfElectrons(g)
            /\ dir'.INCAR.bands = IncarBands(g, NumberOfElectrons(g))
            /\ dir'.INCAR.request = gen[g].request
        BY <1>0, <1>3, <2>2, IncarDir
      <3> QED BY <1>0, <1>3, <2>2, <3>1, WrittenBands DEF BandsAboveOccupied
    <2> QED BY <2>1, <2>2
  <1>4. ASSUME NEW p \in UserPotcars, PlacePotcar(p) PROVE dir'.INCAR = dir.INCAR
    <2>1. PICK f \in Potcars : f = [file |-> made, by |-> "user", content |-> p]
      BY <1>0 DEF Potcars, CalculationTypeOK, RestOK
    <2>2. dir' = [dir EXCEPT !.POTCAR = f]
      BY <1>4, <2>1 DEF PlacePotcar
    <2> QED BY <1>0, <2>2, SetPotcar
  <1>5. CASE RemovePotcar
    BY <1>0, <1>1, <1>5, SetPotcar DEF RemovePotcar
  <1>6. ASSUME NEW g \in Generators, WritePoscar(g) PROVE dir'.INCAR = dir.INCAR
    <2>1. gen[g] \in Run
      BY <1>0, <1>6, Runs DEF WritePoscar, At, CalculationTypeOK
    <2>2. gen[g].structure.poscar \in Poscars
      BY <2>1 DEF Run, Versions, Poscars
    <2> QED BY <1>0, <1>6, <2>2, SetPoscar DEF WritePoscar
  <1>7. ASSUME NEW g \in Generators, Link(g) PROVE dir'.INCAR = dir.INCAR
    <2>1. gen[g].temp \in Potcars
      BY <1>0, <1>7 DEF Link, At, Holds, FilesApart
    <2> QED BY <1>0, <1>7, <2>1, LinkDir
  <1>8. ASSUME NEW g \in Generators, Unlink(g) \/ WriteKpoints(g) PROVE dir'.INCAR = dir.INCAR
    BY <1>0, <1>8, SetPotcar, SetKpoints DEF Unlink, WriteKpoints
  <1>9. \/ UNCHANGED dir
        \/ \E s \in Structures, t \in Texts : PlaceInputs(s, t)
        \/ \E p \in UserPotcars : PlacePotcar(p)
        \/ RemovePotcar
        \/ \E g \in Generators :
              WriteIncar(g) \/ WritePoscar(g) \/ Link(g) \/ Unlink(g) \/ WriteKpoints(g)
    <2>1. ASSUME NEW g \in Generators,
                 \/ ReadSpecies(g) \/ Find(g) \/ Choose(g) \/ Stage(g) \/ StageFails(g) \/ ReadOrder(g)
                 \/ Compare(g) \/ SameFile(g) \/ Discard(g) \/ Fail(g) \/ Register(g) \/ Crash(g)
          PROVE  UNCHANGED dir
      BY <2>1 DEF ReadSpecies, Find, Choose, Stage, StageFails, ReadOrder, Compare, SameFile,
                  Discard, Fail, Register, Crash
    <2> QED BY <2>1 DEF CalcNext, calcVars, Remodel, Direct, Begin, BeginPlan, FinishPlan
  <1> QED BY <1>1, <1>2, <1>3, <1>4, <1>5, <1>6, <1>7, <1>8, <1>9

\* NBANDS, where INCAR has one and the electrons are known, is above the bands
\* that they and the moment occupy when the user asked for the number, by its
\* check, and above those that they occupy without a moment when it was chosen,
\* by the multiple of the default: for any structure, any datasets, any number
\* of electrons and any spin.
THEOREM CalcBandsAboveOccupied == CalcSpec => []BandsAboveOccupied
  <1>1. CalcInit => BandsInv
    BY InitInv DEF CalcInit, Idle, Holds, DatasetsKnown, BandsAboveOccupied, BandsInv
  <1>2. BandsInv /\ [CalcNext]_calcVars => BandsInv'
    BY NextInv, KnownKept, BandsKept DEF BandsInv
  <1>3. BandsInv => BandsAboveOccupied
    BY DEF BandsInv
  <1> QED BY <1>1, <1>2, <1>3, PTL DEF CalcSpec


-----------------------------------------------------------------------------
(* The bindings of run plans.                                              *)

\* What a process that is about to record has seen is still so: no record of
\* the history ever changes.
BindingSeenInv ==
    \A p \in Procs : pc[p] = "record" =>
        \/ seen[p] = 0
        \/ seen[p] \in Of(req[p].plan) /\ history[seen[p]].to # req[p].to

\* A process that is about to answer points to a record of its plan.
ReplyInv == \A p \in Procs : pc[p] = "answer" => reply[p].id \in Of(req[p].plan)

BindingInv ==
    /\ TypeOK
    /\ BindingSeenInv
    /\ ReplyInv
    /\ RecordedOnce
    /\ CorrectsAnother
    /\ AnswersOnRecord

\* What an appended record leaves as it was.
LEMMA RecordAppended ==
    ASSUME TypeOK, NEW r \in Record, history' = Append(history, r)
    PROVE  /\ history' \in Seq(Record)
           /\ Len(history') = Len(history) + 1
           /\ history'[Len(history) + 1] = r
           /\ \A i \in 1..Len(history) : history'[i] = history[i]
           /\ \A i \in 1..Len(history') : i \in 1..Len(history) \/ i = Len(history) + 1
           /\ \A h \in Plans : Of(h) \subseteq Of(h)'
  <1>1. history \in Seq(Record)
    BY DEF TypeOK
  <1>2. /\ history' \in Seq(Record)
        /\ Len(history') = Len(history) + 1
        /\ history'[Len(history) + 1] = r
        /\ \A i \in 1..Len(history) : history'[i] = history[i]
    BY <1>1
  <1>3. \A i \in 1..Len(history') : i \in 1..Len(history) \/ i = Len(history) + 1
    BY <1>1, <1>2
  <1>4. \A h \in Plans : Of(h) \subseteq Of(h)'
    BY <1>1, <1>2 DEF Of
  <1> QED BY <1>2, <1>3, <1>4

\* The record a call builds is a record.
LEMMA WantedType ==
    ASSUME TypeOK, NEW p \in Procs
    PROVE  Wanted(p) \in Record
  BY DEF TypeOK, Wanted, Record

\* The positions of the records of a plan.
LEMMA OfType == TypeOK => \A h \in Plans : Of(h) \subseteq 1..Len(history) /\ Latest(h) \subseteq Of(h)
  BY DEF Of, Latest, TypeOK

\* The initial state satisfies the invariant.
LEMMA BindingInit ==
    Init => BindingInv
  <1> SUFFICES ASSUME Init PROVE BindingInv
    OBVIOUS
  <1>1. Plans # {} /\ (CHOOSE h \in Plans : TRUE) \in Plans
    BY ConstAssumption
  <1>2. TypeOK
    BY <1>1 DEF Init, TypeOK, Targets
  <1>3. BindingSeenInv /\ ReplyInv /\ RecordedOnce /\ CorrectsAnother /\ AnswersOnRecord
    BY DEF Init, BindingSeenInv, ReplyInv, RecordedOnce, CorrectsAnother, AnswersOnRecord
  <1> QED BY <1>2, <1>3 DEF BindingInv

\* No step takes a variable out of its type.
LEMMA BindingNextType == TypeOK /\ [Next]_vars => TypeOK'
  <1> SUFFICES ASSUME TypeOK, [Next]_vars PROVE TypeOK'
    OBVIOUS
  <1> USE DEF TypeOK
  <1>1. ASSUME NEW p \in Procs, Call(p) PROVE TypeOK'
    <2>1. PICK h \in Plans, b \in Targets : req' = [req EXCEPT ![p] = [plan |-> h, to |-> b]]
      BY <1>1 DEF Call
    <2>2. req' \in [Procs -> [plan : Plans, to : Targets]]
      BY <2>1
    <2>3. calls' \in Nat
      BY <1>1 DEF Call
    <2> QED BY <1>1, <2>2, <2>3 DEF Call, Goto
  <1>2. ASSUME NEW p \in Procs, ReadCurrent(p) PROVE TypeOK'
    <2>1. PICK i \in Latest(req[p].plan) :
            reply' = [reply EXCEPT ![p] = [to |-> history[i].to, id |-> i]]
      BY <1>2 DEF ReadCurrent
    <2>2. i \in 1..Len(history) /\ i \in Nat
      BY OfType
    <2>3. history[i] \in Record
      BY <2>2
    <2>4. history[i].to \in Targets
      BY <2>3 DEF Record
    <2>5. reply' \in [Procs -> [to : Targets, id : Nat]]
      BY <2>1, <2>2, <2>4
    <2> QED BY <1>2, <2>5 DEF ReadCurrent, Goto
  <1>3. ASSUME NEW p \in Procs, ReadDifferent(p) PROVE TypeOK'
    <2>1. PICK i \in Latest(req[p].plan) \cup {0} : seen' = [seen EXCEPT ![p] = i]
      BY <1>3 DEF ReadDifferent
    <2>2. i \in Nat
      BY OfType
    <2> QED BY <1>3, <2>1, <2>2 DEF ReadDifferent, Goto
  <1>4. ASSUME NEW p \in Procs, AppendRecord(p) PROVE TypeOK'
    <2>1. history' \in Seq(Record) /\ Len(history') \in Nat
      BY <1>4, WantedType, RecordAppended DEF AppendRecord
    <2> QED BY <1>4, <2>1 DEF AppendRecord, Goto
  <1>5. ASSUME NEW p \in Procs, ReplayRecord(p) PROVE TypeOK'
    <2>1. PICK i \in SameKey(Wanted(p)) :
            reply' = [reply EXCEPT ![p] = [to |-> req[p].to, id |-> i]]
      BY <1>5 DEF ReplayRecord
    <2>2. i \in Nat
      BY DEF SameKey, Of
    <2>3. reply' \in [Procs -> [to : Targets, id : Nat]]
      BY <2>1, <2>2
    <2> QED BY <1>5, <2>3 DEF ReplayRecord, Goto
  <1>6. ASSUME NEW p \in Procs, Answer(p) PROVE TypeOK'
    <2>1. reply[p] \in [to : Targets, id : Nat] /\ req[p].plan \in Plans
      OBVIOUS
    <2>2. told' \in [Plans -> Targets \cup {NoAnswer}]
      BY <1>6, <2>1 DEF Answer
    <2>3. answers' \in SUBSET [plan : Plans, to : Targets, id : Nat]
      BY <1>6, <2>1 DEF Answer
    <2> QED BY <1>6, <2>2, <2>3 DEF Answer, Goto
  <1>7. ASSUME NEW p \in Procs, ServerDies(p) PROVE TypeOK'
    BY <1>7 DEF ServerDies, Goto
  <1>8. CASE UNCHANGED vars
    BY <1>8 DEF vars, local
  <1> QED BY <1>1, <1>2, <1>3, <1>4, <1>5, <1>6, <1>7, <1>8 DEF Next, Step, Rest

\* A step that leaves the history alone leaves alone what is said of it.
LEMMA SameHistory ==
    ASSUME UNCHANGED history
    PROVE  /\ \A h \in Plans : Of(h)' = Of(h)
           /\ RecordedOnce => RecordedOnce'
           /\ CorrectsAnother => CorrectsAnother'
  BY DEF Of, RecordedOnce, CorrectsAnother

\* A record whose key is not there yet keeps the records apart.
LEMMA AppendOnce ==
    ASSUME TypeOK, RecordedOnce, NEW r \in Record, SameKey(r) = {},
           history' = Append(history, r)
    PROVE  RecordedOnce'
  <1>1. /\ Len(history') = Len(history) + 1
        /\ history'[Len(history) + 1] = r
        /\ \A i \in 1..Len(history) : history'[i] = history[i]
        /\ \A i \in 1..Len(history') : i \in 1..Len(history) \/ i = Len(history) + 1
    BY RecordAppended
  <1>2. \A i \in 1..Len(history) :
          ~(/\ history[i].plan = r.plan
            /\ history[i].operation = r.operation
            /\ r.operation = "correction" => history[i].to = r.to)
    BY DEF SameKey, Of
  <1>3. SUFFICES ASSUME NEW i \in 1..Len(history'), NEW j \in 1..Len(history'),
                        history'[i].plan = history'[j].plan,
                        history'[i].operation = history'[j].operation,
                        history'[i].operation = "correction" => history'[i].to = history'[j].to
                 PROVE  i = j
    BY DEF RecordedOnce
  <1>4. CASE i \in 1..Len(history) /\ j \in 1..Len(history)
    <2>1. history'[i] = history[i] /\ history'[j] = history[j]
      BY <1>1, <1>4
    <2> QED BY <1>3, <1>4, <2>1 DEF RecordedOnce
  <1>5. CASE i \in 1..Len(history) /\ j = Len(history) + 1
    <2>1. history'[i] = history[i] /\ history'[j] = r
      BY <1>1, <1>5
    <2> QED BY <1>2, <1>3, <1>5, <2>1
  <1>6. CASE i = Len(history) + 1 /\ j \in 1..Len(history)
    <2>1. history'[i] = r /\ history'[j] = history[j]
      BY <1>1, <1>6
    <2> QED BY <1>2, <1>3, <1>6, <2>1
  <1>7. \/ i \in 1..Len(history)
        \/ i = Len(history) + 1
    BY <1>1
  <1>8. \/ j \in 1..Len(history)
        \/ j = Len(history) + 1
    BY <1>1
  <1> QED BY <1>4, <1>5, <1>6, <1>7, <1>8

\* A record without parent that is the plan, or with an earlier record of the
\* plan as its parent that it differs from, keeps the way back.
LEMMA AppendCorrects ==
    ASSUME TypeOK, CorrectsAnother, NEW r \in Record, history' = Append(history, r),
           IF r.operation = "plan" THEN r.parent = 0
           ELSE r.parent \in Of(r.plan) /\ history[r.parent].to # r.to
    PROVE  CorrectsAnother'
  <1>1. /\ Len(history') = Len(history) + 1
        /\ history'[Len(history) + 1] = r
        /\ \A i \in 1..Len(history) : history'[i] = history[i]
        /\ \A i \in 1..Len(history') : i \in 1..Len(history) \/ i = Len(history) + 1
        /\ \A h \in Plans : Of(h) \subseteq Of(h)'
    BY RecordAppended
  <1>2. \A h : Of(h) \subseteq 1..Len(history)
    BY DEF Of
  <1>3. SUFFICES ASSUME NEW i \in 1..Len(history')
                 PROVE  IF history'[i].operation = "plan" THEN history'[i].parent = 0
                        ELSE /\ history'[i].parent \in Of(history[i].plan)'
                             /\ history'[i].parent < i
                             /\ history'[history'[i].parent].to # history'[i].to
    BY DEF CorrectsAnother
  <1>4. CASE i \in 1..Len(history)
    <2>1. PICK e \in Record : e = history[i] /\ history'[i] = e
      BY <1>1, <1>4 DEF TypeOK
    <2>2. IF e.operation = "plan" THEN e.parent = 0
          ELSE e.parent \in Of(e.plan) /\ e.parent < i /\ history[e.parent].to # e.to
      BY <1>4, <2>1 DEF CorrectsAnother
    <2>3. e.plan \in Plans
      BY <2>1 DEF Record
    <2>4. e.operation # "plan" => e.parent \in Of(e.plan)' /\ history'[e.parent] = history[e.parent]
      BY <1>1, <1>2, <2>2, <2>3
    <2> QED BY <2>1, <2>2, <2>4
  <1>5. CASE i = Len(history) + 1
    <2>1. history'[i] = r
      BY <1>1, <1>5
    <2>2. r.plan \in Plans
      BY DEF Record
    <2>3. r.operation # "plan" =>
            /\ r.parent \in Of(r.plan)'
            /\ r.parent \in 1..Len(history)
            /\ history'[r.parent] = history[r.parent]
      BY <1>1, <1>2, <2>2
    <2>4. Len(history) \in Nat
      BY DEF TypeOK
    <2> QED BY <1>5, <2>1, <2>3, <2>4
  <1> QED BY <1>1, <1>4, <1>5

\* record_event keeps the records apart, and leads back to what it corrects.
LEMMA AppendKeeps ==
    ASSUME BindingInv, NEW p \in Procs, AppendRecord(p)
    PROVE  RecordedOnce' /\ CorrectsAnother'
  <1>1. TypeOK /\ BindingSeenInv /\ RecordedOnce /\ CorrectsAnother /\ Wanted(p) \in Record
    BY WantedType DEF BindingInv
  <1>2. history' = Append(history, Wanted(p)) /\ SameKey(Wanted(p)) = {} /\ pc[p] = "record"
    BY DEF AppendRecord
  <1>3. RecordedOnce'
    BY <1>1, <1>2, AppendOnce
  <1>4. /\ Wanted(p).operation = IF seen[p] = 0 THEN "plan" ELSE "correction"
        /\ Wanted(p).plan = req[p].plan
        /\ Wanted(p).to = req[p].to
        /\ Wanted(p).parent = seen[p]
    BY DEF Wanted
  <1>5. seen[p] = 0 \/ (seen[p] \in Of(req[p].plan) /\ history[seen[p]].to # req[p].to)
    BY <1>1, <1>2 DEF BindingSeenInv
  <1>6. CorrectsAnother'
    BY <1>1, <1>2, <1>4, <1>5, AppendCorrects
  <1> QED BY <1>3, <1>6

\* No step breaks the invariant.
LEMMA BindingNext == BindingInv /\ [Next]_vars => BindingInv'
  <1> SUFFICES ASSUME BindingInv, [Next]_vars PROVE BindingInv'
    OBVIOUS
  <1>1. TypeOK /\ TypeOK'
    BY BindingNextType DEF BindingInv
  <1>2. BindingSeenInv /\ ReplyInv /\ RecordedOnce /\ CorrectsAnother /\ AnswersOnRecord
    BY DEF BindingInv
  <1>3. ASSUME NEW p \in Procs, Call(p) PROVE BindingInv'
    <2>1. UNCHANGED <<history, seen, reply, answers>>
          /\ pc' = [pc EXCEPT ![p] = "read"]
          /\ \A q \in Procs : q # p => req'[q] = req[q]
      BY <1>1, <1>3 DEF Call, Goto, TypeOK
    <2>2. BindingSeenInv' /\ ReplyInv'
      BY <1>1, <1>2, <2>1, SameHistory DEF BindingSeenInv, ReplyInv, TypeOK, Of
    <2> QED BY <1>1, <1>2, <2>1, <2>2, SameHistory DEF BindingInv, AnswersOnRecord, Of
  <1>4. ASSUME NEW p \in Procs, ReadCurrent(p) PROVE BindingInv'
    <2>1. UNCHANGED <<history, req, seen, answers>> /\ pc' = [pc EXCEPT ![p] = "answer"]
      BY <1>4 DEF ReadCurrent, Goto
    <2>2. PICK i \in Latest(req[p].plan) :
            reply' = [reply EXCEPT ![p] = [to |-> history[i].to, id |-> i]]
      BY <1>4 DEF ReadCurrent
    <2>3. i \in Of(req[p].plan)
      BY DEF Latest
    <2>4. BindingSeenInv'
      BY <1>1, <1>2, <2>1 DEF BindingSeenInv, TypeOK, Of
    <2>5. ReplyInv'
      BY <1>1, <1>2, <2>1, <2>2, <2>3 DEF ReplyInv, TypeOK, Of
    <2> QED BY <1>1, <1>2, <2>1, <2>4, <2>5, SameHistory DEF BindingInv, AnswersOnRecord, Of
  <1>5. ASSUME NEW p \in Procs, ReadDifferent(p) PROVE BindingInv'
    <2>1. UNCHANGED <<history, req, reply, answers>> /\ pc' = [pc EXCEPT ![p] = "record"]
      BY <1>5 DEF ReadDifferent, Goto
    <2>2. \A q \in Procs : q # p => seen'[q] = seen[q]
      BY <1>1, <1>5 DEF ReadDifferent, TypeOK
    <2>3. \/ seen'[p] = 0
          \/ seen'[p] \in Of(req[p].plan) /\ history[seen'[p]].to # req[p].to
      BY <1>1, <1>5 DEF ReadDifferent, TypeOK, Latest
    <2>4. BindingSeenInv'
      BY <1>1, <1>2, <2>1, <2>2, <2>3 DEF BindingSeenInv, TypeOK, Of
    <2>5. ReplyInv'
      BY <1>1, <1>2, <2>1 DEF ReplyInv, TypeOK, Of
    <2> QED BY <1>1, <1>2, <2>1, <2>4, <2>5, SameHistory DEF BindingInv, AnswersOnRecord, Of
  <1>6. ASSUME NEW p \in Procs, AppendRecord(p) PROVE BindingInv'
    <2>1. /\ UNCHANGED <<req, seen, answers>>
          /\ pc' = [pc EXCEPT ![p] = "answer"]
          /\ reply' = [reply EXCEPT ![p] = [to |-> req[p].to, id |-> Len(history')]]
          /\ history' = Append(history, Wanted(p))
      BY <1>6 DEF AppendRecord, Goto
    <2>2. /\ Len(history') = Len(history) + 1
          /\ history'[Len(history) + 1] = Wanted(p)
          /\ \A i \in 1..Len(history) : history'[i] = history[i]
          /\ \A h \in Plans : Of(h) \subseteq Of(h)'
      BY <1>1, <2>1, WantedType, RecordAppended
    <2>3. \A q \in Procs : req[q].plan \in Plans
      BY <1>1 DEF TypeOK
    <2>4. BindingSeenInv'
      <3>1. SUFFICES ASSUME NEW q \in Procs, pc'[q] = "record"
                     PROVE  \/ seen'[q] = 0
                            \/ seen'[q] \in Of(req[q].plan)' /\ history'[seen'[q]].to # req'[q].to
        BY DEF BindingSeenInv
      <3>2. pc[q] = "record"
        BY <1>1, <2>1, <3>1 DEF TypeOK
      <3>3. \/ seen[q] = 0
            \/ seen[q] \in Of(req[q].plan) /\ history[seen[q]].to # req[q].to
        BY <1>2, <3>2 DEF BindingSeenInv
      <3>4. seen[q] \in Of(req[q].plan) => seen[q] \in 1..Len(history)
        BY DEF Of
      <3>5. seen'[q] = seen[q] /\ req'[q] = req[q]
        BY <2>1
      <3>6. CASE seen[q] = 0
        BY <3>5, <3>6
      <3>7. CASE seen[q] \in Of(req[q].plan) /\ history[seen[q]].to # req[q].to
        <4>1. history'[seen[q]] = history[seen[q]]
          BY <2>2, <3>4, <3>7
        <4>2. seen[q] \in Of(req[q].plan)'
          BY <2>1, <2>2, <2>3, <3>7 DEF Of
        <4> QED BY <2>1, <3>5, <3>7, <4>1, <4>2 DEF Of
      <3> QED BY <3>3, <3>6, <3>7
    <2>5. ReplyInv'
      <3>1. Len(history') \in Of(req[p].plan)'
        <4>1. Wanted(p).plan = req[p].plan
          BY DEF Wanted
        <4>2. Len(history') \in 1..Len(history')
          BY <1>1, <2>2 DEF TypeOK
        <4>3. history'[Len(history')].plan = req[p].plan
          BY <2>2, <4>1
        <4> QED BY <2>1, <4>2, <4>3 DEF Of
      <3>2. \A q \in Procs : q # p => reply'[q] = reply[q] /\ pc'[q] = pc[q]
        BY <1>1, <2>1 DEF TypeOK
      <3>3. reply'[p].id = Len(history')
        BY <1>1, <2>1 DEF TypeOK
      <3> QED BY <1>2, <2>1, <2>2, <2>3, <3>1, <3>2, <3>3 DEF ReplyInv
    <2>6. AnswersOnRecord'
      BY <1>1, <1>2, <2>1, <2>2 DEF AnswersOnRecord, TypeOK
    <2> QED BY <1>1, <1>6, <2>4, <2>5, <2>6, AppendKeeps DEF BindingInv
  <1>7. ASSUME NEW p \in Procs, ReplayRecord(p) PROVE BindingInv'
    <2>1. UNCHANGED <<history, req, seen, answers>> /\ pc' = [pc EXCEPT ![p] = "answer"]
      BY <1>7 DEF ReplayRecord, Goto
    <2>2. PICK i \in SameKey(Wanted(p)) :
            reply' = [reply EXCEPT ![p] = [to |-> req[p].to, id |-> i]]
      BY <1>7 DEF ReplayRecord
    <2>3. i \in Of(req[p].plan)
      BY DEF SameKey, Wanted
    <2>4. BindingSeenInv'
      BY <1>1, <1>2, <2>1 DEF BindingSeenInv, TypeOK, Of
    <2>5. ReplyInv'
      BY <1>1, <1>2, <2>1, <2>2, <2>3 DEF ReplyInv, TypeOK, Of
    <2> QED BY <1>1, <1>2, <2>1, <2>4, <2>5, SameHistory DEF BindingInv, AnswersOnRecord, Of
  <1>8. ASSUME NEW p \in Procs, Answer(p) PROVE BindingInv'
    <2>1. UNCHANGED <<history, req, seen, reply>> /\ pc' = [pc EXCEPT ![p] = "idle"]
      BY <1>8 DEF Answer, Goto
    <2>2. BindingSeenInv' /\ ReplyInv'
      BY <1>1, <1>2, <2>1 DEF BindingSeenInv, ReplyInv, TypeOK, Of
    <2>3. AnswersOnRecord'
      <3>1. reply[p].id \in Of(req[p].plan)
        BY <1>2, <1>8 DEF ReplyInv, Answer
      <3>2. \A a \in answers' : a \in answers \/ (a.plan = req[p].plan /\ a.id = reply[p].id)
        BY <1>8 DEF Answer
      <3> QED BY <1>2, <2>1, <3>1, <3>2 DEF AnswersOnRecord, Of
    <2> QED BY <1>1, <1>2, <2>1, <2>2, <2>3, SameHistory DEF BindingInv
  <1>9. ASSUME NEW p \in Procs, ServerDies(p) PROVE BindingInv'
    <2>1. UNCHANGED <<history, req, seen, reply, answers>> /\ pc' = [pc EXCEPT ![p] = "idle"]
      BY <1>9 DEF ServerDies, Goto
    <2>2. BindingSeenInv' /\ ReplyInv'
      BY <1>1, <1>2, <2>1 DEF BindingSeenInv, ReplyInv, TypeOK, Of
    <2> QED BY <1>1, <1>2, <2>1, <2>2, SameHistory DEF BindingInv, AnswersOnRecord, Of
  <1>10. CASE UNCHANGED vars
    <2>1. UNCHANGED <<history, pc, req, seen, reply, answers>>
      BY <1>10 DEF vars, local
    <2>2. BindingSeenInv' /\ ReplyInv'
      BY <1>2, <2>1 DEF BindingSeenInv, ReplyInv, Of
    <2> QED BY <1>1, <1>2, <2>1, <2>2, SameHistory DEF BindingInv, AnswersOnRecord, Of
  <1> QED BY <1>3, <1>4, <1>5, <1>6, <1>7, <1>8, <1>9, <1>10 DEF Next, Step, Rest

\* Every variable keeps its type in every behaviour.
THEOREM BindingTypeOK == Spec => []TypeOK
  <1>1. Init => BindingInv
    BY BindingInit
  <1>2. BindingInv /\ [Next]_vars => BindingInv'
    BY BindingNext
  <1>3. BindingInv => TypeOK
    BY DEF BindingInv
  <1> QED BY <1>1, <1>2, <1>3, PTL DEF Spec

\* bind_run_plan records a plan once, and each correction of its binding once,
\* for any number of servers that call it at once.
THEOREM BindingRecordedOnce == Spec => []RecordedOnce
  <1>1. Init => BindingInv
    BY BindingInit
  <1>2. BindingInv /\ [Next]_vars => BindingInv'
    BY BindingNext
  <1>3. BindingInv => RecordedOnce
    BY DEF BindingInv
  <1> QED BY <1>1, <1>2, <1>3, PTL DEF Spec

\* The parents of the records of a plan lead back from correction to
\* correction, each to another binding, down to the plan.
THEOREM BindingCorrects == Spec => []CorrectsAnother
  <1>1. Init => BindingInv
    BY BindingInit
  <1>2. BindingInv /\ [Next]_vars => BindingInv'
    BY BindingNext
  <1>3. BindingInv => CorrectsAnother
    BY DEF BindingInv
  <1> QED BY <1>1, <1>2, <1>3, PTL DEF Spec

\* binding_record_id in an answer always names a record of the plan.
THEOREM BindingAnswers == Spec => []AnswersOnRecord
  <1>1. Init => BindingInv
    BY BindingInit
  <1>2. BindingInv /\ [Next]_vars => BindingInv'
    BY BindingNext
  <1>3. BindingInv => AnswersOnRecord
    BY DEF BindingInv
  <1> QED BY <1>1, <1>2, <1>3, PTL DEF Spec
=============================================================================
