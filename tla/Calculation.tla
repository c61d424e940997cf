---------------------------- MODULE Calculation ----------------------------
(***************************************************************************)
(* One calculation directory: the input generation of VASP, with its       *)
(* restricted POTCAR, and the compute plan that reads what was generated.  *)
(*                                                                         *)
(* Two sessions may generate into the same directory, each as a process    *)
(* that writes POSCAR, finds or makes POTCAR, writes INCAR and KPOINTS and  *)
(* registers a manifest; nothing locks the directory.  POTCAR is made in a *)
(* temporary file and linked to its name.  A user remodels the structure,  *)
(* places files of his own and removes POTCAR; a process may end at any    *)
(* step.  A file is written in one step: what a cut write leaves is not    *)
(* modelled here.                                                          *)
(***************************************************************************)
EXTENDS Naturals, FiniteSets, Sequences, Readiness

CONSTANTS None,         \* no structure, manifest, plan or call
          Generators,   \* sessions that generate inputs
          Structures,   \* the POSCAR contents a modeling stage may register
          UserPotcars,  \* the POTCAR contents a user may place
          Requests,     \* what a generation is called with
          PlanRequests, \* what a compute stage is called with
          SetupTables,  \* ASE's setup profiles
          Zval,         \* valence electrons of a dataset, in halves
          MaxStructures, MaxCalls, MaxFiles, MaxFaults  \* bounds

ASSUME CalculationBounds == {MaxStructures, MaxCalls, MaxFiles, MaxFaults} \subseteq Nat

\* "None" is not a structure.
ASSUME NoneAssumption == None \notin [version : Nat, poscar : Structures]

\* A readable POSCAR of a modeling stage counts the atoms of each species.
ASSUME StructureAssumption ==
    \A s \in Structures :
        /\ s.species \in Seq(STRING) /\ s.counts \in Seq(Nat)
        /\ Readable(s) => Len(s.counts) = Len(s.species)

\* The magnetism of a request: the moment is in halves.
Spins == [ispin : {1, 2}, moment : Int \cup {Unset, PerIon}, noncollinear : BOOLEAN]

\* Every dataset of a library or of a user's POTCAR states its electrons,
\* and a number of bands or of electrons that is asked for is a number.
ASSUME DatasetAssumption ==
    /\ Zval \in [DOMAIN Zval -> Nat]
    /\ UserPotcars \subseteq Seq(DOMAIN Zval)
    /\ \A r \in Requests : /\ r.library = Unset \/ r.library \subseteq DOMAIN Zval
                           /\ r.bands \in Int \cup {Unset}
                           /\ r.nelect \in Nat \cup {Unset}
                           /\ r.spin \in Spins

VARIABLES sessions,     \* how many sessions work at a time
          structure,    \* the registered structure: its version and its POSCAR
          dir,          \* the calculation directory
          temps,        \* the temporary files in it
          gen,          \* the generation each session runs
          manifest,     \* input_manifest.json, registered
          planner,      \* the compute stage: the manifest it works from
          plan,         \* compute_plan.json
          made, started, faults  \* counters for the bounds

calcVars == <<sessions, structure, dir, temps, gen, manifest, planner, plan,
              made, started, faults>>

Regular == {"INCAR", "KPOINTS", "POSCAR"}

Idle == [pc |-> "idle"]
Quiet == \A g \in Generators : gen[g].pc = "idle"

\* "made" counts the files made so far: it is the next inode.
CalcInit ==
    /\ sessions \in {1, 2}
    /\ structure = None
    /\ dir = [POSCAR |-> Missing, INCAR |-> Missing, KPOINTS |-> Missing,
              POTCAR |-> Missing, CHGCAR |-> Missing, images |-> 0]
    /\ temps = {} /\ gen = [g \in Generators |-> Idle]
    /\ manifest = None /\ planner = None /\ plan = None
    /\ made = 0 /\ started = 0 /\ faults = 0

-----------------------------------------------------------------------------
(* The user and the modeling stage.                                        *)

\* The modeling stage registers a structure.  Sessions that work one after
\* the other do so between two generations.
Remodel(s) ==
    /\ IF structure = None THEN 0 < MaxStructures ELSE structure.version < MaxStructures
    /\ sessions = 1 => Quiet
    /\ structure' = [version |-> IF structure = None THEN 1 ELSE structure.version + 1,
                     poscar  |-> s]
    /\ UNCHANGED <<sessions, dir, temps, gen, manifest, planner, plan, made, started, faults>>

\* A POTCAR of the user's own, where there is none.
PlacePotcar(content) ==
    /\ dir.POTCAR = Missing /\ made < MaxFiles
    /\ dir' = [dir EXCEPT !.POTCAR = [file |-> made, by |-> "user", content |-> content]]
    /\ made' = made + 1
    /\ UNCHANGED <<sessions, structure, temps, gen, manifest, planner, plan, started, faults>>

\* The user removes POTCAR, though not in the moment between the samefile
\* and the unlink of a generation: a file that took the name in that moment
\* would be unlinked in its place.
RemovePotcar ==
    /\ dir.POTCAR # Missing /\ \A g \in Generators : gen[g].pc # "unlink"
    /\ dir' = [dir EXCEPT !.POTCAR = Missing]
    /\ UNCHANGED <<sessions, structure, temps, gen, manifest, planner, plan, made,
                   started, faults>>

\* In a project without a modeling stage the files are the user's.
PlaceInputs(s, text) ==
    /\ structure = None /\ dir.POSCAR = Missing
    /\ dir' = [dir EXCEPT
         !.POSCAR = s, !.KPOINTS = [mode |-> "line", text |-> "plain"],
         !.INCAR = [version |-> 0, halves |-> Unset, bands |-> Unset, request |-> Unset,
                    parallel |-> Unset, dynamics |-> FALSE, text |-> text]]
    /\ UNCHANGED <<sessions, structure, temps, gen, manifest, planner, plan, made,
                   started, faults>>

-----------------------------------------------------------------------------
(* Inputs the user brings along.                                           *)

\* The POTCAR among them must be what the setups resolve to.
OwnPotcarFits(r) ==
    LET setups == ResolveSetups(Species(dir.POSCAR), r.setups, SetupTables)
    IN  /\ setups.reason = "none"
        /\ PotcarValid(dir.POSCAR, dir.POTCAR.content, setups.datasets)

\* The manifest of the files there are; an unfit POTCAR is an error.
Direct(r) ==
    /\ structure = None /\ started < MaxCalls
    /\ \E name \in Regular \cup {"POTCAR"} : dir[name] # Missing
    /\ dir.POTCAR # Missing => OwnPotcarFits(r)
    /\ started' = started + 1
    /\ manifest' = [version    |-> 0,
                    task       |-> r.job,
                    listed     |-> {name \in Regular : dir[name] # Missing},
                    restricted |-> IF dir.POTCAR = Missing THEN {} ELSE {"POTCAR"}]
    /\ UNCHANGED <<sessions, structure, dir, temps, gen, planner, plan, made, faults>>

-----------------------------------------------------------------------------
(* A generation, step by step.                                             *)

At(g, pc) == gen[g].pc = pc
GoTo(g, pc) == gen' = [gen EXCEPT ![g].pc = pc]
Ends(g) == gen' = [gen EXCEPT ![g] = Idle]

Begin(g, r) ==
    /\ At(g, "idle") /\ structure # None /\ started < MaxCalls
    /\ sessions = 1 => Quiet
    /\ started' = started + 1
    /\ gen' = [gen EXCEPT ![g] =
         [pc |-> "poscar", structure |-> structure, request |-> r, species |-> <<>>,
          expected |-> <<>>, seen |-> Missing, checks |-> None, temp |-> None,
          potcar |-> FALSE]]
    /\ UNCHANGED <<sessions, structure, dir, temps, manifest, planner, plan, made, faults>>

WritePoscar(g) ==
    /\ At(g, "poscar") /\ GoTo(g, "species")
    /\ dir' = [dir EXCEPT !.POSCAR = gen[g].structure.poscar]
    /\ UNCHANGED <<sessions, structure, temps, manifest, planner, plan, made, started, faults>>

ReadSpecies(g) ==
    /\ At(g, "species")
    /\ gen' = [gen EXCEPT ![g].pc = "look", ![g].species = Species(dir.POSCAR)]
    /\ UNCHANGED <<sessions, structure, dir, temps, manifest, planner, plan, made,
                   started, faults>>

Setups(g) == ResolveSetups(gen[g].species, gen[g].request.setups, SetupTables)

\* Mutant: a POTCAR that is there is taken as it is.
FindTrusted(g) ==
    /\ At(g, "look") /\ dir.POTCAR # Missing
    /\ gen' = [gen EXCEPT ![g].pc = "incar", ![g].potcar = TRUE]
    /\ UNCHANGED <<sessions, structure, dir, temps, manifest, planner, plan, made,
                   started, faults>>

\* A POTCAR that is there is checked, against what the setups resolve to,
\* and never replaced.
Find(g) ==
    /\ At(g, "look") /\ dir.POTCAR # Missing
    /\ gen' = [gen EXCEPT ![g].pc = IF Setups(g).reason = "none" THEN "order" ELSE "fail",
                          ![g].expected = Setups(g).datasets, ![g].checks = "existing"]
    /\ UNCHANGED <<sessions, structure, dir, temps, manifest, planner, plan, made,
                   started, faults>>

\* Without one the library must hold every dataset; without a library there
\* is no POTCAR.
Choose(g) ==
    LET library == gen[g].request.library
        next == IF Setups(g).reason # "none" THEN "fail"
                ELSE IF library = Unset THEN "incar"
                ELSE IF Unavailable(Setups(g).datasets, library) # {} THEN "fail" ELSE "stage"
    IN  /\ At(g, "look") /\ dir.POTCAR = Missing
        /\ gen' = [gen EXCEPT ![g].pc = next, ![g].expected = Setups(g).datasets]
        /\ UNCHANGED <<sessions, structure, dir, temps, manifest, planner, plan, made,
                       started, faults>>

\* The datasets, one after the other, in a temporary file beside the output.
Stage(g) ==
    /\ At(g, "stage") /\ made < MaxFiles
    /\ temps' = temps \cup {made} /\ made' = made + 1
    /\ gen' = [gen EXCEPT ![g].pc = "order", ![g].checks = "temporary",
                          ![g].temp = [file |-> made, by |-> g, content |-> gen[g].expected]]
    /\ UNCHANGED <<sessions, structure, dir, manifest, planner, plan, started, faults>>

\* The write fails: the temporary file is gone.
StageFails(g) ==
    /\ At(g, "stage") /\ GoTo(g, "fail")
    /\ UNCHANGED <<sessions, structure, dir, temps, manifest, planner, plan, made, started,
                   faults>>

\* validate_potcar reads POSCAR, and then the POTCAR it checks.
ReadOrder(g) ==
    /\ At(g, "order")
    /\ gen' = [gen EXCEPT ![g].pc = "compare", ![g].seen = dir.POSCAR]
    /\ UNCHANGED <<sessions, structure, dir, temps, manifest, planner, plan, made,
                   started, faults>>

Checked(g) == Datasets(IF gen[g].checks = "temporary" THEN gen[g].temp ELSE dir.POTCAR)

\* Where each check leads, when it passes and when it fails.
Passed == [existing |-> "incar", temporary |-> "link", other |-> "incar", final |-> "discard"]
Failed == [existing |-> "fail", temporary |-> "discard", other |-> "fail", final |-> "samefile"]

Compare(g) ==
    LET valid == PotcarValid(gen[g].seen, Checked(g), gen[g].expected)
        checks == gen[g].checks
    IN  /\ At(g, "compare")
        /\ gen' = [gen EXCEPT ![g].pc = IF valid THEN Passed[checks] ELSE Failed[checks],
                              ![g].potcar = valid /\ checks # "temporary"]
        /\ UNCHANGED <<sessions, structure, dir, temps, manifest, planner, plan, made,
                       started, faults>>

\* Mutant: the temporary file stays when another file took the name.
LinkKeepsTemp(g) ==
    /\ At(g, "link")
    /\ dir' = [dir EXCEPT !.POTCAR = IF @ = Missing THEN gen[g].temp ELSE @]
    /\ gen' = [gen EXCEPT ![g].pc = "order",
                          ![g].checks = IF dir.POTCAR = Missing THEN "final" ELSE "other"]
    /\ UNCHANGED <<sessions, structure, temps, manifest, planner, plan, made, started, faults>>

\* os.link does not replace: when another file took the name meanwhile, the
\* own one goes and the other is checked.
Link(g) ==
    /\ At(g, "link")
    /\ IF dir.POTCAR = Missing
       THEN /\ dir' = [dir EXCEPT !.POTCAR = gen[g].temp] /\ UNCHANGED temps
            /\ gen' = [gen EXCEPT ![g].pc = "order", ![g].checks = "final"]
       ELSE /\ temps' = temps \ {gen[g].temp.file} /\ UNCHANGED dir
            /\ gen' = [gen EXCEPT ![g].pc = "order", ![g].checks = "other"]
    /\ UNCHANGED <<sessions, structure, manifest, planner, plan, made, started, faults>>

\* Mutant: the linked file goes without a look at whose it is.
SameFileUnseen(g) ==
    /\ At(g, "samefile") /\ GoTo(g, "unlink")
    /\ UNCHANGED <<sessions, structure, dir, temps, manifest, planner, plan, made,
                   started, faults>>

\* The linked POTCAR no longer fits POSCAR: it goes if it is still the own.
SameFile(g) ==
    /\ At(g, "samefile")
    /\ GoTo(g, IF dir.POTCAR # Missing /\ dir.POTCAR.file = gen[g].temp.file
               THEN "unlink" ELSE "discard")
    /\ UNCHANGED <<sessions, structure, dir, temps, manifest, planner, plan, made,
                   started, faults>>

Unlink(g) ==
    /\ At(g, "unlink") /\ GoTo(g, "discard")
    /\ dir' = [dir EXCEPT !.POTCAR = Missing]
    /\ UNCHANGED <<sessions, structure, temps, manifest, planner, plan, made, started, faults>>

\* The temporary name goes, after a success and after a failure.
Discard(g) ==
    /\ At(g, "discard") /\ GoTo(g, IF gen[g].potcar THEN "incar" ELSE "fail")
    /\ temps' = temps \ {gen[g].temp.file}
    /\ UNCHANGED <<sessions, structure, dir, manifest, planner, plan, made, started, faults>>

\* The answer is an error; POSCAR stays as it was written.
Fail(g) ==
    /\ At(g, "fail") /\ Ends(g)
    /\ UNCHANGED <<sessions, structure, dir, temps, manifest, planner, plan, made,
                   started, faults>>

\* The electrons: those of the request, else of the POTCAR that was answered
\* for.
NumberOfElectrons(g) ==
    CASE gen[g].request.nelect # Unset -> gen[g].request.nelect
      [] gen[g].request.nelect = Unset /\ gen[g].potcar ->
             Electrons(dir.POSCAR, Datasets(dir.POTCAR), Zval)
      [] OTHER -> Unset

\* The bands of the INCAR; without electrons the user's number stays as it is.
IncarBands(g, halves) ==
    LET r == gen[g].request
    IN  IF halves = Unset THEN r.bands
        ELSE ChooseBands(r.job, halves, Total(gen[g].structure.poscar.counts), r.bands,
                         r.spin.noncollinear)

\* The tags are chosen before there is a script to show where the run is.
ParallelTags(r) == ParallelPolicy(r.ncore, r.npar, ExecutionContext(r.context, FALSE),
                                  r.preference, r.cores)

\* INCAR is written last but one, so that it can count the electrons; a
\* number of bands that is refused raises.
WriteIncar(g) ==
    LET halves == NumberOfElectrons(g)
        r == gen[g].request
    IN  /\ At(g, "incar")
        /\ IF Unset \notin {halves, r.bands} /\ BandsRefused(r.bands, halves, r.spin)
           THEN GoTo(g, "fail") /\ UNCHANGED dir
           ELSE /\ GoTo(g, "kpoints")
                /\ dir' = [dir EXCEPT !.INCAR =
                     [version |-> gen[g].structure.version, halves |-> halves,
                      bands |-> IncarBands(g, halves), request |-> r,
                      parallel |-> ParallelTags(r),
                      dynamics |-> r.job \in {"md", "aimd"}, text |-> "plain"]]
        /\ UNCHANGED <<sessions, structure, temps, manifest, planner, plan, made, started, faults>>

\* Always a mesh, whatever the task.
WriteKpoints(g) ==
    /\ At(g, "kpoints") /\ GoTo(g, "register")
    /\ dir' = [dir EXCEPT !.KPOINTS = [mode |-> "mesh", text |-> "plain"]]
    /\ UNCHANGED <<sessions, structure, temps, manifest, planner, plan, made, started, faults>>

\* The manifest lists what was written; POTCAR apart, as restricted.
Register(g) ==
    /\ At(g, "register") /\ Ends(g)
    /\ manifest' = [version    |-> gen[g].structure.version,
                    task       |-> gen[g].request.job,
                    listed     |-> Regular,
                    restricted |-> IF gen[g].potcar THEN {"POTCAR"} ELSE {}]
    /\ UNCHANGED <<sessions, structure, dir, temps, planner, plan, made, started, faults>>

\* The process ends: its temporary file stays.
Crash(g) ==
    /\ ~At(g, "idle") /\ faults < MaxFaults
    /\ faults' = faults + 1 /\ Ends(g)
    /\ UNCHANGED <<sessions, structure, dir, temps, manifest, planner, plan, made, started>>

-----------------------------------------------------------------------------
(* The compute stage, in dry run: what it reads, and what it says of it.   *)

\* It takes the manifest, and validates the directory for its task.
BeginPlan(r) ==
    /\ planner = None /\ manifest # None /\ started < MaxCalls
    /\ started' = started + 1
    /\ planner' = [manifest |-> manifest, request |-> r,
                   report   |-> ValidationReport(manifest.task, dir)]
    /\ UNCHANGED <<sessions, structure, dir, temps, gen, manifest, plan, made, faults>>

\* Without a script to send there is no plan; otherwise the readiness of
\* the files the manifest names is written with it.
FinishPlan ==
    LET r == planner.request
        script == SelectScript(r.script, r.hint, r.library)
        sent == Rendered(script, r)
        answer == BuildReadiness(dir, planner.manifest, sent.text, r.resources)
    IN  /\ planner # None
        /\ planner' = None
        /\ plan' = IF script.status \in {"error", "needs_inputs"} \/ sent.status = "needs_inputs"
                   THEN plan
                   ELSE [script    |-> sent,
                         context   |-> ExecutionContext(r.context, sent.accelerated),
                         report    |-> planner.report,
                         readiness |-> answer,
                         ready     |-> ReadyForApproval(answer)]
        /\ UNCHANGED <<sessions, structure, dir, temps, gen, manifest, made, started, faults>>

-----------------------------------------------------------------------------
CalcNext ==
    \/ \E s \in Structures : Remodel(s) \/ \E t \in Texts : PlaceInputs(s, t)
    \/ \E p \in UserPotcars : PlacePotcar(p)
    \/ RemovePotcar
    \/ \E r \in Requests : Direct(r) \/ \E g \in Generators : Begin(g, r)
    \/ \E g \in Generators :
          \/ WritePoscar(g) \/ ReadSpecies(g) \/ Find(g) \/ Choose(g) \/ Stage(g) \/ StageFails(g)
          \/ ReadOrder(g) \/ Compare(g) \/ Link(g) \/ SameFile(g) \/ Unlink(g) \/ Discard(g)
          \/ Fail(g) \/ WriteIncar(g) \/ WriteKpoints(g) \/ Register(g) \/ Crash(g)
    \/ \E r \in PlanRequests : BeginPlan(r)
    \/ FinishPlan

-----------------------------------------------------------------------------
(* What must hold.                                                         *)

\* generate_potcar never overwrites a POTCAR, and takes one away only if it
\* linked that very file in the same call; a user's stays, whoever runs.
OthersPotcarKept ==
    [][\A g \in Generators :
          (gen[g].pc # "idle" /\ gen'[g] # gen[g] /\ dir.POTCAR # Missing)
             => (dir'.POTCAR = dir.POTCAR \/ dir.POTCAR.by = g)]_calcVars

\* When no generation runs and none was cut off, its directory holds no
\* temporary copy of a licensed POTCAR.
NoTempLeft == (Quiet /\ faults = 0) => temps = {}

\* Sessions that follow each other: once the current structure has its
\* manifest, POSCAR is that structure, INCAR was made for it, and a POTCAR
\* the program made has the elements of POSCAR, in its order.
CurrentInputsAgree ==
    (sessions = 1 /\ Quiet /\ structure # None /\ manifest # None
       /\ manifest.version = structure.version)
    => /\ dir.POSCAR = structure.poscar
       /\ dir.INCAR.version = structure.version
       /\ (dir.POTCAR # Missing /\ dir.POTCAR.by # "user")
             => PotcarElements(dir.POTCAR.content) = structure.poscar.species

\* A number of bands that was asked for is above those that the electrons and
\* the moment of the INCAR occupy, by the check; one that was chosen is above
\* those that the electrons occupy without a moment, by the policy's multiple.
BandsAboveOccupied ==
    LET incar == dir.INCAR
        ispin == IF incar.request.bands = Unset THEN 1 ELSE incar.request.spin.ispin
    IN  (incar # Missing /\ Unset \notin {incar.halves, incar.bands})
            => incar.bands > OccupiedBands(incar.halves, ispin, incar.request.spin.moment)

\* A number that was chosen is above what the moment occupies as well.
ChosenBandsAboveMoment ==
    LET incar == dir.INCAR
    IN  (incar # Missing /\ Unset \notin {incar.halves, incar.bands}
           /\ incar.request.bands = Unset /\ incar.request.spin.moment \notin {Unset, PerIon})
            => incar.bands > OccupiedBands(incar.halves, incar.request.spin.ispin,
                                           incar.request.spin.moment)

\* A plan that is ready for approval does not send a POSCAR and a POTCAR that
\* its own validation report calls out of order.
ReadyPotcarFits ==
    (plan # None /\ plan.ready /\ {"POSCAR", "POTCAR"} \subseteq plan.readiness.input_paths)
      => plan.report.potcar # "potcar_element_order_mismatch"

CalcSpec == CalcInit /\ [][CalcNext]_calcVars
=============================================================================
