---------------------------- MODULE VaspInputs ----------------------------
(***************************************************************************)
(* What the VASP helpers decide about the files of one calculation: the    *)
(* species of a POSCAR, the datasets a setup request resolves to, whether  *)
(* a POTCAR belongs to a POSCAR, the bands and parallel tags of an INCAR,  *)
(* and whether a directory is complete for a task.                         *)
(*                                                                         *)
(* A file is its content: a POSCAR is its kind, its species in order and   *)
(* the number of atoms of each; a POTCAR is its sequence of datasets, and  *)
(* a dataset is an element with a suffix.  A number of electrons is kept   *)
(* in halves, since ZVAL may be fractional.                                *)
(***************************************************************************)
EXTENDS Functions

LOCAL INSTANCE Integers
LOCAL INSTANCE Sequences
LOCAL INSTANCE FiniteSetsExt

CONSTANTS Missing,   \* no file at that path
          Unset,     \* a parameter that is absent, or one of the sentinels
          PerIon     \* a magnetic moment that is not one number

-----------------------------------------------------------------------------
(* POSCAR and the setup request.                                           *)

\* The species line of a VASP 5 file; any other file raises.
Readable(poscar) == poscar # Missing /\ poscar.kind = "vasp5"
Species(poscar) == IF Readable(poscar) THEN poscar.species ELSE <<>>

\* What is wrong with one override <<key, suffix>>.
OverrideError(elements, override) ==
    IF override[1] = "index" THEN "atom_index_setup_unsupported"
    ELSE IF override[1] \notin Range(elements) THEN "potcar_setup_unknown_element"
    ELSE IF override[2] = "malformed" THEN "invalid_potcar_setup_suffix"
    ELSE "none"

\* Profile tables[base], with the overrides of the request on top.
Suffix(table, overrides, element) ==
    LET own == {i \in DOMAIN overrides : overrides[i][1] = element}
    IN  IF own # {} THEN overrides[Max(own)][2]
        ELSE IF element \in DOMAIN table THEN table[element] ELSE ""

\* A request names a profile and overrides; "tables" is ASE's, or Missing.
ResolveSetups(elements, request, tables) ==
    LET wrong == {i \in DOMAIN request.overrides :
                     OverrideError(elements, request.overrides[i]) # "none"}
        reason ==
          IF wrong # {} THEN OverrideError(elements, request.overrides[Min(wrong)])
          ELSE IF request.base \notin {"minimal", "recommended", "gw"}
               THEN "unsupported_potcar_setup_profile"
          ELSE IF tables = Missing THEN "potcar_setup_dependency_missing"
          ELSE IF request.base \notin DOMAIN tables THEN "potcar_setup_table_unavailable"
          ELSE "none"
    IN  [reason   |-> reason,
         datasets |-> IF reason # "none" THEN <<>>
                      ELSE [i \in DOMAIN elements |->
                              <<elements[i],
                                Suffix(tables[request.base], request.overrides, elements[i])>>]]

\* The datasets of the library, of those asked for: exact names only.
Unavailable(datasets, library) == {d \in Range(datasets) : d \notin library}

-----------------------------------------------------------------------------
(* POTCAR against POSCAR.                                                  *)

\* The datasets in a file, by their headers.
Datasets(file) == IF file = Missing THEN Missing ELSE file.content

PotcarElements(potcar) == [i \in DOMAIN potcar |-> potcar[i][1]]

\* Why a POTCAR is refused; expected is a dataset sequence, or Unset.
PotcarReason(poscar, potcar, expected) ==
    IF ~Readable(poscar) THEN "poscar_unreadable"
    ELSE IF potcar = Missing THEN "potcar_missing"
    ELSE IF PotcarElements(potcar) # poscar.species THEN "potcar_element_order_mismatch"
    ELSE IF expected # Unset /\ potcar # expected THEN "existing_potcar_dataset_mismatch"
    ELSE IF potcar = <<>> THEN "potcar_headers_unrecognized"
    ELSE "none"

PotcarValid(poscar, potcar, expected) == PotcarReason(poscar, potcar, expected) = "none"

Total(counts) ==
    LET sum[i \in 0 .. Len(counts)] == IF i = 0 THEN 0 ELSE sum[i - 1] + counts[i]
    IN  sum[Len(counts)]

\* Valence electrons in halves, from ZVAL and the counts of POSCAR; a block
\* count other than the species count raises.
Electrons(poscar, potcar, zval) ==
    IF ~Readable(poscar) \/ potcar = Missing THEN Unset
    ELSE IF Len(potcar) # Len(poscar.species) THEN Unset
    ELSE Total([i \in DOMAIN potcar |-> zval[potcar[i]] * poscar.counts[i]])

-----------------------------------------------------------------------------
(* NBANDS: nothing for an ordinary task, a multiple of VASP's default for  *)
(* a task that needs empty bands, and the user's number if it is enough.   *)

CeilDiv(a, b) == -((-a) \div b)
AbsValue(a) == IF a < 0 THEN -a ELSE a
Larger(a, b) == IF a < b THEN b ELSE a

\* NINT of (NELECT + 2) / 2, the electrons in halves.
Nint(halves) == (halves + 6) \div 4

DefaultBands(halves, ions, noncollinear) ==
    LET tenths == Larger(10 * Nint(halves) + 5 * Larger(ions, 6), 3 * halves)
    IN  CeilDiv(tenths, 10) * (IF noncollinear THEN 2 ELSE 1)

\* The moment, in halves, counts in a spin-polarised run that states one.
OccupiedBands(halves, ispin, moment) ==
    CeilDiv(halves + (IF ispin = 2 /\ moment # Unset THEN AbsValue(moment) ELSE 0), 4)

\* Mutant: as many bands as are occupied will do.
FewerBandsRefused(bands, halves, ispin, moment) == bands < OccupiedBands(halves, ispin, moment)

BandsTooFew(bands, halves, ispin, moment) == bands <= OccupiedBands(halves, ispin, moment)

\* A number of bands that is asked for raises when it is too small, and when
\* the moment to hold it against is not a number.
BandsRefused(bands, halves, spin) ==
    \/ spin.ispin = 2 /\ spin.moment = PerIon
    \/ BandsTooFew(bands, halves, spin.ispin, spin.moment)

Ordinary == {"relax", "scf", "static", "bands", "band", "dos", "nscf"}

\* Quarter multiples of the default: 2.5, 3 and 1.5 times.
Factor(job) == CASE job \in {"optics", "dielectric", "eels"} -> 10
                 [] job \in {"gw", "rpa", "bse", "crpa"}     -> 12
                 [] job = "wannier"                          -> 6
                 [] OTHER                                    -> 0

\* The user's number, which has been validated; else by the task, whatever the
\* moment.
ChooseBands(job, halves, ions, user, noncollinear) ==
    IF user # Unset THEN user
    ELSE IF job \in Ordinary \/ Factor(job) = 0 THEN Unset
    ELSE CeilDiv(Factor(job) * DefaultBands(halves, ions, noncollinear), 4)

-----------------------------------------------------------------------------
(* NCORE and NPAR.                                                         *)

\* Where the run is: what the user says, else what the script shows.
ExecutionContext(said, accelerated) ==
    IF said \in {"cpu", "accelerated"} THEN said
    ELSE IF said # Unset THEN "unknown"
    ELSE IF accelerated THEN "accelerated" ELSE "unknown"

\* The tags of the INCAR and the verdict: a user's tags stay, and otherwise
\* only a CPU run gets one.
ParallelPolicy(ncore, npar, context, preference, cores) ==
    IF ncore # Unset \/ npar # Unset
    THEN [ncore |-> ncore, npar |-> npar,
          status |-> IF context = "accelerated" \/ (ncore # Unset /\ npar # Unset)
                     THEN "warning" ELSE "pass"]
    ELSE CASE context = "cpu" /\ preference \in {Unset, "npar"} ->
                 [ncore |-> Unset, npar |-> 4, status |-> "pass"]
           [] context = "cpu" /\ preference = "ncore" ->
                 [ncore |-> cores, npar |-> Unset,
                  status |-> IF cores = Unset THEN "needs_inputs" ELSE "pass"]
           [] context = "cpu" /\ preference = "omit" ->
                 [ncore |-> Unset, npar |-> Unset, status |-> "pass"]
           [] OTHER ->
                 [ncore |-> Unset, npar |-> Unset,
                  status |-> IF context = "accelerated" THEN "pass" ELSE "needs_inputs"]

-----------------------------------------------------------------------------
(* A calculation directory against a task.  A directory maps each name to  *)
(* its content; images is the number of its numbered directories.          *)

Neb == {"neb", "neb_basic"}
Bands == {"band", "bands", "band_structure"}
Mesh == {"relax", "static", "scf", "dos", "aimd", "md"}
StructureChecks == {"surface_check", "adsorption_check", "defect_check"}

KpointsFit(task, kpoints) ==
    LET mode == IF kpoints = Missing THEN Missing ELSE kpoints.mode
    IN  CASE task \in Bands -> mode = "line"
          [] task \in Mesh  -> mode \in {"mesh", "unknown"}
          [] OTHER          -> mode # Missing

SummaryValid(poscar) ==
    Readable(poscar) /\ poscar.species # <<>> /\ Len(poscar.species) = Len(poscar.counts)

\* A surface, an adsorbate or a defect is looked at in its POSCAR alone.
StructureValid(task, poscar) ==
    /\ SummaryValid(poscar)
    /\ task = "surface_check" => poscar.vacuum
    /\ task = "adsorption_check" => Len(poscar.species) >= 2

\* A band or DOS run needs the charge of an earlier run, NEB its images.
DependenciesValid(task, dir) ==
    /\ task \in Bands \cup {"dos"} => dir.CHGCAR # Missing
    /\ task \in Neb => dir.images >= 2

\* POTCAR must be there; NEB has no POSCAR of its own to hold it against.
PotcarFits(task, dir) ==
    \/ task \in Neb /\ dir.POTCAR # Missing /\ dir.POSCAR = Missing
    \/ dir.POSCAR # Missing /\ PotcarValid(dir.POSCAR, Datasets(dir.POTCAR), Unset)

MolecularDynamics(task, incar) == task \in {"aimd", "md"} => incar.dynamics

InputsValid(task, dir) ==
    IF task \in StructureChecks THEN StructureValid(task, dir.POSCAR)
    ELSE /\ task \notin Neb => dir.POSCAR # Missing
         /\ dir.INCAR # Missing /\ dir.KPOINTS # Missing
         /\ PotcarFits(task, dir)
         /\ KpointsFit(task, dir.KPOINTS)
         /\ dir.INCAR # Missing => MolecularDynamics(task, dir.INCAR)
         /\ DependenciesValid(task, dir)

\* The report of a plan, with what its check of POTCAR said.
ValidationReport(task, dir) ==
    [valid  |-> InputsValid(task, dir),
     potcar |-> PotcarReason(dir.POSCAR, Datasets(dir.POTCAR), Unset)]
=============================================================================
