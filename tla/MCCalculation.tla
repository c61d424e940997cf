--------------------------- MODULE MCCalculation ---------------------------
(* Two sessions, two structures over the same two elements in either order. *)
EXTENDS TLC, Calculation

Si == "Si"
O == "O"
SiO == [kind |-> "vasp5", species |-> <<Si, O>>, counts |-> <<1, 2>>, vacuum |-> FALSE]
OSi == [kind |-> "vasp5", species |-> <<O, Si>>, counts |-> <<2, 1>>, vacuum |-> FALSE]
MCStructures == {SiO, OSi}

MCUserPotcars == {<<<<Si, "">>, <<O, "">>>>, <<>>}
MCSetupTables == [minimal |-> ("x" :> ""), gw |-> (Si :> "_GW" @@ O :> "_GW")]
MCZval == (<<Si, "">> :> 8) @@ (<<O, "">> :> 12) @@ (<<Si, "_GW">> :> 24) @@ (<<O, "_GW">> :> 12)

Library == {<<Si, "">>, <<O, "">>, <<Si, "_GW">>}
Plain == [base |-> "minimal", overrides |-> <<>>]
Request(setups, job, bands, library, nelect, spin) ==
    [setups |-> setups, job |-> job, bands |-> bands, library |-> library, ncore |-> Unset,
     npar |-> Unset, context |-> "cpu", preference |-> Unset, cores |-> Unset,
     nelect |-> nelect, spin |-> spin]

\* Nine bands are one too few for sixteen electrons with a moment of one, and
\* enough without; and a moment that the bands of "optics" do not hold.
MCRequests == {
    Request(Plain, "scf", 9, Library, 32, [ispin |-> 1, moment |-> PerIon, noncollinear |-> TRUE]),
    Request([base |-> "minimal", overrides |-> <<<<Si, "_GW">>>>], "optics", Unset, Library, Unset,
            [ispin |-> 2, moment |-> 128, noncollinear |-> FALSE]),
    Request(Plain, "gw", 9, Unset, Unset, [ispin |-> 2, moment |-> 2, noncollinear |-> FALSE])}
MCPlanRequests == {
    [script |-> Unset, hint |-> Unset, library |-> <<"gpu">>, render |-> FALSE, context |-> Unset,
     resources |-> [nodes |-> 1, tasks |-> 16, memory |-> 4, walltime |-> 1]]}
=============================================================================
