----------------------------- MODULE MCWorkflow -----------------------------
(* Two ways into the workflow, its beginning and its middle, three calls and *)
(* one fault.                                                                *)
EXTENDS Workflow

MCEntries == {"literature_review", "computation"}
MCDirect == {"computation"}
MCSingle == {"modeling", "writing"}
\* Two figures, of which one gets a warning.
MCAudits == {{"passed", "warning"}}
MCTargets == {"computation", "writing"}
=============================================================================
