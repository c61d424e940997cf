---------------------------- MODULE MCRemoteRun ----------------------------
(* RemoteRun for TLC.                                                      *)
EXTENDS RemoteRun

CONSTANTS s1, s2

MCServers == {s1, s2}

\* The servers are alike: the first call is made at s1. (Liveness is checked, so
\* this cannot be said by a SYMMETRY.)
FirstAtS1 == used'.calls = 1 /\ used.calls = 0 => pc'[s1] # "idle"
=============================================================================
