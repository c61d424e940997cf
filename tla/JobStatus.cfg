SPECIFICATION FairSpec
CONSTANTS
    Procs = {p1, p2}
    Places = {"slurm", "pbs", "ssh", "process"}
    MaxSilent = 1
    MaxCrashes = 1
INVARIANTS RecordedWasTrue FewRegressions
PROPERTY EndIsRecorded
