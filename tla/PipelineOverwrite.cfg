SPECIFICATION Spec
CONSTANTS
    Jobs = {j1, j2}
    Snapshots = {s1, s2, bad}
    Fatal = {bad}
    Thin = {}
    None = None
    Commands = {"run"}
    MaxConcurrent = 1
    MaxFaults = 1
    InAzure = TRUE
INVARIANTS
    ReleaseUntouched
