SPECIFICATION Spec
CONSTANTS
    Jobs = {j1, j2}
    Snapshots = {s1, bad, thin}
    Fatal = {bad}
    Thin = {thin}
    None = None
    Commands = {"run"}
    MaxConcurrent = 1
    MaxFaults = 1
    InAzure = TRUE
INVARIANTS
    V2ComputedByRun
