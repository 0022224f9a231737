SPECIFICATION FairSpec
CONSTANTS
    Jobs = {j1, j2, j3}
    Snapshots = {s1, bad, thin}
    Fatal = {bad}
    Thin = {thin}
    None = None
    Commands = {"run", "publish", "score"}
    MaxConcurrent = 1
    MaxFaults = 2
    InAzure = TRUE
INVARIANTS
    RunEvidenceTraceable
PROPERTIES
    Recovers
