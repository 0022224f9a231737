SPECIFICATION Spec
CONSTANTS
    Jobs = {j1, j2}
    Snapshots = {s1, bad, thin}
    Fatal = {bad}
    Thin = {thin}
    None = None
    Commands = {"run", "publish", "ingest", "build_silver", "energy_features", "backtest", "score"}
    MaxConcurrent = 2
    MaxFaults = 1
    InAzure = TRUE
SYMMETRY JobSymmetry
INVARIANTS
    TypeOK
    QuarantineHolds
    ReleaseDurable
PROPERTIES
    BarrierSpec
