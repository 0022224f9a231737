SPECIFICATION Spec
CONSTANTS
    Jobs = {j1, j2}
    Gens = {g1, g2}
    Thin = {}
    WriteSeq <- MCWrites
    ReadSeq <- MCReads
    TableSeq <- MCTables
    None = None
    Commands = {"run"}
    MaxConcurrent = 1
    MaxFaults = 1
    Replicas = {r1}
    MaxRecycles = 0
INVARIANTS
    ValidBundleSurvives
