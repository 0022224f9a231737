SPECIFICATION FairSpec
CONSTANTS
    Jobs = {j1, j2}
    Gens = {g1, g2}
    Thin = {g2}
    WriteSeq <- MCWrites
    ReadSeq <- MCReads
    TableSeq <- MCTables
    None = None
    Commands = {"run", "publish_product"}
    MaxConcurrent = 1
    MaxFaults = 2
    Replicas = {r1}
    MaxRecycles = 1
INVARIANTS
    ServedIsOneRelease
PROPERTIES
    PublishedIsServed
