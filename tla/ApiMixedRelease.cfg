SPECIFICATION Spec
CONSTANTS
    Jobs = {j1, j2, j3}
    Gens = {g1, g2}
    Thin = {}
    WriteSeq <- MCWrites
    ReadSeq <- MCReads
    TableSeq <- MCTables
    None = None
    Commands = {"run", "publish_product"}
    MaxConcurrent = 1
    MaxFaults = 1
    Replicas = {r1}
    MaxRecycles = 0
SYMMETRY Symmetry
INVARIANTS
    ServedIsPublished
