SPECIFICATION Spec
CONSTANTS
    Jobs = {j1, j2}
    Gens = {g1, g2}
    Thin = {}
    WriteSeq <- MCFewWrites
    ReadSeq <- MCFewReads
    TableSeq <- MCFewTables
    None = None
    Commands = {"run", "publish_product", "build_bi", "build_web"}
    MaxConcurrent = 2
    MaxFaults = 0
    Replicas = {r1}
    MaxRecycles = 0
SYMMETRY Symmetry
INVARIANTS
    TypeOK
    ServedIsOneBundle
