SPECIFICATION Spec
CONSTANTS
    Countries = {c1, c2, c3}
    MaxValue = 1
    Observed <- MCKnown
    Unit = 6
    None = None
SYMMETRY Symmetry
INVARIANTS
    TypeOK
    DegradesToV1
    EnergyPulls
    ComponentsExplainScore
    OverviewFollowsRisk
    RoutesServeCatalogue
PROPERTIES
    WorseningNeverHelps
