SPECIFICATION Spec
CONSTANTS
    a = a
    b = b
    Countries <- MCCountries
    FirstYear = 1
    LastYear = 10
    Levels = {0, 1, 2}
    Initial <- MCInitial
    Reports <- MCReports
    Splits <- MCSplits
    ScenarioYear = 12
    MinSplits = 2
    MinTotal = 6
    MinSegment = 3
    MinPostBreak = 3
    Fit <- MCFit
    Detected <- MCDetected
    Confident <- MCConfident
    Error <- MCError
    Covers <- MCCovers
    Stable <- MCStable
    None = None
INVARIANTS
    TypeOK
    NeverWithoutBaseline
    ComponentsNested
    NestedNoLeakage
    MethodsComparable
    RegimeNoLeakage
    RegimesComparable
    ActiveHasObservations
    RecencyControlIsCanonical
    IncrementalNoLeakage
    IncrementalComparable
    DetectionNoLeakage
    AgreementIsSound
    MomentumIsAnalogue
    StalledAgainstOwnTrend
    AcceptedOnActiveRegimes
PROPERTIES
    NoLeakage
    MoreDataNeverLowersYear
