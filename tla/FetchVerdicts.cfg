SPECIFICATION FairSpec
CONSTANTS
    Statuses <- MCStatuses
    MaxAttempts = 4
    None = None
INVARIANTS
    TypeOK
    TransientsMasked
    NoPartialSnapshot
PROPERTIES
    Terminates
