SPECIFICATION FairSpec
CONSTANTS
    LastMonth = 3
    LongMonths <- MCLongMonths
    MaxTrouble = 2
INVARIANTS
    TypeOK
    InOrder
    GateWithinNextBatch
    CertificateStaysTrue
    EmbeddedGateBlocked
PROPERTY EveryMonthComplete
