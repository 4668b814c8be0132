SPECIFICATION FairSpec
CONSTANTS
    j1 = j1
    j2 = j2
    api1 = api1
    api2 = api2
    Jobs = {j1, j2}
    Apis = {api1, api2}
    ApiOf <- MCApiOf
    MaxVersion = 2
    Sync = {sync}
    Manual = {operator}
    MaxManual = 1
    MaxTrouble = 1
    All = All
    Absent = Absent
    Nobody = Nobody
INVARIANTS
    TypeOK
    ManifestInCatalog
    CopySurvives
    ReadyMeansPlaced
PROPERTY BackedUpAgain
