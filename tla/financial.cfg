SPECIFICATION FairSpec
CONSTANTS
    Order <- MCOrder
    Required <- MCRequired
    Disclosure = "disclosure_date"
    LastPeriod = 2
    Caps = {1, 2}
    Configs <- MCConfigs
    Good <- MCGood
    Sources <- MCSources
    MaxTrouble = 1
INVARIANTS
    TypeOK
    SafeMeansDisclosed
    GatesAgree
    PlannersAgree
PROPERTIES
    RunTellsTruth
    SafeUnlessStuck
    SafeStaysSafe
CHECK_DEADLOCK FALSE
