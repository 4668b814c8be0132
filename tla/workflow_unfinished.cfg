SPECIFICATION Spec
CONSTANTS
    LastMonth = 3
    LongMonths <- MCLongMonths
    MaxTrouble = 0
INVARIANT RunsFinish
