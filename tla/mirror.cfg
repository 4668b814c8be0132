SPECIFICATION FairSpec
CONSTANTS
    Cal = trade_cal
    Refs = {basic}
    Dailies = {daily}
    Weeklies = {weekly}
    Monthlies = {monthly}
    LastDay = 3
    OpenDays = {1, 3}
    Fridays = {1}
    WeekEnds = {2, 9}
    MonthEnds = {3, 9}
    PilotDays = {2}
    PilotDates = {2}
    SmokeDays = 2
    Caps = {1, 2}
    MaxAttempts = 2
    MaxTrouble = 2
INVARIANTS
    TypeOK
    CheckpointComplete
    SettledPeriodsKept
    OpenDaysOnly
    PlanKept
    CompleteUnlessKilled
PROPERTY EventuallySynced
CHECK_DEADLOCK FALSE
