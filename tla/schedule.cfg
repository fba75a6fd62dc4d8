SPECIFICATION FairSpec
CONSTANTS
    Session = {s1, s2}
    Days = 2
    Programme = {deepdive}
    Regular = regular
    MaxPress = 2
    MaxOutside = 2
    MaxFault = 2
INVARIANTS
    TypeOK
    StalenessExplained
PROPERTIES
    ImplementsCalendar
    ReplacesWhatItFetched
    PastDayStays
    MemoCatchesUp
CHECK_DEADLOCK FALSE
