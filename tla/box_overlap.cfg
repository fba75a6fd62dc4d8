SPECIFICATION FairSpec
CONSTANTS
    Repo = {dash}
    Dash = dash
    Slot = {s1, s2}
    MaxSha = 3
    Rev = {1, 2}
    Content <- MCContent
    Meets <- Pins
    NamesLauncher = {2}
    Bad = {2}
    Budget <- OverlapBudget
INVARIANTS
    CmpGatesConverge
PROPERTIES
    UndisturbedStampObserved
    CommandsEnd
CHECK_DEADLOCK FALSE
