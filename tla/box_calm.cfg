SPECIFICATION FairSpec
CONSTANTS
    Repo = {dash, ops}
    Dash = dash
    Slot = {s1}
    MaxSha = 3
    Rev = {1, 2}
    Content <- MCContent
    Meets <- Pins
    NamesLauncher = {2}
    Bad = {}
    Budget <- CalmBudget
PROPERTIES
    MainReachesBox
CHECK_DEADLOCK FALSE
