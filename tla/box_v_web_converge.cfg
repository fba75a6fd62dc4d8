SPECIFICATION Spec
CONSTANTS
    Repo = {dash}
    Dash = dash
    Slot = {s1}
    MaxSha = 3
    Rev = {1, 2}
    Content <- MCContent
    Meets <- Pins
    NamesLauncher = {2}
    Bad = {2}
    Budget <- RacingBudget
INVARIANTS
    WebBuildConverges
CHECK_DEADLOCK FALSE
