SPECIFICATION Spec
CONSTANTS
    Repo = {dash}
    Dash = dash
    Slot = {s1}
    MaxSha = 3
    Rev = {1, 2}
    Content <- RacingContent
    Meets <- Pins
    NamesLauncher = {2}
    Bad = {2}
    Budget <- RacingBudget
INVARIANTS
    TypeOK
    LauncherBeforeUnit
    HeadWithinMain
PROPERTIES
    LockedCheckoutStill
    PulledRequirementsInstalled
    CleanRunCaughtUp
    RebuildLeavesVenv
CHECK_DEADLOCK FALSE
