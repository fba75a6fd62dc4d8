SPECIFICATION FairSpec
CONSTANTS
  timer = timer
  upstream = upstream
  imports = imports
  Unattributed = unattributed
  NoPage = NoPage
  Unit <- Timers
  Result <- OneResult
  Driver <- Drivers
  Critical <- TwoCriticals
  Warning <- OneWarning
  KeyLines = 1
  Attempts = 2
  MaxRun = 3
  Budget <- EachEvent
INVARIANTS TypeOK StandingPageOpen Accounted
PROPERTIES StandingPageKept ImplementsPages CauseIsPaged RepairIsCleared FindingGoneIsCleared
CHECK_DEADLOCK FALSE
