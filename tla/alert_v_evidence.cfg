SPECIFICATION Spec
CONSTANTS
  timer = timer
  upstream = upstream
  imports = imports
  Unattributed = unattributed
  NoPage = NoPage
  Unit <- Timers
  Result <- OneResult
  Driver <- Drivers
  Critical = {}
  Warning = {}
  KeyLines = 1
  Attempts = 2
  MaxRun = 3
  Budget <- OneVacuum
PROPERTIES EvidenceLossKeepsPage
CHECK_DEADLOCK FALSE
