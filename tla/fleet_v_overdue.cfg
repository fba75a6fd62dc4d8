SPECIFICATION FleetSpec
CONSTANTS
  Machine = {"weekly", "preopen", "postclose", "postclose_reconcile"}
  SfOrder <- MCSfOrder
  Opening = 56
  Session = {a, b}
  Window = 2
  MaxRuns = 4
  Started <- MCStarted
  Ending <- MCEnding
  Past <- MCPast
  Scenario <- ByNight
  Instants <- MCInstants
  Trading <- MCTrading
  Saturdays <- MCSaturdays
INVARIANTS OverdueIsReal
CHECK_DEADLOCK FALSE
