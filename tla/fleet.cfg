SPECIFICATION FairFleetSpec
CONSTANTS
  Machine = {"weekly", "preopen", "postclose", "postclose_reconcile"}
  SfOrder <- MCSfOrder
  Opening = 56
  Session = {a, b}
  Window = 2
  MaxRuns = 4
  Started <- MCStarted
  Ending <- MCEnding
  Past <- MCPast
  Scenario <- MCScenario
  Instants <- MCInstants
  Trading <- MCTrading
  Saturdays <- MCSaturdays
INVARIANTS FleetTypeOK MissedIsSeen OverdueIsRealByDay PolledSincePress ExerciseRowIsItsOwn
PROPERTIES ImplementsLastGood FailureOutlastsIdle ViewCatchesUp
CHECK_DEADLOCK FALSE
