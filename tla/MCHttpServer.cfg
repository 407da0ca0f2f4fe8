CONSTANTS
  Worker = {1, 2, 3, 4}
  Socket = {1, 2, 3}
  Listener = {"l"}
  MinThreads = 1
  MaxThreads = 2
  MaxInputs = 1
  Scenario <- MCScenario
SPECIFICATION Spec
INVARIANTS OwnedOnce ThreadsEnough
PROPERTIES InputServed ConnectionAccepted Terminates
CHECK_DEADLOCK FALSE
