\* Two CPUs to fork onto; only programs that never forked exit or exec.
CONSTANTS
  Slots = {3, 4}
  ParentsLeave = FALSE
  MaxCalls = 7
SPECIFICATION Spec
INVARIANTS FreeMeansVacant RunsOnlyBuilt
PROPERTIES ForkReturnsChild WaiterWoken
CHECK_DEADLOCK FALSE
