\* Programs that have forked and waited may exit before their children.
CONSTANTS
  Slots = {3, 4}
  ParentsLeave = TRUE
  MaxCalls = 7
SPECIFICATION Spec
PROPERTIES HasVmToRun
CHECK_DEADLOCK FALSE
