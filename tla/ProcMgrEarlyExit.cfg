\* A child may exit before its parent calls waitpid.
CONSTANTS
  Slots = {3, 4}
  ParentsLeave = FALSE
  MaxCalls = 3
SPECIFICATION Spec
PROPERTIES WaitpidReturns
CHECK_DEADLOCK FALSE
