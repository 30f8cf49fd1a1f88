\* From the start barrier: VMMs still on their way to vmm_has_vm.
CONSTANTS
  Slots = {3, 4}
  ParentsLeave = FALSE
  MaxCalls = 4
SPECIFICATION BootSpec
PROPERTIES ForkAnswered ForkedChildRunsUnlessEarly
CHECK_DEADLOCK FALSE
