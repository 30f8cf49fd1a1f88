\* Two programs with one request each.
CONSTANTS
  Clients = {2, 3}
  ncpus = 4
  MaxSends = 1
SPECIFICATION Spec
PROPERTIES EveryRequestAnswered
CHECK_DEADLOCK FALSE
