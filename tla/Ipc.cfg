\* Two programs with three requests each, and the server.
CONSTANTS
  Clients = {2, 3}
  ncpus = 4
  MaxSends = 3
SPECIFICATION Spec
INVARIANTS InOnePlace AnswersLatest FindsSenderUnlessRaced
PROPERTIES AnsweredUnlessRaced
CHECK_DEADLOCK FALSE
