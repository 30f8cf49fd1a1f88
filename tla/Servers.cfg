CONSTANTS
  MAX_CHANNELS = 4
  Clients = {2, 6, 7}
  First = {2, 6}
  Ops = {"OPEN_IPC", "CLOSE_IPC", "FORK_IPC", "EXEC_IPC", "EXIT_IPC", "cnl_send"}
  MaxCalls = 4
SPECIFICATION Spec
INVARIANTS ListMatchesFds NoUseAfterClose
PROPERTIES ParkedDuringRemoval ListKeepsOrder CompletesUnlessCircle
CHECK_DEADLOCK FALSE
