\* One program execs while another opens a device.
CONSTANTS
  MAX_CHANNELS = 4
  Clients = {2, 6, 7}
  First = {2, 6}
  Ops = {"OPEN_IPC", "EXEC_IPC"}
  MaxCalls = 2
SPECIFICATION Spec
PROPERTIES CallsReturn
CHECK_DEADLOCK FALSE
