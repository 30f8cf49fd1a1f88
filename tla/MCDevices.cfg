SPECIFICATION DevicesSpec
CONSTANTS
  Threads = {th0, th1, th2}
  main_thread = th0
  NULL = NULL
  Programs = {prog1, prog2}
  Counts = {2}
  MaxEvents = 3
  MaxReads = 2
  E1000_RXDESC_NR = 3
  E1000_TXDESC_NR = 2
  MEMP_NUM_PBUF = 3
  Lengths = {1, 2}
  MaxPackets = 4
  MB2 = 8
  MIN_CPUS = 4
  MAX_CPUS = 6
  Machines <- SmallMachines
  Images <- SmallImages
  VM_STACK_SIZE = 1
  Tables = 2
  FilePrograms = {6, 7}
  MAX_FD = 3
  NumFiles = 1
  Channels = {1, 2, 3, 4}
  MaxFileCalls = 3
  FileOps = {"OPEN_IPC", "CLOSE_IPC", "READ_IPC", "EXIT_IPC", "io"}
  MEM_SIZE = 11
  SIZEOF_STRUCT_MEM = 1
  MIN_SIZE = 1
  HeapSizes = {0, 1, 2, 3, 5}
  Pool = {buf1, buf2}
  Refs = {buf3}
  Ram = {buf4}
  BUFSIZE = 2
  PbufLengths = {3}
  Offsets = {1}
  Cuts = {2}
  MaxCalls = 6
  NoPbuf = NoPbuf
INVARIANTS
  ThreadsOK
  KeysInOrderUnlessLate
  RingsOK
  BootOK
  HeapOK
  PacketBuffersOK
PROPERTIES
  HandlerWritesOK
  DescriptorsOK
  NobodyLeftWaiting
CHECK_DEADLOCK FALSE
