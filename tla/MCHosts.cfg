SPECIFICATION HostsSpec
CONSTANTS
  net1 = net1
  net2 = net2
  host1 = host1
  host2 = host2
  ANY = ANY
  BROADCAST = BROADCAST
  ip1 = ip1
  any0 = any0
  if1 = if1
  if2 = if2
  if0 = if0
  adr1 = adr1
  adr2 = adr2
  adr0 = adr0
  nb1 = nb1
  nb2 = nb2
  nb3 = nb3
  pk1 = pk1
  pk2 = pk2
  pk3 = pk3
  nothing = nothing
  nobody = nobody
INVARIANTS
  TimeoutsOK
  SocketsOK
  
  LinksOK
  
PROPERTIES
  ComesToAnEnd
CHECK_DEADLOCK FALSE
