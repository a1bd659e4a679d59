CONSTANTS
  l1 = l1
  l2 = l2
  h1 = h1
  h2 = h2
  ip = ip
  Lcores = {l1}
  Configurations <- Bursts
  Ports = {0, 1}
  Hosts = {h1, h2}
  Broadcast = Broadcast
  Forbidden = Forbidden
  ALLOW = ALLOW
  FORBID = FORBID
  FLOOD_PORT = FLOOD_PORT
  DROP_PACKET = DROP_PACKET
  Absent = Absent
  PacketMbufs = {m1, m2, m3, m4, m5}
  HeaderMbufs = {g1, g2, g3, g4}
  Mbufs <- AllMbufs
  Null = Null
  MAX_PKT_BURST = 1
  NbTxDesc = 3
SPECIFICATION Spec
SYMMETRY Symmetry
CHECK_DEADLOCK FALSE
PROPERTIES AllocatedUnreferenced
