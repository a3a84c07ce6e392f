SPECIFICATION SpecO
CONSTANTS
  None = None
  a1 = a1
  a2 = a2
  n1 = n1
  n2 = n2
  Procs = {p1, p2}
  Attachments = {a1}
  Networks = {n1}
  NetOf <- OneNet
  Bridge <- OneBridge
  VirtioNets = {}
  NoNetns = {}
  Gateways <- V4Only
  PortName <- MCPortName
  PortNames <- MCPortNames
  Names <- MCNames
  Ids = {1, 2}
  Addrs <- MCAddrs
  V6 <- MCV6
  Foreign <- NoForeign
  FaultKinds = {"kill", "crash", "del", "ipamdel", "list", "convert", "lost", "ipamgc"}
  MaxFaults = 2
PROPERTIES CallsReturn LeftoversReleased LateReservationReaped
