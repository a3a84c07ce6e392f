SPECIFICATION Spec
CONSTANTS
  None = None
  a1 = a1
  a2 = a2
  n1 = n1
  n2 = n2
  Procs = {p1, p2}
  Attachments = {a1, a2}
  Networks = {n1, n2}
  NetOf <- TwoNets
  Bridge <- TwoBridges
  VirtioNets = {n2}
  NoNetns = {}
  Gateways <- V4Only
  PortName <- MCPortName
  PortNames <- MCPortNames
  Names <- MCNames
  Ids = {1, 2, 3}
  Addrs <- MCAddrs
  V6 <- MCV6
  Foreign <- NoForeign
  FaultKinds = {"kill", "crash", "lock", "dial", "list", "add", "addr", "flush", "mkdir", "move", "conf", "ipamadd", "ipamgc", "unlink"}
  MaxFaults = 2
SYMMETRY Symmetry
INVARIANTS NoLeakAfterDel FailedAddRollsBack
PROPERTY NoInterference
