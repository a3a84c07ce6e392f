SPECIFICATION Spec
CONSTANTS
  None = None
  a1 = a1
  a2 = a2
  n1 = n1
  n2 = n2
  Procs = {p1}
  Attachments = {a1, a2}
  Networks = {n1, n2}
  NetOf <- TwoNets
  Bridge <- TwoBridges
  VirtioNets = {n2}
  NoNetns = {}
  Gateways <- V4Only
  PortName <- MCPortName
  PortNames <- MCPortNames
  Names <- MCNames
  Ids = {1, 2, 3, 4}
  Addrs <- MCAddrs
  V6 <- MCV6
  Foreign <- ForeignPorts
  FaultKinds = {"crash"}
  MaxFaults = 1
SYMMETRY Symmetry
INVARIANTS GCScopedToNetwork
PROPERTIES ForeignUntouched
