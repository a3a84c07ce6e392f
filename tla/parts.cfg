SPECIFICATION Spec
CONSTANTS
  Nil = Nil
  Byte = 4
  V4 = {6, 15}
  V6 = {9, 30, 31}
  Sizes = {1, 2, 4, 8}
  Supplied = {3}
  MaxIPs = 3
  Letters = {"x", "-"}
  Digests = {"x"}
  NameSize = 7
  MaxName = 5
  MaxBridge = 7
  Word = 8
  ConfMTUs = {0, 1, 7, 8}
  IfTypes = {"", "tap", "veth"}
  LogWords = {"", "debug", "info", "warn", "warning", "error", "trace"}
  MaxNets = 1
  Ifaces = {1}
  IfaceArgs = {1, 3}
  Hosts = {"a"}
  Hops = {"n"}
  PrefixLens = {24}
  Vrfs = {0, 2}
  Vnis = {5}
  Foreign = {5}
  MaxObjects = 3
  None = None
  Ids = {1, 2}
  PortChars = {"2", "7"}
  PortLen = 2
  OtherLens = {1, 4}
  MTUs = {0, 9}
  Paths = {"", "sock", "long"}
  Vteps = {None, "v4", "v6"}
  NoLink = NoLink
  Results = {{}, {"v4"}, {"v6"}, {"v4", "v6"}}
INVARIANTS
  OneGatewayPerFamily GatewayIsFirstHost ConfFitsWire LevelHonoured
  FloodListTrue GroutHasWhatWasAsked ListTrue VdevsDistinct
  PodMacDiffersWithIPs CheckHonest
PROPERTIES CallsDoWhatTheySay OthersUntouched ImplementsPodLink
CHECK_DEADLOCK FALSE
