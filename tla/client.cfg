SPECIFICATION FairSpec
CONSTANTS
  Callers = {c1, c2}
  MaxCalls = 5
  IdMod = 2
  FaultKinds = {"dup", "cut", "huge", "hangup"}
  MaxFaults = 1
  None = None
INVARIANTS TypeOK NoSpuriousError
PROPERTIES ImplementsRpc CallReturns
CHECK_DEADLOCK FALSE
