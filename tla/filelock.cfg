SPECIFICATION FairSpec
CONSTANTS
  None = None
  Procs = {p1, p2, p3}
INVARIANTS TypeOK LockedIsOwner
PROPERTIES ImplementsCniLock LockCallReturns NoLockLeak
