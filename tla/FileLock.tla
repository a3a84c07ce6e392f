------------------------------ MODULE FileLock ------------------------------
(***************************************************************************)
(* FileLock, the flock(2) lock with a 60 s timeout, and the way the        *)
(* handlers use it: NewFileLock, Lock, the critical section (in which the  *)
(* IPAM plugin is run as a child process), Unlock, Close.  The kernel ties *)
(* the lock to the open file description, so who owns it depends on every  *)
(* reference to that description: the process's descriptor, the goroutine  *)
(* blocked in flock(2), and a child between fork and exec.                 *)
(***************************************************************************)
CONSTANTS Procs, None

ASSUME FileLockAssumption == None \notin Procs

VARIABLES
  mode,   \* where the process's main goroutine is
  fd,     \* processes whose descriptor of the lock file is open
  flock,  \* the goroutine Lock spawns: not running, in flock(2), its result
  child,  \* the IPAM child: none, between fork and exec, running
  owner   \* process whose open file description owns the lock, or None

vars == <<mode, fd, flock, child, owner>>

TypeOK ==
  /\ mode \in [Procs -> {"idle", "opened", "waiting", "locked", "failed",
                         "unlocked", "returned"}]
  /\ fd \subseteq Procs
  /\ flock \in [Procs -> {"none", "blocked", "granted", "error"}]
  /\ child \in [Procs -> {"none", "forked", "running"}]
  /\ owner \in Procs \union {None}

Init ==
  /\ mode = [p \in Procs |-> "idle"]
  /\ fd = {}
  /\ flock = [p \in Procs |-> "none"]
  /\ child = [p \in Procs |-> "none"]
  /\ owner = None

\* Mutant: without O_CLOEXEC the IPAM child keeps its copy of the descriptor.
OwnerAfterInherited(p) ==
  IF owner = p /\ p \notin fd' /\ flock'[p] # "blocked" /\ child'[p] = "none"
  THEN None ELSE owner

\* The owner once p's open file description has the references left over after
\* the step: the kernel drops the lock with the last one.
OwnerAfter(p) ==
  IF owner = p /\ p \notin fd' /\ flock'[p] # "blocked" /\ child'[p] # "forked"
  THEN None ELSE owner

Goto(p, m) == mode' = [mode EXCEPT ![p] = m]

-----------------------------------------------------------------------------
\* Mutant: the error of open is dropped and the lock has no descriptor.
NewFileLockUnchecked(p) ==
  /\ mode[p] = "idle" /\ child[p] = "none"
  /\ Goto(p, "opened")
  /\ fd' \in {fd \union {p}, fd \union {None}}
  /\ UNCHANGED <<flock, child, owner>>

\* MkdirAll and open succeed, or the handler returns the error.  A slot is a
\* new process, so what ran in it before is gone, an orphaned child included.
NewFileLock(p) ==
  /\ mode[p] = "idle" /\ child[p] = "none"
  /\ \/ Goto(p, "opened") /\ fd' = fd \union {p}
     \/ Goto(p, "returned") /\ UNCHANGED fd
  /\ UNCHANGED <<flock, child, owner>>

\* Lock spawns the goroutine and waits in the select.
LockCall(p) ==
  /\ mode[p] = "opened"
  /\ Goto(p, "waiting")
  /\ flock' = [flock EXCEPT ![p] = "blocked"]
  /\ UNCHANGED <<fd, child, owner>>

\* flock(2) returns in the goroutine, with the lock or with an error.  When the
\* descriptor was closed meanwhile, the return drops the last reference.
FlockReturns(p) ==
  /\ flock[p] = "blocked"
  /\ \/ /\ owner = None
        /\ flock' = [flock EXCEPT ![p] = "granted"]
        /\ owner' = IF p \in fd THEN p ELSE None
     \/ flock' = [flock EXCEPT ![p] = "error"] /\ UNCHANGED owner
  /\ UNCHANGED <<mode, fd, child>>

\* Mutant: the error of flock(2) is dropped.
LockReturnsUnchecked(p) ==
  /\ mode[p] = "waiting"
  /\ flock[p] \in {"granted", "error"}
  /\ Goto(p, "locked")
  /\ UNCHANGED <<fd, flock, child, owner>>

\* The select takes the goroutine's result.
LockReturns(p) ==
  /\ mode[p] = "waiting"
  /\ \/ flock[p] = "granted" /\ Goto(p, "locked")
     \/ flock[p] = "error" /\ Goto(p, "failed")
  /\ UNCHANGED <<fd, flock, child, owner>>

\* Mutants: the timeout is taken for the lock; there is no timeout.
LockTimeoutAsGrant(p) ==
  /\ mode[p] = "waiting"
  /\ Goto(p, "locked")
  /\ UNCHANGED <<fd, flock, child, owner>>

NoTimeout(p) == FALSE

\* The select takes the timer, even when the result is there as well.
LockTimeout(p) ==
  /\ mode[p] = "waiting"
  /\ Goto(p, "failed")
  /\ UNCHANGED <<fd, flock, child, owner>>

\* In the critical section the handler forks a child to run the IPAM plugin;
\* O_CLOEXEC closes the child's copy of the descriptor when it execs.
IpamFork(p) ==
  /\ mode[p] = "locked" /\ child[p] = "none"
  /\ child' = [child EXCEPT ![p] = "forked"]
  /\ UNCHANGED <<mode, fd, flock, owner>>

IpamExec(p) ==
  /\ child[p] = "forked"
  /\ child' = [child EXCEPT ![p] = "running"]
  /\ UNCHANGED <<mode, fd, flock>>
  /\ owner' = OwnerAfter(p)

IpamExit(p) ==
  /\ child[p] = "running"
  /\ child' = [child EXCEPT ![p] = "none"]
  /\ UNCHANGED <<mode, fd, flock, owner>>

\* LOCK_UN, once the handler is done and its child reaped.
Unlock(p) ==
  /\ mode[p] = "locked" /\ child[p] = "none"
  /\ Goto(p, "unlocked")
  /\ owner' = None
  /\ UNCHANGED <<fd, flock, child>>

\* After Unlock, and after a Lock that failed.
Close(p) ==
  /\ mode[p] \in {"unlocked", "failed"}
  /\ Goto(p, "returned")
  /\ fd' = fd \ {p}
  /\ UNCHANGED <<flock, child>>
  /\ owner' = OwnerAfter(p)

\* The process ends: normally once the handler returned, or killed at any point.
Ends(p) ==
  /\ Goto(p, "idle")
  /\ fd' = fd \ {p}
  /\ flock' = [flock EXCEPT ![p] = "none"]
  /\ UNCHANGED child
  /\ owner' = OwnerAfter(p)

Exit(p) == mode[p] = "returned" /\ Ends(p)

Kill(p) == mode[p] # "idle" /\ Ends(p)

-----------------------------------------------------------------------------
Next ==
  \E p \in Procs :
    \/ NewFileLock(p) \/ LockCall(p) \/ FlockReturns(p) \/ LockReturns(p) \/ LockTimeout(p)
    \/ IpamFork(p) \/ IpamExec(p) \/ IpamExit(p) \/ Unlock(p) \/ Close(p) \/ Exit(p) \/ Kill(p)

Spec == Init /\ [][Next]_vars

\* The select returns when its timer fires, deferred calls run, and a forked
\* child execs.  The critical section and the IPAM plugin may hang.
FairSpec ==
  /\ Spec
  /\ \A p \in Procs : WF_vars(LockReturns(p) \/ LockTimeout(p)) /\ WF_vars(Close(p))
                      /\ WF_vars(Exit(p)) /\ WF_vars(IpamExec(p))

-----------------------------------------------------------------------------
(* Properties                                                              *)

\* Lock returned nil only to the process that owns the flock, which keeps it
\* until its own Unlock: the handlers' critical sections exclude each other,
\* through timeouts, late grants and kills.
LockedIsOwner == \A p \in Procs : mode[p] = "locked" => owner = p

\* FileLock implements the lock the handlers rely on.
Holder ==
  IF \E p \in Procs : mode[p] = "locked"
  THEN CHOOSE p \in Procs : mode[p] = "locked" ELSE None

Abstract == INSTANCE CniLock WITH holder <- Holder
ImplementsCniLock == Abstract!Spec

\* Lock always returns, even if the holder never unlocks.
LockCallReturns == \A p \in Procs : mode[p] = "waiting" ~> mode[p] # "waiting"

\* A process that failed to lock, was killed or has exited does not keep the
\* flock, though a grant may come after its timeout and its IPAM child may live on.
NoLockLeak ==
  \A p \in Procs : owner = p /\ mode[p] \in {"idle", "failed", "returned"} ~> owner # p
=============================================================================
