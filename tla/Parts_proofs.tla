---------------------------- MODULE Parts_proofs -----------------------------
(***************************************************************************)
(* The parts of the plugin that do not talk to grout, for any values of    *)
(* the constants.  lock.go: the flock is owned by whoever Lock returned    *)
(* to, and FileLock implements CniLock.  netns.go: what is done to the     *)
(* pod's interface one netlink operation at a time, and that it adds up to *)
(* the steps of PodLink.  handler.go, portname.go and config.go: what the  *)
(* pure functions compute; loops over a sequence are recursive functions   *)
(* in the model, unfolded and reasoned about by the least position at      *)
(* which a statement fails.                                                *)
(***************************************************************************)
EXTENDS Addressing, CniConfig, FileLock, PodNetns, WellFoundedInduction, TLAPS

-----------------------------------------------------------------------------
(* The lock.                                                               *)

\* A process keeps its descriptor open up to the end of its critical section,
\* and a result of flock(2) that the select has not taken yet is still valid.
IInv ==
  /\ TypeOK
  /\ \A p \in Procs : mode[p] \in {"opened", "waiting", "locked"} => p \in fd
  /\ \A p \in Procs : mode[p] = "waiting" /\ flock[p] = "granted" => owner = p
  /\ LockedIsOwner

\* IInv holds when no process has started.
LEMMA InitIInv == Init => IInv
BY FileLockAssumption DEF Init, IInv, TypeOK, LockedIsOwner

\* IInv is preserved by every step of FileLock, kills and late grants included.
LEMMA NextIInv == IInv /\ [Next]_vars => IInv'
<1> SUFFICES ASSUME IInv, [Next]_vars PROVE IInv'
  OBVIOUS
<1> USE FileLockAssumption DEF IInv, TypeOK, LockedIsOwner, Goto
<1>1. ASSUME NEW p \in Procs, NewFileLock(p) PROVE IInv'
  BY <1>1 DEF NewFileLock
<1>2. ASSUME NEW p \in Procs, LockCall(p) PROVE IInv'
  BY <1>2 DEF LockCall
<1>3. ASSUME NEW p \in Procs, FlockReturns(p) PROVE IInv'
  BY <1>3 DEF FlockReturns
<1>4. ASSUME NEW p \in Procs, LockReturns(p) \/ LockTimeout(p) PROVE IInv'
  BY <1>4 DEF LockReturns, LockTimeout
<1>5. ASSUME NEW p \in Procs, IpamFork(p) \/ IpamExec(p) \/ IpamExit(p) PROVE IInv'
  BY <1>5 DEF IpamFork, IpamExec, IpamExit, OwnerAfter
<1>6. ASSUME NEW p \in Procs, Unlock(p) PROVE IInv'
  BY <1>6 DEF Unlock
<1>7. ASSUME NEW p \in Procs, Close(p) PROVE IInv'
  BY <1>7 DEF Close, OwnerAfter
<1>8. ASSUME NEW p \in Procs, Exit(p) \/ Kill(p) PROVE IInv'
  BY <1>8 DEF Exit, Kill, Ends, OwnerAfter
<1>9. CASE UNCHANGED vars
  BY <1>9 DEF vars
<1> QED
  BY <1>1, <1>2, <1>3, <1>4, <1>5, <1>6, <1>7, <1>8, <1>9 DEF Next

\* The inductive invariant holds in every reachable state.
THEOREM FileLockInvariant == Spec => []IInv
BY InitIInv, NextIInv, PTL DEF Spec

\* lock.go keeps its variables within their types, for any number of processes.
THEOREM LockTypeOK == Spec => []TypeOK
<1>1. IInv => TypeOK
  BY DEF IInv
<1> QED
  BY <1>1, FileLockInvariant, PTL

\* The handlers' critical sections exclude each other: whoever Lock returned to
\* owns the flock until its own Unlock.
THEOREM MutualExclusion == Spec => []LockedIsOwner
<1>1. IInv => LockedIsOwner
  BY DEF IInv
<1> QED
  BY <1>1, FileLockInvariant, PTL

-----------------------------------------------------------------------------
\* Holder is the process in its critical section, if there is one.
LEMMA HolderIs ==
  ASSUME IInv
  PROVE  /\ \A p \in Procs : mode[p] = "locked" => Holder = p
         /\ (\A p \in Procs : mode[p] # "locked") => Holder = None
BY FileLockAssumption, Zenon DEF IInv, TypeOK, LockedIsOwner, Holder

\* A step that takes nobody into or out of the critical section is a stutter.
LEMMA HolderSame ==
  ASSUME IInv, IInv', \A p \in Procs : mode'[p] = "locked" <=> mode[p] = "locked"
  PROVE  Holder' = Holder
<1>1. CASE \E p \in Procs : mode[p] = "locked"
  <2> PICK p \in Procs : mode[p] = "locked"
    BY <1>1
  <2>1. Holder = p
    BY HolderIs
  <2>2. mode'[p] = "locked"
    OBVIOUS
  <2>3. Holder' = p
    BY <2>2, FileLockAssumption DEF IInv, TypeOK, LockedIsOwner, Holder
  <2> QED
    BY <2>1, <2>3
<1>2. CASE \A p \in Procs : mode[p] # "locked"
  BY <1>2, HolderIs, FileLockAssumption DEF Holder
<1> QED
  BY <1>1, <1>2

\* FileLock, with its goroutine, timeout, child and kills, implements CniLock:
\* Lock returning nil is an Acquire, Unlock or the holder's death a Release.
THEOREM Refinement == Spec => ImplementsCniLock
<1>1. Init => Abstract!Init
  BY FileLockAssumption DEF Init, Abstract!Init, Holder
<1>2. IInv /\ IInv' /\ [Next]_vars => [Abstract!Next]_Holder
  <2> SUFFICES ASSUME IInv, IInv', [Next]_vars PROVE [Abstract!Next]_Holder
    OBVIOUS
  <2> USE FileLockAssumption
  <2>1. ASSUME NEW p \in Procs, mode[p] # "locked", mode'[p] = "locked", LockReturns(p)
        PROVE  Abstract!Acquire(p)
    <3>1. \A q \in Procs : mode[q] # "locked"
      BY <2>1 DEF LockReturns, IInv, TypeOK, LockedIsOwner, Goto
    <3>2. Holder = None
      BY <3>1, HolderIs
    <3>3. Holder' = p
      BY <2>1 DEF IInv, TypeOK, LockedIsOwner, Holder
    <3> QED
      BY <3>2, <3>3 DEF Abstract!Acquire
  <2>2. ASSUME NEW p \in Procs, mode[p] = "locked", mode'[p] # "locked",
               \A q \in Procs \ {p} : mode'[q] = mode[q]
        PROVE  Abstract!Release(p)
    <3>1. Holder = p
      BY <2>2, HolderIs
    <3>2. \A q \in Procs : mode'[q] # "locked"
      BY <2>2 DEF IInv, LockedIsOwner
    <3>3. Holder' = None
      BY <3>2 DEF Holder
    <3> QED
      BY <3>1, <3>3 DEF Abstract!Release
  <2>3. ASSUME NEW p \in Procs, LockReturns(p) PROVE [Abstract!Next]_Holder
    <3>1. CASE mode'[p] = "locked"
      BY <2>1, <2>3, <3>1 DEF LockReturns, Abstract!Next
    <3>2. CASE mode'[p] # "locked"
      BY <2>3, <3>2, HolderSame DEF LockReturns, Goto, IInv, TypeOK
    <3> QED
      BY <3>1, <3>2
  <2>4. ASSUME NEW p \in Procs, Unlock(p) \/ Exit(p) \/ Kill(p)
        PROVE  [Abstract!Next]_Holder
    <3>1. /\ mode'[p] # "locked"
          /\ \A q \in Procs \ {p} : mode'[q] = mode[q]
      BY <2>4 DEF Unlock, Exit, Kill, Ends, Goto, IInv, TypeOK
    <3>2. CASE mode[p] = "locked"
      BY <2>2, <3>1, <3>2 DEF Abstract!Next
    <3>3. CASE mode[p] # "locked"
      BY <3>1, <3>3, HolderSame
    <3> QED
      BY <3>2, <3>3
  <2>5. ASSUME NEW p \in Procs, NewFileLock(p) \/ LockCall(p) \/ LockTimeout(p) \/ Close(p)
        PROVE  [Abstract!Next]_Holder
    BY <2>5, HolderSame DEF NewFileLock, LockCall, LockTimeout, Close, Goto, IInv, TypeOK
  <2>6. ASSUME NEW p \in Procs, FlockReturns(p) \/ IpamFork(p) \/ IpamExec(p) \/ IpamExit(p)
        PROVE  [Abstract!Next]_Holder
    BY <2>6, Zenon DEF FlockReturns, IpamFork, IpamExec, IpamExit, Holder
  <2>7. CASE UNCHANGED vars
    BY <2>7 DEF vars, Holder
  <2> QED
    BY <2>3, <2>4, <2>5, <2>6, <2>7 DEF Next
<1> QED
  BY <1>1, <1>2, FileLockInvariant, PTL DEF Spec, ImplementsCniLock, Abstract!Spec

-----------------------------------------------------------------------------
(* The pod's interface.                                                    *)

Links ==
  [own : {"port", "other"}, up : BOOLEAN, mac : {"grout", "pod", "other"}, mtu : BOOLEAN,
   addrs : SUBSET UNION Results, routes : BOOLEAN]

\* NoLink tells "no interface" from every interface, and "no MAC" from a MAC.
NoLinkApart == NoLink \notin Links /\ NoLink # "pod"

BeforeRename == {"find", "down", "rename"}

BeforeUp == BeforeRename \union {"refind", "mtu", "mac"}

Configuring == BeforeUp \union {"ipam", "ipam_conf"}

Checking == {"c_find", "c_addrs", "c_ok", "c_err"}

Configured == {"readmac", "added"} \union Checking

AfterRename == {"refind", "mtu", "mac", "ipam", "ipam_conf"} \union Configured

Typed ==
  /\ host \in {NoLink, [Link("port", "grout") EXCEPT !.up = TRUE]}
  /\ netns \in [LinkNames -> Links \union {NoLink}]
  /\ pc \in {"move", "rollback", "failed"} \union Configuring \union Configured
  /\ handle \in {NoLink, "port", "other"}
  /\ ips \subseteq UNION Results
  /\ mtu \in BOOLEAN

\* Where the port's netdev is: in one place, under the name that the operations
\* after this one look it up by, which then is nobody else's.
Placed ==
  /\ host # NoLink => pc \in {"move", "rollback", "failed"} /\ Ours = {}
  /\ pc = "move" => Ours = {} /\ netns["grk"] = NoLink
  /\ \A m, n \in Ours : m = n
  /\ pc \in BeforeRename =>
       (\A n \in Ours : n = "grk") /\ (netns["grk"] # NoLink => netns["grk"].own = "port")
  /\ pc \in AfterRename =>
       (\A n \in Ours : n = "eth0") /\ (netns["eth0"] # NoLink => netns["eth0"].own = "port")
  /\ pc \in {"down", "rename", "mtu", "mac", "ipam_conf", "c_addrs"} => handle = "port"

\* How far the interface is configured.
Shape(n) ==
  /\ netns[n].addrs \subseteq ips
  /\ pc \in BeforeUp => ~netns[n].up
  /\ pc \in {"ipam", "ipam_conf"} \union Configured /\ ips # {} => netns[n].mac = "pod"
  /\ pc \in Configuring => ~netns[n].routes
  /\ pc \in {"mac", "ipam", "ipam_conf"} /\ mtu => netns[n].mtu

\* What is so while CHECK runs has been seen, and after its first query the
\* interface has been seen up.
Looked ==
  /\ pc \in Checking => Now(netns, want) \subseteq seen
  /\ pc \in {"c_addrs", "c_ok"} => "up" \in seen

PodInv ==
  /\ Typed /\ Placed /\ Looked
  /\ \A n \in Ours : Shape(n)
  /\ PodMacDiffersWithIPs /\ CheckHonest

-----------------------------------------------------------------------------
\* Before ADD moves it, the netdev is in the host's netns and up.
LEMMA PodInitInv ==
  ASSUME NoLinkApart, PodInit
  PROVE  PodInv
<1>1. PICK taken \in SUBSET {"eth0", "net1"} :
        netns = [n \in LinkNames |-> IF n \in taken THEN Link("other", "other") ELSE NoLink]
  BY DEF PodInit
<1>2. Link("other", "other") \in Links /\ Link("other", "other").own = "other"
  BY DEF Link, Links
<1>3. netns \in [LinkNames -> Links \union {NoLink}]
  BY <1>1, <1>2
<1>4. Ours = {} /\ netns["grk"] = NoLink
  BY <1>1, <1>2, Zenon DEF Ours, LinkNames
<1>5. Typed
  BY <1>3 DEF PodInit, Typed
<1>6. Placed
  BY <1>4 DEF PodInit, Placed, BeforeRename, AfterRename, Configured, Checking
<1>7. Looked /\ CheckHonest
  BY DEF PodInit, Looked, CheckHonest, Checking
<1>8. PodMacDiffersWithIPs
  BY <1>4 DEF PodMacDiffersWithIPs
<1> QED
  BY <1>4, <1>5, <1>6, <1>7, <1>8, Zenon DEF PodInv

\* The interface that the handle or the name refers to is the port's.
LEMMA HeldIsOurs ==
  ASSUME PodInv
  PROVE  /\ handle = "port" => Held = Ours
         /\ \A n \in Ours : n \in LinkNames /\ netns[n] \in Links /\ netns[n].own = "port" /\ Ours = {n} /\ host = NoLink
         /\ \A n \in LinkNames : n \notin Ours => netns[n] = NoLink \/ netns[n].own = "other"
<1>1. netns \in [LinkNames -> Links \union {NoLink}] /\ \A m, n \in Ours : m = n
  BY DEF PodInv, Typed, Placed
<1>2. \A n \in Ours : host = NoLink
  BY DEF PodInv, Placed
<1>3. \A n \in LinkNames : netns[n] # NoLink => netns[n] \in Links /\ netns[n].own \in {"port", "other"}
  BY <1>1 DEF Links
<1> QED
  BY <1>1, <1>2, <1>3 DEF Held, Ours

\* One field of the port's interface is set and ADD goes on.
Sets(n, next) ==
  /\ n \in Ours /\ netns'[n] \in Links /\ netns'[n].own = "port"
  /\ netns' = [netns EXCEPT ![n] = netns'[n]]
  /\ pc' = next
  /\ UNCHANGED <<host, handle, ips, mtu, want>>

\* Only that interface differs afterwards.
LEMMA SetsFacts ==
  ASSUME NoLinkApart, PodInv, NEW n, NEW next, Sets(n, next)
  PROVE  /\ netns' \in [LinkNames -> Links \union {NoLink}]
         /\ \A m \in LinkNames : m # n => netns'[m] = netns[m]
         /\ Ours' = {n} /\ Ours = {n} /\ n \in LinkNames /\ netns[n] \in Links /\ host = NoLink
<1>1. /\ Ours = {n} /\ n \in LinkNames /\ netns[n] \in Links /\ host = NoLink
      /\ \A m \in LinkNames : m # n => netns[m] = NoLink \/ netns[m].own = "other"
  BY HeldIsOurs DEF Sets
<1>2. netns \in [LinkNames -> Links \union {NoLink}]
  BY DEF PodInv, Typed
<1>3. netns' \in [LinkNames -> Links \union {NoLink}] /\ \A m \in LinkNames : m # n => netns'[m] = netns[m]
  <2>1. netns'[n] \in Links /\ netns' = [netns EXCEPT ![n] = netns'[n]]
    BY DEF Sets
  <2> QED
    BY <1>1, <1>2, <2>1
<1>4. netns'[n] # NoLink /\ netns'[n].own = "port"
  BY DEF Sets, NoLinkApart
<1>5. Ours' = {n}
  BY <1>1, <1>3, <1>4 DEF Ours
<1> QED
  BY <1>1, <1>3, <1>5

\* Setting a field of the port's interface keeps it where it is.
LEMMA SetsStep ==
  ASSUME NoLinkApart, PodInv, NEW n, NEW next, Sets(n, next), Shape(n)',
         \/ pc \in BeforeRename /\ next \in BeforeRename
         \/ pc \in AfterRename /\ next \in AfterRename,
         next \in {"down", "rename", "mtu", "mac", "ipam_conf", "c_addrs"} => handle = "port",
         ips # {} /\ netns'[n].up => netns'[n].mac # "grout",
         Looked', CheckHonest'
  PROVE  PodInv'
<1>1. /\ netns' \in [LinkNames -> Links \union {NoLink}]
      /\ \A m \in LinkNames : m # n => netns'[m] = netns[m]
      /\ Ours' = {n} /\ Ours = {n} /\ n \in LinkNames /\ host = NoLink
  BY SetsFacts
<1>2. pc' = next /\ UNCHANGED <<host, handle, ips, mtu, want>> /\ netns'[n].own = "port"
  BY DEF Sets
<1>3. Typed'
  BY <1>1, <1>2 DEF PodInv, Typed, BeforeRename, AfterRename, Configuring, BeforeUp
<1>4. Placed'
  <2>1. Placed
    BY DEF PodInv
  <2>2. pc' \notin {"move"} /\ "grk" \in LinkNames /\ "eth0" \in LinkNames
    BY <1>2 DEF BeforeRename, AfterRename, Configured, Checking, LinkNames
  <2>3. pc' \in BeforeRename => pc \in BeforeRename
    BY <1>2 DEF BeforeRename, AfterRename, Configured, Checking
  <2>4. pc' \in AfterRename => pc \in AfterRename
    BY <1>2 DEF BeforeRename, AfterRename, Configured, Checking
  <2>5. pc' \in BeforeRename => n = "grk"
    BY <1>1, <2>1, <2>3 DEF Placed
  <2>6. pc' \in AfterRename => n = "eth0"
    BY <1>1, <2>1, <2>4 DEF Placed
  <2> QED
    BY <1>1, <1>2, <2>2, <2>5, <2>6 DEF Placed
<1>5. PodMacDiffersWithIPs' /\ \A m \in Ours' : Shape(m)'
  BY <1>1, <1>2 DEF PodMacDiffersWithIPs, BeforeRename, AfterRename, Configured, Checking
<1> QED
  BY <1>3, <1>4, <1>5 DEF PodInv

\* What OnHandle does when it succeeds.
LEMMA HandleSets ==
  ASSUME PodInv, handle = "port", NEW n \in Held, NEW l \in Links, NEW next,
         netns' = [netns EXCEPT ![n] = l], l.own = netns[n].own, pc' = next,
         UNCHANGED <<host, handle, ips, mtu, chk>>
  PROVE  Sets(n, next) /\ netns'[n] = l
<1>1. n \in Ours /\ n \in LinkNames /\ netns[n].own = "port"
  BY HeldIsOurs
<1>2. netns \in [LinkNames -> Links \union {NoLink}]
  BY DEF PodInv, Typed
<1>3. netns'[n] = l
  BY <1>1, <1>2
<1> QED
  BY <1>1, <1>3, Zenon DEF Sets, chk

\* A failing operation leaves everything to the rollback.
LEMMA FailsStep ==
  ASSUME PodInv, Fails, pc # "failed"
  PROVE  PodInv'
<1>1. UNCHANGED <<host, netns, handle, ips, mtu, want, seen>> /\ pc' = "rollback" /\ Ours' = Ours
  BY DEF Fails, chk, Ours
<1>2. Typed'
  BY <1>1 DEF PodInv, Typed
<1>3. Placed'
  BY <1>1 DEF PodInv, Placed, BeforeRename, AfterRename, Configured, Checking
<1>4. Looked' /\ CheckHonest'
  BY <1>1 DEF Looked, CheckHonest, Checking
<1>5. PodMacDiffersWithIPs'
  BY <1>1 DEF PodInv, PodMacDiffersWithIPs
<1>6. \A n \in Ours' : Shape(n)'
  BY <1>1 DEF PodInv, Shape, BeforeUp, BeforeRename, Configuring, Configured, Checking
<1> QED
  BY <1>2, <1>3, <1>4, <1>5, <1>6 DEF PodInv

\* ADD goes on without a change to an interface.
LEMMA GoesOn ==
  ASSUME PodInv, UNCHANGED <<host, netns, ips, mtu>>,
         \/ pc \in BeforeRename /\ pc' \in BeforeRename
         \/ pc \in AfterRename /\ pc' \in AfterRename,
         handle' \in {NoLink, "port", "other"},
         pc' \in {"down", "rename", "mtu", "mac", "ipam_conf", "c_addrs"} => handle' = "port",
         \A n \in Ours : Shape(n) => Shape(n)',
         Looked', CheckHonest'
  PROVE  PodInv'
<1>1. Ours' = Ours /\ pc' \notin {"failed", "move"}
  BY DEF Ours, BeforeRename, AfterRename, Configured, Checking
<1>2. Typed'
  BY DEF PodInv, Typed, BeforeRename, AfterRename, Configuring, BeforeUp
<1>3. Placed'
  <2>1. /\ pc' \in BeforeRename => pc \in BeforeRename
        /\ pc' \in AfterRename => pc \in AfterRename
    BY DEF BeforeRename, AfterRename, Configured, Checking
  <2>2. host = NoLink
    BY DEF PodInv, Placed, BeforeRename, AfterRename, Configured, Checking
  <2> QED
    BY <1>1, <2>1, <2>2 DEF PodInv, Placed
<1>4. PodMacDiffersWithIPs'
  BY <1>1 DEF PodInv, PodMacDiffersWithIPs
<1>5. \A n \in Ours' : Shape(n)'
  BY <1>1 DEF PodInv
<1> QED
  BY <1>2, <1>3, <1>4, <1>5 DEF PodInv

\* moveLinkToNamespace brings the netdev down under a name that nobody has.
LEMMA MoveStep ==
  ASSUME NoLinkApart, PodInv, moveLinkToNamespace
  PROVE  PodInv'
<1>1. CASE Fails
  BY <1>1, FailsStep DEF moveLinkToNamespace
<1>2. CASE ~Fails
  <2>1. /\ pc = "move" /\ host # NoLink
        /\ netns' = [netns EXCEPT !["grk"] = [host EXCEPT !.up = FALSE]]
        /\ host' = NoLink /\ pc' = "find"
        /\ UNCHANGED <<handle, ips, mtu, want, seen>>
    BY <1>2 DEF moveLinkToNamespace, chk
  <2> DEFINE l == [host EXCEPT !.up = FALSE]
  <2>2. l \in Links /\ l.own = "port" /\ ~l.up /\ l.addrs = {} /\ ~l.routes
    BY <2>1, Zenon DEF PodInv, Typed, Link, Links
  <2> HIDE DEF l
  <2>3. netns \in [LinkNames -> Links \union {NoLink}] /\ "grk" \in LinkNames
    BY DEF PodInv, Typed, LinkNames
  <2>4. netns' = [netns EXCEPT !["grk"] = l]
    BY <2>1 DEF l
  <2>5. /\ netns' \in [LinkNames -> Links \union {NoLink}]
        /\ netns'["grk"] = l /\ \A m \in LinkNames : m # "grk" => netns'[m] = netns[m]
    BY <2>2, <2>3, <2>4
  <2>6. Ours = {}
    BY <2>1 DEF PodInv, Placed
  <2>7. Ours' = {"grk"}
    BY <2>2, <2>3, <2>5, <2>6 DEF Ours, NoLinkApart
  <2>8. Typed'
    BY <2>1, <2>5 DEF PodInv, Typed, Configuring, BeforeUp, BeforeRename
  <2>9. Placed'
    BY <2>1, <2>2, <2>5, <2>7, Zenon DEF Placed, BeforeRename, AfterRename, Configured, Checking
  <2>10. \A n \in Ours' : Shape(n)'
    BY <2>1, <2>2, <2>5, <2>7, Zenon DEF Shape, Configured, Checking
  <2>11. PodMacDiffersWithIPs'
    BY <2>2, <2>5, <2>7 DEF PodMacDiffersWithIPs
  <2>12. Looked' /\ CheckHonest'
    BY <2>1 DEF Looked, CheckHonest, Checking
  <2> QED
    BY <2>8, <2>9, <2>10, <2>11, <2>12 DEF PodInv
<1> QED
  BY <1>1, <1>2

\* LinkByName finds the port's interface: by its old name first, then the new.
LEMMA FindStep ==
  ASSUME NoLinkApart, PodInv, FindMoved \/ FindRenamed \/ ConfigureFind
  PROVE  PodInv'
<1>1. ASSUME NEW at, NEW n, NEW next, Find(at, n, next),
             \/ at = "find" /\ n = "grk" /\ next = "down"
             \/ at = "refind" /\ n = "eth0" /\ next \in {"mtu", "mac"} /\ (next = "mac" => ~mtu)
             \/ at = "ipam" /\ n = "eth0" /\ next = "ipam_conf"
      PROVE  PodInv'
  <2>1. CASE Fails
    BY <1>1, <2>1, FailsStep DEF Find
  <2>2. CASE ~Fails
    <3>1. /\ pc = at /\ netns[n] # NoLink /\ handle' = netns[n].own /\ pc' = next
          /\ UNCHANGED <<host, netns, ips, mtu, want, seen>>
      BY <1>1, <2>2 DEF Find, chk
    <3>2. handle' = "port"
      BY <1>1, <3>1 DEF PodInv, Placed, BeforeRename, AfterRename
    <3>3. \/ pc \in BeforeRename /\ pc' \in BeforeRename
          \/ pc \in AfterRename /\ pc' \in AfterRename
      BY <1>1, <3>1 DEF BeforeRename, AfterRename
    <3>4. \A m \in Ours : Shape(m) => Shape(m)'
      <4> TAKE m \in Ours
      <4>1. at = "find" => (Shape(m) => Shape(m)')
        BY <1>1, <3>1 DEF Shape, BeforeRename, BeforeUp, Configuring, Configured, Checking
      <4>2. at = "refind" => (Shape(m) => Shape(m)')
        BY <1>1, <3>1 DEF Shape, BeforeRename, BeforeUp, Configuring, Configured, Checking
      <4>3. at = "ipam" => (Shape(m) => Shape(m)')
        BY <1>1, <3>1 DEF Shape, BeforeRename, BeforeUp, Configuring, Configured, Checking
      <4> QED
        BY <1>1, <4>1, <4>2, <4>3
    <3>5. Looked' /\ CheckHonest'
      BY <1>1, <3>1 DEF Looked, CheckHonest, Checking
    <3> QED
      BY <3>1, <3>2, <3>3, <3>4, <3>5, GoesOn
  <2> QED
    BY <2>1, <2>2
<1>2. mtu \in BOOLEAN
  BY DEF PodInv, Typed
<1>3. FindRenamed => PodInv'
  <2>1. CASE mtu
    BY <1>1, <2>1 DEF FindRenamed
  <2>2. CASE ~mtu
    BY <1>1, <2>2 DEF FindRenamed
  <2> QED
    BY <2>1, <2>2
<1> QED
  BY <1>1, <1>3 DEF FindMoved, ConfigureFind

\* LinkSetDown.
LEMMA SetDownStep ==
  ASSUME NoLinkApart, PodInv, SetDown
  PROVE  PodInv' /\ (~Fails => \E n : Sets(n, "rename"))
<1>1. CASE Fails
  BY <1>1, FailsStep DEF SetDown, OnHandle
<1>2. CASE ~Fails
  <2>1. PICK n \in Held : netns' = [netns EXCEPT ![n]["up"] = FALSE]
    BY <1>2 DEF SetDown, OnHandle
  <2>2. pc = "down" /\ pc' = "rename" /\ UNCHANGED <<host, handle, ips, mtu, chk>>
    BY <1>2 DEF SetDown, OnHandle
  <2>3. handle = "port"
    BY <2>2 DEF PodInv, Placed
  <2>4. n \in Ours /\ n \in LinkNames /\ netns[n] \in Links /\ Shape(n)
    BY <2>3, HeldIsOurs DEF PodInv
  <2> DEFINE l == [netns[n] EXCEPT !.up = FALSE]
  <2>5. l \in Links /\ l.own = netns[n].own
    BY <2>4, Zenon DEF Links
  <2>6. netns' = [netns EXCEPT ![n] = l]
    BY <2>1, <2>4, Zenon DEF PodInv, Typed
  <2>7. Sets(n, "rename") /\ netns'[n] = l
    <3> HIDE DEF l
    <3> QED
      BY <2>2, <2>3, <2>5, <2>6, HandleSets, Zenon
  <2>8. /\ ~netns'[n].up /\ netns'[n].addrs = netns[n].addrs /\ netns'[n].mac = netns[n].mac
        /\ netns'[n].routes = netns[n].routes /\ netns'[n].mtu = netns[n].mtu
    BY <2>4, <2>7 DEF Links
  <2>9. Shape(n)'
    BY <2>2, <2>4, <2>8 DEF Shape, BeforeRename, BeforeUp, Configuring, Configured, Checking
  <2>10. Looked' /\ CheckHonest'
    BY <2>2 DEF Looked, CheckHonest, Checking
  <2>11. pc \in BeforeRename /\ "rename" \in BeforeRename
    BY <2>2 DEF BeforeRename
  <2> QED
    BY <2>3, <2>7, <2>8, <2>9, <2>10, <2>11, SetsStep, Zenon
<1> QED
  BY <1>1, <1>2

\* LinkSetMTU.
LEMMA SetMTUStep ==
  ASSUME NoLinkApart, PodInv, SetMTU
  PROVE  PodInv' /\ (~Fails => \E n : Sets(n, "mac"))
<1>1. CASE Fails
  BY <1>1, FailsStep DEF SetMTU, OnHandle
<1>2. CASE ~Fails
  <2>1. PICK n \in Held : netns' = [netns EXCEPT ![n]["mtu"] = TRUE]
    BY <1>2 DEF SetMTU, OnHandle
  <2>2. pc = "mtu" /\ pc' = "mac" /\ UNCHANGED <<host, handle, ips, mtu, chk>>
    BY <1>2 DEF SetMTU, OnHandle
  <2>3. handle = "port"
    BY <2>2 DEF PodInv, Placed
  <2>4. n \in Ours /\ n \in LinkNames /\ netns[n] \in Links /\ Shape(n)
    BY <2>3, HeldIsOurs DEF PodInv
  <2> DEFINE l == [netns[n] EXCEPT !.mtu = TRUE]
  <2>5. l \in Links /\ l.own = netns[n].own
    BY <2>4, Zenon DEF Links
  <2>6. netns' = [netns EXCEPT ![n] = l]
    BY <2>1, <2>4, Zenon DEF PodInv, Typed
  <2>7. Sets(n, "mac") /\ netns'[n] = l
    <3> HIDE DEF l
    <3> QED
      BY <2>2, <2>3, <2>5, <2>6, HandleSets, Zenon
  <2>8. /\ netns'[n].mtu /\ netns'[n].addrs = netns[n].addrs /\ netns'[n].mac = netns[n].mac
        /\ netns'[n].routes = netns[n].routes /\ netns'[n].up = netns[n].up
    BY <2>4, <2>7 DEF Links
  <2>9. Shape(n)' /\ ~netns'[n].up
    BY <2>2, <2>4, <2>8 DEF Shape, BeforeRename, BeforeUp, Configuring, Configured, Checking
  <2>10. Looked' /\ CheckHonest'
    BY <2>2 DEF Looked, CheckHonest, Checking
  <2>11. pc \in AfterRename /\ "mac" \in AfterRename
    BY <2>2 DEF AfterRename
  <2> QED
    BY <2>3, <2>7, <2>8, <2>9, <2>10, <2>11, SetsStep, Zenon
<1> QED
  BY <1>1, <1>2

\* LinkSetHardwareAddr, if there is a MAC to give.
LEMMA SetMACStep ==
  ASSUME NoLinkApart, PodInv, SetMAC
  PROVE  PodInv' /\ (ips # {} /\ ~Fails => \E n : Sets(n, "ipam"))
<1>1. CASE ips = {}
  <2>1. pc = "mac" /\ pc' = "ipam" /\ UNCHANGED <<host, netns, handle, ips, mtu, want, seen>>
    BY <1>1 DEF SetMAC, podMACFromResult, chk
  <2>2. \A n \in Ours : Shape(n) => Shape(n)'
    BY <1>1, <2>1 DEF Shape, BeforeRename, BeforeUp, Configuring, Configured, Checking
  <2>3. pc \in AfterRename /\ pc' \in AfterRename /\ Looked' /\ CheckHonest'
    BY <2>1 DEF AfterRename, Looked, CheckHonest, Checking
  <2>4. handle' \in {NoLink, "port", "other"}
    BY <2>1 DEF PodInv, Typed
  <2> QED
    BY <1>1, <2>1, <2>2, <2>3, <2>4, GoesOn
<1>2. CASE ips # {} /\ Fails
  BY <1>2, FailsStep DEF SetMAC, podMACFromResult, NoLinkApart, OnHandle
<1>3. CASE ips # {} /\ ~Fails
  <2>1. PICK n \in Held : netns' = [netns EXCEPT ![n]["mac"] = "pod"]
    BY <1>3 DEF SetMAC, podMACFromResult, NoLinkApart, OnHandle
  <2>2. pc = "mac" /\ pc' = "ipam" /\ UNCHANGED <<host, handle, ips, mtu, chk>>
    BY <1>3 DEF SetMAC, podMACFromResult, NoLinkApart, OnHandle
  <2>3. handle = "port"
    BY <2>2 DEF PodInv, Placed
  <2>4. n \in Ours /\ n \in LinkNames /\ netns[n] \in Links /\ Shape(n)
    BY <2>3, HeldIsOurs DEF PodInv
  <2> DEFINE l == [netns[n] EXCEPT !.mac = "pod"]
  <2>5. l \in Links /\ l.own = netns[n].own
    BY <2>4 DEF Links
  <2>6. netns' = [netns EXCEPT ![n] = l]
    BY <2>1, <2>4, Zenon DEF PodInv, Typed
  <2>7. Sets(n, "ipam") /\ netns'[n] = l
    <3> HIDE DEF l
    <3> QED
      BY <2>2, <2>3, <2>5, <2>6, HandleSets, Zenon
  <2>8. /\ netns'[n].mtu = netns[n].mtu /\ netns'[n].addrs = netns[n].addrs /\ netns'[n].mac = "pod"
        /\ netns'[n].routes = netns[n].routes
    BY <2>4, <2>7 DEF Links
  <2>9. Shape(n)'
    BY <2>2, <2>4, <2>8 DEF Shape, BeforeRename, BeforeUp, Configuring, Configured, Checking
  <2>10. Looked' /\ CheckHonest'
    BY <2>2 DEF Looked, CheckHonest, Checking
  <2>11. pc \in AfterRename /\ "ipam" \in AfterRename
    BY <2>2 DEF AfterRename
  <2> QED
    BY <2>3, <2>7, <2>8, <2>9, <2>10, <2>11, SetsStep, Zenon
<1> QED
  BY <1>1, <1>2, <1>3

\* ConfigureIface brings the interface up, which has its own MAC by now.
LEMMA ConfigureUpStep ==
  ASSUME NoLinkApart, PodInv, ConfigureUp
  PROVE  PodInv' /\ (~Fails => \E n : Sets(n, "ipam_conf"))
<1>1. CASE Fails
  <2>1. pc = "ipam_conf"
    BY DEF ConfigureUp, OnHandle
  <2> QED
    BY <1>1, <2>1, FailsStep
<1>2. CASE ~Fails
  <2>1. PICK n \in Held : netns' = [netns EXCEPT ![n]["up"] = TRUE]
    BY <1>2 DEF ConfigureUp, OnHandle
  <2>2. pc = "ipam_conf" /\ pc' = "ipam_conf" /\ UNCHANGED <<host, handle, ips, mtu, chk>>
    BY <1>2 DEF ConfigureUp, OnHandle
  <2>3. handle = "port"
    BY <2>2 DEF PodInv, Placed
  <2>4. n \in Ours /\ Held = {n} /\ n \in LinkNames /\ netns[n] \in Links /\ Shape(n) /\ ips \subseteq UNION Results
    BY <2>3, HeldIsOurs DEF PodInv, Typed
  <2> DEFINE l == [netns[n] EXCEPT !.up = TRUE]
  <2>5. l \in Links /\ l.own = netns[n].own
    BY <2>4, Zenon DEF Links, Shape
  <2>6. netns' = [netns EXCEPT ![n] = l]
    BY <2>1, <2>4, Zenon DEF PodInv, Typed
  <2>7. Sets(n, "ipam_conf") /\ netns'[n] = l
    <3> HIDE DEF l
    <3> QED
      BY <2>2, <2>3, <2>5, <2>6, HandleSets, Zenon
  <2>8. /\ netns'[n].addrs = netns[n].addrs /\ netns'[n].mac = netns[n].mac
        /\ netns'[n].routes = netns[n].routes /\ netns'[n].mtu = netns[n].mtu
    BY <2>4, <2>7 DEF Links
  <2>9. Shape(n)' /\ (ips # {} => netns'[n].mac = "pod")
    BY <2>1, <2>2, <2>4, <2>8 DEF Shape, BeforeRename, BeforeUp, Configuring, Configured, Checking
  <2>10. Looked' /\ CheckHonest'
    BY <2>2 DEF Looked, CheckHonest, Checking
  <2>11. pc \in AfterRename /\ "ipam_conf" \in AfterRename
    BY <2>2 DEF AfterRename, Configured
  <2> QED
    BY <2>3, <2>7, <2>8, <2>9, <2>10, <2>11, SetsStep, Zenon
<1> QED
  BY <1>1, <1>2

\* ConfigureIface adds an address of the result.
LEMMA ConfigureAddrStep ==
  ASSUME NoLinkApart, PodInv, ConfigureAddr
  PROVE  PodInv' /\ (~Fails => \E n : Sets(n, "ipam_conf"))
<1>1. CASE Fails
  <2>1. pc = "ipam_conf"
    BY DEF ConfigureAddr, OnHandle
  <2> QED
    BY <1>1, <2>1, FailsStep
<1>2. CASE ~Fails
  <2>0. PICK ip \in ips : OnHandle("ipam_conf", "ipam_conf", "addrs", {ip} \union HeldAddrs)
    BY Zenon DEF ConfigureAddr
  <2>1. PICK n \in Held : netns' = [netns EXCEPT ![n]["addrs"] = {ip} \union HeldAddrs]
    BY <1>2, <2>0 DEF OnHandle
  <2>2. pc = "ipam_conf" /\ pc' = "ipam_conf" /\ UNCHANGED <<host, handle, ips, mtu, chk>>
    BY <1>2 DEF ConfigureAddr, OnHandle
  <2>3. handle = "port"
    BY <2>2 DEF PodInv, Placed
  <2>4. n \in Ours /\ Held = {n} /\ n \in LinkNames /\ netns[n] \in Links /\ Shape(n) /\ ips \subseteq UNION Results
    BY <2>3, HeldIsOurs DEF PodInv, Typed
  <2> DEFINE l == [netns[n] EXCEPT !.addrs = {ip} \union netns[n].addrs]
  <2>5. l \in Links /\ l.own = netns[n].own
    BY <2>4 DEF Links, Shape
  <2>6. netns' = [netns EXCEPT ![n] = l]
    <3>1. HeldAddrs = netns[n].addrs
      BY <2>4 DEF HeldAddrs
    <3>2. netns' = [netns EXCEPT ![n]["addrs"] = {ip} \union netns[n].addrs]
      BY <2>1, <3>1
    <3> QED
      BY <2>4, <3>2, Zenon DEF PodInv, Typed
  <2>7. Sets(n, "ipam_conf") /\ netns'[n] = l
    <3> HIDE DEF l
    <3> QED
      BY <2>2, <2>3, <2>5, <2>6, HandleSets, Zenon
  <2>8. /\ netns'[n].addrs = {ip} \union netns[n].addrs /\ netns'[n].mac = netns[n].mac
        /\ netns'[n].routes = netns[n].routes /\ netns'[n].mtu = netns[n].mtu
    BY <2>4, <2>7 DEF Links
  <2>9. Shape(n)' /\ (ips # {} => netns'[n].mac = "pod")
    BY <2>1, <2>2, <2>4, <2>8 DEF Shape, BeforeRename, BeforeUp, Configuring, Configured, Checking
  <2>10. Looked' /\ CheckHonest'
    BY <2>2 DEF Looked, CheckHonest, Checking
  <2>11. pc \in AfterRename /\ "ipam_conf" \in AfterRename
    BY <2>2 DEF AfterRename, Configured
  <2> QED
    BY <2>3, <2>7, <2>8, <2>9, <2>10, <2>11, SetsStep, Zenon
<1> QED
  BY <1>1, <1>2

\* ConfigureIface adds the routes.
LEMMA ConfigureRoutesStep ==
  ASSUME NoLinkApart, PodInv, ConfigureRoutes
  PROVE  PodInv' /\ (~Fails => \E n : /\ Sets(n, "readmac") /\ netns'[n].up /\ netns'[n].addrs = ips
                                      /\ netns'[n].routes /\ (mtu => netns'[n].mtu))
<1>1. CASE Fails
  <2>1. pc = "ipam_conf"
    BY DEF ConfigureRoutes, OnHandle
  <2> QED
    BY <1>1, <2>1, FailsStep
<1>2. CASE ~Fails
  <2>1. PICK n \in Held : netns' = [netns EXCEPT ![n]["routes"] = TRUE]
    BY <1>2 DEF ConfigureRoutes, OnHandle
  <2>2. pc = "ipam_conf" /\ pc' = "readmac" /\ UNCHANGED <<host, handle, ips, mtu, chk>>
    BY <1>2 DEF ConfigureRoutes, OnHandle
  <2>3. handle = "port"
    BY <2>2 DEF PodInv, Placed
  <2>4. n \in Ours /\ Held = {n} /\ n \in LinkNames /\ netns[n] \in Links /\ Shape(n) /\ ips \subseteq UNION Results
    BY <2>3, HeldIsOurs DEF PodInv, Typed
  <2> DEFINE l == [netns[n] EXCEPT !.routes = TRUE]
  <2>5. l \in Links /\ l.own = netns[n].own
    BY <2>4, Zenon DEF Links, Shape
  <2>6. netns' = [netns EXCEPT ![n] = l]
    BY <2>1, <2>4, Zenon DEF PodInv, Typed
  <2>7. Sets(n, "readmac") /\ netns'[n] = l
    <3> HIDE DEF l
    <3> QED
      BY <2>2, <2>3, <2>5, <2>6, HandleSets, Zenon
  <2>8. /\ netns'[n].routes /\ netns'[n].addrs = netns[n].addrs /\ netns'[n].mac = netns[n].mac
        /\ netns'[n].up = netns[n].up /\ netns'[n].mtu = netns[n].mtu
    BY <2>4, <2>7 DEF Links
  <2>9. Shape(n)' /\ (ips # {} => netns'[n].mac = "pod")
    BY <2>1, <2>2, <2>4, <2>8 DEF Shape, BeforeRename, BeforeUp, Configuring, Configured, Checking
  <2>10. Looked' /\ CheckHonest'
    BY <2>2 DEF Looked, CheckHonest, Checking
  <2>11. pc \in AfterRename /\ "readmac" \in AfterRename
    BY <2>2 DEF AfterRename, Configured
  <2>12. netns[n].up /\ netns[n].addrs = ips /\ (mtu => netns[n].mtu)
    BY <1>2, <2>2, <2>4 DEF ConfigureRoutes, Shape
  <2> QED
    BY <2>3, <2>7, <2>8, <2>9, <2>10, <2>11, <2>12, SetsStep, Zenon
<1> QED
  BY <1>1, <1>2

\* LinkSetName gives the interface a name that is free.
LEMMA RenameStep ==
  ASSUME NoLinkApart, PodInv, Rename
  PROVE  PodInv'
<1>1. CASE Fails
  BY <1>1, FailsStep DEF Rename
<1>2. CASE ~Fails
  <2>1. PICK n \in Held : netns["eth0"] = NoLink /\ netns' = [netns EXCEPT !["eth0"] = netns[n], ![n] = NoLink]
    BY <1>2 DEF Rename
  <2>2. pc = "rename" /\ pc' = "refind" /\ UNCHANGED <<host, handle, ips, mtu, want, seen>>
    BY <1>2 DEF Rename, chk
  <2>3. handle = "port"
    BY <2>2 DEF PodInv, Placed
  <2>4. /\ n \in Ours /\ Ours = {n} /\ netns[n] \in Links /\ netns[n].own = "port" /\ host = NoLink /\ Shape(n)
        /\ \A m \in LinkNames : m # n => netns[m] = NoLink \/ netns[m].own = "other"
    BY <2>3, HeldIsOurs DEF PodInv
  <2>5. n = "grk" /\ "grk" \in LinkNames /\ "eth0" \in LinkNames
    BY <2>2, <2>4 DEF PodInv, Placed, BeforeRename, LinkNames
  <2>6. /\ netns' \in [LinkNames -> Links \union {NoLink}] /\ netns'["eth0"] = netns["grk"] /\ netns'["grk"] = NoLink
        /\ \A m \in LinkNames : m \notin {"grk", "eth0"} => netns'[m] = netns[m]
    <3>1. netns \in [LinkNames -> Links \union {NoLink}]
      BY DEF PodInv, Typed
    <3> QED
      BY <2>1, <2>4, <2>5, <3>1
  <2>7. Ours' = {"eth0"}
    <3>1. netns'["eth0"] # NoLink /\ netns'["eth0"].own = "port"
      BY <2>4, <2>5, <2>6 DEF NoLinkApart
    <3>2. \A m \in LinkNames : m # "eth0" => netns'[m] = NoLink \/ netns'[m].own = "other"
      BY <2>4, <2>5, <2>6
    <3> QED
      BY <2>5, <3>1, <3>2 DEF Ours
  <2>8. Typed'
    BY <2>2, <2>6 DEF PodInv, Typed, Configuring, BeforeUp, BeforeRename
  <2>9. Placed'
    BY <2>2, <2>4, <2>5, <2>6, <2>7 DEF Placed, BeforeRename, AfterRename
  <2>10. \A m \in Ours' : Shape(m)'
    BY <2>2, <2>4, <2>5, <2>6, <2>7 DEF Shape, BeforeRename, BeforeUp, Configuring, Configured, Checking
  <2>11. PodMacDiffersWithIPs'
    BY <2>2, <2>4, <2>5, <2>6, <2>7 DEF PodMacDiffersWithIPs, Shape, BeforeRename, BeforeUp
  <2>12. Looked' /\ CheckHonest'
    BY <2>2 DEF Looked, CheckHonest, Checking
  <2> QED
    BY <2>8, <2>9, <2>10, <2>11, <2>12 DEF PodInv
<1> QED
  BY <1>1, <1>2

\* Once ADD has returned no step that leaves the interface alone disturbs it.
LEMMA ConfiguredShape ==
  ASSUME pc \in Configured, pc' \in Configured, UNCHANGED <<netns, ips>>, NEW n \in Ours, Shape(n)
  PROVE  Shape(n)'
BY DEF Shape, BeforeRename, BeforeUp, Configuring, Configured, Checking

\* Reading the MAC back changes nothing.
LEMMA ReadMACStep ==
  ASSUME PodInv, ReadMAC
  PROVE  PodInv'
<1>1. pc = "readmac" /\ pc' = "added" /\ UNCHANGED <<host, netns, handle, ips, mtu, want, seen>>
  BY DEF ReadMAC, chk
<1>2. pc \in Configured /\ pc' \in Configured /\ pc \in AfterRename /\ pc' \in AfterRename
  BY <1>1 DEF Configured, AfterRename
<1>3. Looked' /\ CheckHonest' /\ handle' \in {NoLink, "port", "other"}
  BY <1>1 DEF Looked, CheckHonest, Checking, PodInv, Typed
<1> QED
  BY <1>1, <1>2, <1>3, ConfiguredShape, GoesOn

\* A CHECK remembers whether all was there when it began, and each of its
\* queries either fails or sees what is still there.
LEMMA CheckStep ==
  ASSUME PodInv, CheckBegin \/ CheckFind \/ CheckAddrs \/ CheckEnd
  PROVE  PodInv'
<1>1. pc \in Configured /\ pc \in AfterRename
  BY DEF CheckBegin, CheckFind, CheckAddrs, CheckEnd, Configured, Checking, AfterRename
<1>2. pc' \in Configured /\ pc' \in AfterRename
  BY DEF CheckBegin, CheckFind, CheckAddrs, CheckEnd, Configured, Checking, AfterRename
<1>3. UNCHANGED <<host, netns, ips, mtu>>
  BY DEF CheckBegin, CheckFind, CheckAddrs, CheckEnd
<1>4. netns \in [LinkNames -> Links \union {NoLink}] /\ "eth0" \in LinkNames
  BY DEF PodInv, Typed, LinkNames
<1>5. netns["eth0"] # NoLink => netns["eth0"].own = "port"
  BY <1>1 DEF PodInv, Placed
<1>6. handle' \in {NoLink, "port", "other"}
  <2>1. handle \in {NoLink, "port", "other"}
    BY DEF PodInv, Typed
  <2> QED
    BY <1>5, <2>1 DEF CheckBegin, CheckFind, CheckAddrs, CheckEnd
<1>7. pc' \in {"down", "rename", "mtu", "mac", "ipam_conf", "c_addrs"} => handle' = "port"
  <2>1. CheckFind => (pc' = "c_addrs" => handle' = "port")
    BY <1>5 DEF CheckFind
  <2>2. ~CheckFind => pc' # "c_addrs"
    BY DEF CheckBegin, CheckAddrs, CheckEnd
  <2> QED
    BY <1>2, <2>1, <2>2 DEF Configured, Checking, CheckFind
<1>8. Looked' /\ CheckHonest'
  <2>0. pc \in Checking => Now(netns, want) \subseteq seen
    BY DEF PodInv, Looked
  <2>1. CASE CheckBegin
    <3>1. pc' \in {"c_find", "c_err"} /\ seen' = Now(netns, want') /\ netns' = netns
      BY <2>1 DEF CheckBegin
    <3> QED
      BY <3>1 DEF Looked, CheckHonest, Checking
  <2>2. CASE CheckFind
    <3>1. pc = "c_find" /\ UNCHANGED <<netns, want, seen>> /\ pc' \in {"c_err", "c_ok", "c_addrs"}
      BY <2>2 DEF CheckFind, chk
    <3>2. pc' \in {"c_ok", "c_addrs"} => netns["eth0"] # NoLink /\ netns["eth0"].up /\ (pc' = "c_ok" => want = {})
      BY <2>2 DEF CheckFind
    <3>3. /\ pc' \in {"c_ok", "c_addrs"} => "up" \in Now(netns, want)
          /\ pc' = "c_ok" => "addrs" \in Now(netns, want)
      BY <3>2 DEF Now
    <3> QED
      BY <2>0, <3>1, <3>3 DEF Looked, CheckHonest, Checking
  <2>3. CASE CheckAddrs
    <3>1. pc = "c_addrs" /\ UNCHANGED <<netns, want, seen>> /\ pc' \in {"c_err", "c_ok"}
      BY <2>3 DEF CheckAddrs, chk
    <3>2. pc' = "c_ok" => \E n \in Held : want \subseteq netns[n].addrs
      BY <2>3, Zenon DEF CheckAddrs
    <3>3. Held = Ours /\ \A n \in Ours : n = "eth0" /\ netns[n] # NoLink
      BY <3>1, HeldIsOurs DEF PodInv, Placed, AfterRename, Configured, Checking, Ours
    <3>4. pc' = "c_ok" => "addrs" \in Now(netns, want)
      BY <3>2, <3>3 DEF Now
    <3>5. "up" \in seen
      BY <3>1 DEF PodInv, Looked
    <3> QED
      BY <2>0, <3>1, <3>4, <3>5 DEF Looked, CheckHonest, Checking
  <2>4. CASE CheckEnd
    BY <2>4 DEF CheckEnd, Looked, CheckHonest, Checking
  <2> QED
    BY <2>1, <2>2, <2>3, <2>4
<1>9. \A n \in Ours : Shape(n) => Shape(n)'
  BY <1>1, <1>2, <1>3, ConfiguredShape
<1> QED
  BY <1>1, <1>2, <1>3, <1>6, <1>7, <1>8, <1>9, GoesOn

\* The port goes, by its delete or by grout's death, and the netdev with it.
LEMMA GoneStep ==
  ASSUME PodInv, Gone, UNCHANGED <<handle, ips, mtu, chk>>,
         pc' = pc \/ pc' = "failed"
  PROVE  PodInv' /\ host' = NoLink /\ Ours' = {}
<1>1. /\ host' = NoLink
      /\ netns' = [n \in LinkNames |-> IF netns[n] # NoLink /\ netns[n].own = "port" THEN NoLink ELSE netns[n]]
  BY DEF Gone
<1>2. netns \in [LinkNames -> Links \union {NoLink}]
  BY DEF PodInv, Typed
<1>3. netns' \in [LinkNames -> Links \union {NoLink}] /\ \A n \in LinkNames : netns'[n] = NoLink \/ netns'[n] = netns[n]
  BY <1>1, <1>2
<1>4. Ours' = {}
  BY <1>1 DEF Ours
<1>5. UNCHANGED <<handle, ips, mtu, want, seen>>
  BY DEF chk
<1>6. Typed'
  BY <1>1, <1>3, <1>5 DEF PodInv, Typed
<1>7. Placed'
  BY <1>1, <1>3, <1>4, <1>5 DEF PodInv, Placed, BeforeRename, AfterRename, Configured, Checking, LinkNames
<1>8. Looked' /\ CheckHonest'
  <2>1. netns'["eth0"] = NoLink \/ netns'["eth0"] = netns["eth0"]
    BY <1>3 DEF LinkNames
  <2> QED
    BY <1>5, <2>1 DEF PodInv, Looked, CheckHonest, Now, Checking
<1>9. PodMacDiffersWithIPs' /\ \A n \in Ours' : Shape(n)'
  BY <1>1, <1>4 DEF PodMacDiffersWithIPs
<1> QED
  BY <1>1, <1>4, <1>6, <1>7, <1>8, <1>9 DEF PodInv

\* cleanupAfterAddFailure, whether its InterfaceDel goes through or not.
LEMMA CleanupStep ==
  ASSUME PodInv, cleanupAfterAddFailure
  PROVE  PodInv'
<1>1. CASE Gone
  BY <1>1, GoneStep DEF cleanupAfterAddFailure
<1>2. CASE UNCHANGED <<host, netns>>
  <2>1. /\ UNCHANGED <<host, netns, handle, ips, mtu, want, seen>> /\ pc = "rollback" /\ pc' = "failed"
        /\ Ours' = Ours
    BY <1>2 DEF cleanupAfterAddFailure, chk, Ours
  <2>2. Typed'
    BY <2>1 DEF PodInv, Typed
  <2>3. Placed'
    BY <2>1 DEF PodInv, Placed, BeforeRename, AfterRename, Configured, Checking
  <2>4. Looked' /\ CheckHonest'
    BY <2>1 DEF Looked, CheckHonest, Checking
  <2>5. PodMacDiffersWithIPs'
    BY <2>1 DEF PodInv, PodMacDiffersWithIPs
  <2>6. \A n \in Ours' : Shape(n)'
    BY <2>1 DEF PodInv, Shape, BeforeUp, BeforeRename, Configuring, Configured, Checking
  <2> QED
    BY <2>2, <2>3, <2>4, <2>5, <2>6 DEF PodInv
<1> QED
  BY <1>1, <1>2 DEF cleanupAfterAddFailure

\* What the pod does to its interface concerns its flag and its addresses.
LEMMA DriftSets ==
  ASSUME PodInv, Drift
  PROVE  /\ pc \in Configured /\ pc \in AfterRename /\ seen' = seen \union Now(netns', want)
         /\ \E n \in Ours :
              Sets(n, pc) /\ netns'[n].mac = netns[n].mac /\ netns'[n].addrs \subseteq ips
<1>1. pc \in Configured /\ pc \in AfterRename
  BY DEF Drift, Configured, Checking, AfterRename
<1>2. PICK n \in Ours :
        \/ netns' = [netns EXCEPT ![n].up = ~netns[n].up]
        \/ \E ip \in netns[n].addrs : netns' = [netns EXCEPT ![n].addrs = netns[n].addrs \ {ip}]
        \/ \E ip \in ips : netns' = [netns EXCEPT ![n].addrs = netns[n].addrs \union {ip}]
  BY DEF Drift
<1>3. UNCHANGED <<host, pc, handle, ips, mtu, want>> /\ seen' = seen \union Now(netns', want)
  BY DEF Drift
<1>4. /\ n \in LinkNames /\ netns[n] \in Links /\ netns[n].own = "port"
      /\ netns \in [LinkNames -> Links \union {NoLink}] /\ netns[n].addrs \subseteq ips
      /\ ips \subseteq UNION Results
  BY HeldIsOurs DEF PodInv, Typed, Shape
<1>5. ASSUME NEW l \in Links, l.own = "port", netns' = [netns EXCEPT ![n] = l]
      PROVE  Sets(n, pc) /\ netns'[n] = l
  <2>1. netns'[n] = l
    BY <1>4, <1>5
  <2> QED
    BY <1>2, <1>3, <1>5, <2>1, Zenon DEF Sets
<1>6. CASE netns' = [netns EXCEPT ![n].up = ~netns[n].up]
  <2> DEFINE l == [netns[n] EXCEPT !.up = ~netns[n].up]
  <2>1. l \in Links /\ l.own = "port" /\ netns' = [netns EXCEPT ![n] = l]
    BY <1>4, <1>6, Zenon DEF Links
  <2>2. l.addrs = netns[n].addrs /\ l.mac = netns[n].mac
    BY <1>4 DEF Links
  <2> HIDE DEF l
  <2> QED
    BY <1>1, <1>3, <1>4, <1>5, <2>1, <2>2, Zenon
<1>7. ASSUME NEW A, A \subseteq ips, netns' = [netns EXCEPT ![n].addrs = A]
      PROVE  Sets(n, pc) /\ netns'[n].mac = netns[n].mac /\ netns'[n].addrs \subseteq ips
  <2> DEFINE l == [netns[n] EXCEPT !.addrs = A]
  <2>1. l \in Links /\ l.own = "port" /\ netns' = [netns EXCEPT ![n] = l]
    BY <1>4, <1>7 DEF Links
  <2>2. l.addrs = A /\ l.mac = netns[n].mac
    BY <1>4 DEF Links
  <2> HIDE DEF l
  <2> QED
    BY <1>5, <1>7, <2>1, <2>2, Zenon
<1>8. CASE \E ip \in netns[n].addrs : netns' = [netns EXCEPT ![n].addrs = netns[n].addrs \ {ip}]
  <2>1. PICK ip : netns' = [netns EXCEPT ![n].addrs = netns[n].addrs \ {ip}]
    BY <1>8, Zenon
  <2> DEFINE A == netns[n].addrs \ {ip}
  <2>2. A \subseteq ips /\ netns' = [netns EXCEPT ![n].addrs = A]
    BY <1>4, <2>1
  <2> HIDE DEF A
  <2> QED
    BY <1>1, <1>3, <1>7, <2>2, Zenon
<1>9. CASE \E ip \in ips : netns' = [netns EXCEPT ![n].addrs = netns[n].addrs \union {ip}]
  <2>1. PICK ip \in ips : netns' = [netns EXCEPT ![n].addrs = netns[n].addrs \union {ip}]
    BY <1>9, Zenon
  <2> DEFINE A == netns[n].addrs \union {ip}
  <2>2. A \subseteq ips /\ netns' = [netns EXCEPT ![n].addrs = A]
    BY <1>4, <2>1, Zenon
  <2> HIDE DEF A
  <2> QED
    BY <1>1, <1>3, <1>7, <2>2, Zenon
<1> QED
  BY <1>2, <1>6, <1>8, <1>9, Zenon

\* The pod's own changes keep the invariant, CHECK running or not.
LEMMA DriftStep ==
  ASSUME NoLinkApart, PodInv, Drift
  PROVE  PodInv'
<1>1. PICK n \in Ours :
        Sets(n, pc) /\ netns'[n].mac = netns[n].mac /\ netns'[n].addrs \subseteq ips
  BY DriftSets
<1>2. pc \in Configured /\ pc \in AfterRename /\ seen' = seen \union Now(netns', want)
  BY DriftSets, Zenon
<1>3. pc' = pc /\ UNCHANGED <<host, handle, ips, mtu, want>>
  BY <1>1 DEF Sets
<1>4. Shape(n) /\ (ips # {} => netns[n].mac = "pod")
  BY <1>2 DEF PodInv, Shape
<1>5. Shape(n)'
  BY <1>1, <1>2, <1>3, <1>4 DEF Shape, BeforeRename, BeforeUp, Configuring, Configured, Checking
<1>6. Looked' /\ CheckHonest'
  BY <1>2, <1>3 DEF PodInv, Looked, CheckHonest
<1>7. pc \in {"down", "rename", "mtu", "mac", "ipam_conf", "c_addrs"} => handle = "port"
  BY SMTT(60) DEF PodInv, Placed
<1>8. ips # {} /\ netns'[n].up => netns'[n].mac # "grout"
  BY <1>1, <1>4
<1> QED
  BY <1>1, <1>2, <1>3, <1>5, <1>6, <1>7, <1>8, SetsStep, SMTT(60)

\* Every step of ADD and CHECK, of grout and of the pod keeps the invariant.
LEMMA PodNextInv ==
  ASSUME NoLinkApart, PodInv, [PodNext]_podVars
  PROVE  PodInv'
<1>1. CASE Vanish
  BY <1>1, GoneStep DEF Vanish
<1>2. CASE UNCHANGED podVars
  <2>1. UNCHANGED <<host, netns, pc, handle, ips, mtu, want, seen>> /\ Ours' = Ours
    BY <1>2 DEF podVars, Ours
  <2>2. Typed' /\ Placed'
    BY <2>1 DEF PodInv, Typed, Placed
  <2>3. Looked' /\ PodMacDiffersWithIPs' /\ CheckHonest'
    BY <2>1 DEF PodInv, Looked, PodMacDiffersWithIPs, CheckHonest
  <2>4. \A n \in Ours' : Shape(n)'
    BY <2>1 DEF PodInv, Shape
  <2> QED
    BY <2>2, <2>3, <2>4 DEF PodInv
<1> QED
  BY <1>1, <1>2, MoveStep, FindStep, SetDownStep, RenameStep, SetMTUStep, SetMACStep, ConfigureUpStep,
     ConfigureAddrStep, ConfigureRoutesStep, ReadMACStep, CleanupStep, CheckStep, DriftStep DEF PodNext

\* The inductive invariant holds in every reachable state.
THEOREM PodInvariant == NoLinkApart /\ PodSpec => []PodInv
<1> SUFFICES ASSUME NoLinkApart PROVE PodSpec => []PodInv
  OBVIOUS
<1>1. PodInit => PodInv
  BY PodInitInv
<1>2. PodInv /\ [PodNext]_podVars => PodInv'
  BY PodNextInv
<1> QED
  BY <1>1, <1>2, PTL DEF PodSpec

\* configurePodInterface sets the MAC before ipam.ConfigureIface brings the
\* interface up, and nothing brings it up earlier: with an address, the pod's
\* interface is never up with the MAC of grout's port.
THEOREM PodMacDiffers == NoLinkApart /\ PodSpec => []PodMacDiffersWithIPs
<1>1. PodInv => PodMacDiffersWithIPs
  BY DEF PodInv
<1> QED
  BY <1>1, PodInvariant, PTL

\* verifyPodInterface returns nil only if, while it ran, the interface was up and
\* had every address it looks for, though not necessarily at the same moment: the
\* pod may change the interface between the two queries.
THEOREM CheckIsHonest == NoLinkApart /\ PodSpec => []CheckHonest
<1>1. PodInv => CheckHonest
  BY DEF PodInv
<1> QED
  BY <1>1, PodInvariant, PTL

-----------------------------------------------------------------------------
\* A step changes only the port's interface, or the free name it gets.
LEMMA OthersStep ==
  ASSUME NoLinkApart, PodInv, [PodNext]_podVars, NEW m \in LinkNames, netns[m] # NoLink, netns[m].own = "other"
  PROVE  netns'[m] = netns[m]
<1>1. netns \in [LinkNames -> Links \union {NoLink}] /\ "grk" \in LinkNames /\ "eth0" \in LinkNames
  BY DEF PodInv, Typed, LinkNames
<1>2. \A n \in Ours : netns[n].own = "port"
  BY DEF Ours
<1>3. m \notin Ours
  BY DEF Ours
<1>4. ASSUME NEW at, NEW next, NEW field, NEW value, OnHandle(at, next, field, value),
             at \in {"down", "mtu", "mac", "ipam_conf"}
      PROVE  netns'[m] = netns[m]
  <2>1. CASE Fails
    BY <2>1 DEF Fails
  <2>2. CASE ~Fails
    <3>1. PICK n \in Held : netns' = [netns EXCEPT ![n][field] = value]
      BY <1>4, <2>2 DEF OnHandle
    <3>2. n \in Ours
      BY <1>4, HeldIsOurs DEF OnHandle, PodInv, Placed
    <3> QED
      BY <1>1, <1>3, <3>1, <3>2
  <2> QED
    BY <2>1, <2>2
<1>5. SetDown \/ SetMTU \/ SetMAC \/ ConfigureUp \/ ConfigureAddr \/ ConfigureRoutes => netns'[m] = netns[m]
  <2>1. SetDown => netns'[m] = netns[m]
    BY <1>4, Zenon DEF SetDown
  <2>2. SetMTU => netns'[m] = netns[m]
    BY <1>4, Zenon DEF SetMTU
  <2>3. SetMAC => netns'[m] = netns[m]
    BY <1>4 DEF SetMAC
  <2>4. ConfigureUp => netns'[m] = netns[m]
    BY <1>4, Zenon DEF ConfigureUp
  <2>5. ConfigureAddr => netns'[m] = netns[m]
    <3> SUFFICES ASSUME NEW ip \in ips, OnHandle("ipam_conf", "ipam_conf", "addrs", {ip} \union HeldAddrs)
                 PROVE  netns'[m] = netns[m]
      BY DEF ConfigureAddr
    <3> QED
      BY <1>4
  <2>6. ConfigureRoutes => netns'[m] = netns[m]
    BY <1>4, Zenon DEF ConfigureRoutes
  <2> QED
    BY <2>1, <2>2, <2>3, <2>4, <2>5, <2>6
<1>6. moveLinkToNamespace => netns'[m] = netns[m]
  <2>1. pc = "move" => m # "grk"
    BY DEF PodInv, Placed
  <2> QED
    BY <1>1, <2>1 DEF moveLinkToNamespace, Fails
<1>7. Rename => netns'[m] = netns[m]
  <2>1. pc = "rename" => Held = Ours
    BY HeldIsOurs DEF PodInv, Placed
  <2>2. ASSUME NEW n \in Ours, netns["eth0"] = NoLink, netns' = [netns EXCEPT !["eth0"] = netns[n], ![n] = NoLink]
        PROVE  netns'[m] = netns[m]
    <3>1. m # n /\ m # "eth0"
      BY <1>3, <2>2
    <3> QED
      BY <1>1, <2>2, <3>1
  <2> QED
    BY <2>1, <2>2 DEF Rename, Fails
<1>8. Gone => netns'[m] = netns[m]
  BY <1>2 DEF Gone
<1>9. cleanupAfterAddFailure \/ Vanish => netns'[m] = netns[m]
  BY <1>8, Zenon DEF cleanupAfterAddFailure, Vanish
<1>10. Drift => netns'[m] = netns[m]
  <2>1. ASSUME NEW n \in Ours, Sets(n, pc) PROVE netns'[m] = netns[m]
    BY <1>1, <1>3, <2>1, SetsFacts
  <2> QED
    BY <2>1, DriftSets
<1>11. UNCHANGED netns => netns'[m] = netns[m]
  BY Zenon
<1>12. FindMoved \/ FindRenamed \/ ConfigureFind \/ ReadMAC => UNCHANGED netns
  BY DEF FindMoved, FindRenamed, ConfigureFind, Find, Fails, ReadMAC
<1>13. CheckBegin \/ CheckFind \/ CheckAddrs \/ CheckEnd => UNCHANGED netns
  BY DEF CheckBegin, CheckFind, CheckAddrs, CheckEnd
<1>14. UNCHANGED podVars => UNCHANGED netns
  BY DEF podVars
<1> QED
  BY <1>5, <1>6, <1>7, <1>9, <1>10, <1>11, <1>12, <1>13, <1>14 DEF PodNext

\* ADD, its rollback and CHECK never touch an interface of somebody else in the
\* pod's netns, not even one that has the name ADD is to use.
THEOREM OthersStayUntouched == NoLinkApart /\ PodSpec => OthersUntouched
<1> SUFFICES ASSUME NoLinkApart PROVE PodSpec => OthersUntouched
  OBVIOUS
<1>1. PodInv /\ [PodNext]_podVars =>
        [\A n \in LinkNames : netns[n] # NoLink /\ netns[n].own = "other" => netns'[n] = netns[n]]_podVars
  BY OthersStep
<1> QED
  BY <1>1, PodInvariant, PTL DEF PodSpec, OthersUntouched

-----------------------------------------------------------------------------
\* AbsLink says "up" exactly if the port's interface in the pod is usable.
LEMMA AbsLinkIs ==
  ASSUME PodInv
  PROVE  /\ host # NoLink => AbsLink = "host" /\ Ours = {}
         /\ host = NoLink /\ Ours = {} => AbsLink = "none"
         /\ \A n \in Ours : host = NoLink /\ AbsLink = IF Usable THEN "up" ELSE "pod"
         /\ AbsLink \in {"host", "none", "up", "pod"}
<1>1. \A n \in Ours : host = NoLink
  BY HeldIsOurs
<1>2. host # NoLink => Ours = {}
  BY DEF PodInv, Placed
<1> QED
  BY <1>1, <1>2 DEF AbsLink

\* While ADD configures it, the interface is not usable: it has no routes.
LEMMA NotYetUsable ==
  ASSUME PodInv, pc \in Configuring \union {"move"}
  PROVE  ~Usable
<1>1. Usable => pc # "move" /\ "eth0" \in Ours
  BY DEF Usable, PodInv, Placed
<1>2. "eth0" \in Ours /\ pc \in Configuring => ~netns["eth0"].routes
  BY DEF PodInv, Shape
<1> QED
  BY <1>1, <1>2 DEF Usable

\* A step of the configuration that leaves the interface where it is, but for
\* the last one, is none of PodLink.
LEMMA ConfStutters ==
  ASSUME PodInv, PodInv', pc \in Configuring, pc' \in Configuring, (Ours = {}) <=> (Ours' = {}),
         host' = host
  PROVE  UNCHANGED <<AbsLink, AbsCall>>
<1>0. ~Usable'
  <2>1. "eth0" \in Ours' => ~netns'["eth0"].routes
    BY DEF PodInv, Shape
  <2> QED
    BY <2>1 DEF Usable
<1>1. ~Usable
  BY NotYetUsable
<1>2. host = NoLink
  BY DEF PodInv, Placed, Configuring, BeforeUp, BeforeRename
<1>3. AbsCall = "conf" /\ AbsCall' = "conf"
  BY DEF AbsCall, Configuring, BeforeUp, BeforeRename
<1> QED
  BY <1>0, <1>1, <1>2, <1>3 DEF AbsLink

\* A failing operation is a Fail of PodLink.
LEMMA FailsIsFail ==
  ASSUME Fails, pc \in Configuring \union {"move"}
  PROVE  P!Fail
<1>1. AbsCall \in {"move", "conf"} /\ AbsCall' = "failed"
  BY DEF Fails, AbsCall, Configuring, BeforeUp, BeforeRename
<1>2. AbsLink' = AbsLink
  <2>1. Usable' = Usable /\ Ours' = Ours /\ host' = host
    BY DEF Fails, Usable, Ours
  <2> QED
    BY <2>1 DEF AbsLink
<1> QED
  BY <1>1, <1>2 DEF P!Fail

\* An operation on the handle that succeeds leaves the interface in place.
\* Setting a field of the interface is no step of PodLink while ADD configures.
LEMMA SetsStutters ==
  ASSUME NoLinkApart, PodInv, PodInv', NEW n, NEW next, Sets(n, next), pc \in Configuring, next \in Configuring
  PROVE  UNCHANGED <<AbsLink, AbsCall>>
<1>1. Ours = {n} /\ Ours' = {n} /\ host' = host /\ pc' = next
  BY SetsFacts DEF Sets
<1> QED
  BY <1>1, ConfStutters, Zenon

\* Each netlink operation is a step of PodLink or none: the move and the last
\* operation of the configuration are its Move and Configure.
LEMMA AddRefines ==
  ASSUME NoLinkApart, PodInv, PodInv',
         \/ moveLinkToNamespace \/ FindMoved \/ SetDown \/ Rename \/ FindRenamed \/ SetMTU \/ SetMAC
         \/ ConfigureFind \/ ConfigureUp \/ ConfigureAddr \/ ConfigureRoutes
  PROVE  P!Move \/ P!Configure \/ P!Fail \/ UNCHANGED <<AbsLink, AbsCall>>
<1>0. pc \in Configuring \union {"move"}
  BY DEF moveLinkToNamespace, FindMoved, SetDown, Rename, FindRenamed, SetMTU, SetMAC, ConfigureFind, ConfigureUp,
         ConfigureAddr, ConfigureRoutes, OnHandle, Find, Configuring, BeforeUp, BeforeRename
<1>1. CASE Fails
  BY <1>0, <1>1, FailsIsFail
<1>2. CASE moveLinkToNamespace /\ ~Fails
  <2>1. pc = "move" /\ pc' = "find" /\ host # NoLink /\ host' = NoLink
    BY <1>2 DEF moveLinkToNamespace
  <2>2. "grk" \in Ours'
    <3>1. netns'["grk"] = [host EXCEPT !.up = FALSE] /\ "grk" \in LinkNames
      BY <1>2 DEF moveLinkToNamespace, PodInv, Typed, LinkNames
    <3>2. [host EXCEPT !.up = FALSE] \in Links /\ [host EXCEPT !.up = FALSE].own = "port"
      BY <2>1, Zenon DEF PodInv, Typed, Link, Links
    <3> QED
      BY <3>1, <3>2, Zenon DEF Ours, NoLinkApart
  <2>3. ~Usable'
    BY <2>2 DEF Usable
  <2>4. AbsLink = "host" /\ AbsLink' = "pod" /\ AbsCall = "move" /\ AbsCall' = "conf"
    BY <2>1, <2>2, <2>3 DEF AbsLink, AbsCall
  <2> QED
    BY <2>4 DEF P!Move
<1>3. CASE (FindMoved \/ FindRenamed \/ ConfigureFind) /\ ~Fails
  <2>1. UNCHANGED <<host, netns>> /\ pc \in Configuring /\ pc' \in Configuring
    BY <1>3 DEF FindMoved, FindRenamed, ConfigureFind, Find, Configuring, BeforeUp, BeforeRename
  <2>2. Ours' = Ours
    BY <2>1 DEF Ours
  <2> QED
    BY <2>1, <2>2, ConfStutters
<1>4. CASE (SetDown \/ SetMTU \/ ConfigureUp \/ ConfigureAddr) /\ ~Fails
  <2>1. /\ {"rename", "mac", "ipam_conf"} \subseteq Configuring /\ pc \in Configuring
        /\ \E n : Sets(n, "rename") \/ Sets(n, "mac") \/ Sets(n, "ipam_conf")
    <3>1. \E n : Sets(n, "rename") \/ Sets(n, "mac") \/ Sets(n, "ipam_conf")
      BY <1>4, SetDownStep, SetMTUStep, ConfigureUpStep, ConfigureAddrStep, Zenon
    <3>2. pc # "move"
      BY <1>4 DEF SetDown, SetMTU, ConfigureUp, ConfigureAddr, OnHandle
    <3> QED
      BY <1>0, <3>1, <3>2 DEF Configuring, BeforeUp, BeforeRename
  <2> QED
    BY <2>1, SetsStutters
<1>5. CASE SetMAC /\ ~Fails
  <2>1. pc = "mac" /\ pc' = "ipam" /\ host' = host /\ pc \in Configuring /\ "ipam" \in Configuring
    BY <1>5, Zenon DEF SetMAC, OnHandle, Configuring, BeforeUp
  <2>2. CASE ips = {}
    <3>1. netns' = netns
      BY <1>5, <2>2 DEF SetMAC, podMACFromResult
    <3> QED
      BY <2>1, <3>1, ConfStutters DEF Ours
  <2>3. CASE ips # {}
    BY <1>5, <2>1, <2>3, SetMACStep, SetsStutters
  <2> QED
    BY <2>2, <2>3
<1>6. CASE Rename /\ ~Fails
  <2>1. pc = "rename" /\ pc' = "refind" /\ host' = host /\ pc \in Configuring /\ pc' \in Configuring
    BY <1>6 DEF Rename, Configuring, BeforeUp, BeforeRename
  <2>2. PICK n \in Held : netns["eth0"] = NoLink /\ netns' = [netns EXCEPT !["eth0"] = netns[n], ![n] = NoLink]
    BY <1>6, ZenonT(60) DEF Rename
  <2>3. n \in Ours /\ n \in LinkNames /\ netns[n] # NoLink /\ netns[n].own = "port"
    BY <2>1, HeldIsOurs, ZenonT(60) DEF PodInv, Placed, Ours
  <2>4. "eth0" \in Ours'
    <3>1. netns'["eth0"] = netns[n] /\ "eth0" \in LinkNames
      BY <2>2, <2>3 DEF PodInv, Typed, LinkNames
    <3> QED
      BY <2>3, <3>1 DEF Ours
  <2> QED
    BY <2>1, <2>3, <2>4, ConfStutters
<1>7. CASE ConfigureRoutes /\ ~Fails
  <2>1. PICK n : /\ Sets(n, "readmac") /\ netns'[n].up /\ netns'[n].addrs = ips
                 /\ netns'[n].routes /\ (mtu => netns'[n].mtu)
    BY <1>7, ConfigureRoutesStep
  <2>2. pc = "ipam_conf" /\ pc' = "readmac" /\ UNCHANGED <<host, ips, mtu>>
    BY <1>7 DEF ConfigureRoutes, OnHandle
  <2>3. Ours = {n} /\ Ours' = {n} /\ host = NoLink
    BY <2>1, SetsFacts, Zenon
  <2>4. n = "eth0"
    BY <2>2, <2>3 DEF PodInv, Placed, AfterRename
  <2>5. Usable'
    BY <2>1, <2>2, <2>3, <2>4 DEF Usable
  <2>6. ~Usable
    BY <2>2, NotYetUsable DEF Configuring
  <2>7. AbsLink = "pod" /\ AbsLink' = "up" /\ AbsCall = "conf" /\ AbsCall' = "done"
    BY <2>2, <2>3, <2>5, <2>6 DEF AbsLink, AbsCall
  <2> QED
    BY <2>7 DEF P!Configure
<1> QED
  BY <1>1, <1>2, <1>3, <1>4, <1>5, <1>6, <1>7

\* Once the configuration is over, only the pod and grout change the interface.
LEMMA AfterAddRefines ==
  ASSUME NoLinkApart, PodInv, PodInv',
         \/ ReadMAC \/ cleanupAfterAddFailure \/ CheckBegin \/ CheckFind \/ CheckAddrs \/ CheckEnd
         \/ Vanish \/ Drift
  PROVE  P!Vanish \/ P!Drift \/ UNCHANGED <<AbsLink, AbsCall>>
<1>1. ASSUME UNCHANGED <<host, netns, ips, mtu>>, AbsCall' = AbsCall PROVE UNCHANGED <<AbsLink, AbsCall>>
  BY <1>1 DEF AbsLink, Usable, Ours
<1>2. ASSUME Gone, UNCHANGED <<handle, ips, mtu, chk>>, pc' = pc \/ pc' = "failed", AbsCall' = AbsCall
      PROVE  P!Vanish \/ UNCHANGED <<AbsLink, AbsCall>>
  <2>1. host' = NoLink /\ Ours' = {}
    BY <1>2, GoneStep
  <2>2. AbsLink' = "none"
    BY <2>1 DEF AbsLink
  <2> QED
    BY <1>2, <2>2 DEF P!Vanish
<1>3. CASE ReadMAC \/ CheckBegin \/ CheckFind \/ CheckAddrs \/ CheckEnd
  <2>1. pc \in Configured /\ pc' \in Configured /\ UNCHANGED <<host, netns, ips, mtu>>
    BY <1>3 DEF ReadMAC, CheckBegin, CheckFind, CheckAddrs, CheckEnd, Configured, Checking
  <2>2. AbsCall' = AbsCall
    BY <2>1 DEF AbsCall, Configured, Checking
  <2> QED
    BY <1>1, <2>1, <2>2, Zenon
<1>4. CASE cleanupAfterAddFailure
  <2>1. AbsCall' = AbsCall
    BY <1>4 DEF cleanupAfterAddFailure, AbsCall
  <2> QED
    BY <1>1, <1>2, <1>4, <2>1 DEF cleanupAfterAddFailure
<1>5. CASE Vanish
  <2>1. AbsCall' = AbsCall
    BY <1>5 DEF Vanish, AbsCall
  <2> QED
    BY <1>2, <1>5, <2>1 DEF Vanish
<1>6. CASE Drift
  <2>1. PICK n \in Ours : Sets(n, pc)
    BY <1>6, DriftSets, Zenon
  <2>2. pc \in Configured
    BY <1>6, DriftSets, Zenon
  <2>4. Ours = {n} /\ Ours' = {n} /\ host = NoLink
    BY <2>1, SetsFacts
  <2>5. UNCHANGED <<host, pc>>
    BY <2>1, SMTT(60) DEF Sets
  <2>7. AbsLink' \in {"up", "pod"} /\ AbsLink \in {"up", "pod"}
    BY <2>4, <2>5 DEF AbsLink
  <2>8. AbsCall = "done" /\ AbsCall' = "done"
    BY <2>2, <2>5 DEF AbsCall, Configured, Checking
  <2> QED
    BY <2>7, <2>8 DEF P!Drift
<1> QED
  BY <1>3, <1>4, <1>5, <1>6, Zenon

\* moveLinkToNamespace and configurePodInterface, their failures and grout's
\* death included, add up to the two steps that GroutCNI takes them for.
THEOREM PodNetnsImplementsPodLink == NoLinkApart /\ PodSpec => ImplementsPodLink
<1> SUFFICES ASSUME NoLinkApart PROVE PodSpec => ImplementsPodLink
  OBVIOUS
<1>1. PodInit => P!Init
  <2>1. PodInit => host # NoLink
    <3>1. [Link("port", "grout") EXCEPT !.up = TRUE] \in Links
      BY Zenon DEF Link, Links
    <3> QED
      BY <3>1, Zenon DEF PodInit, NoLinkApart
  <2> QED
    BY <2>1 DEF PodInit, P!Init, AbsLink, AbsCall
<1>2. PodInv /\ PodInv' /\ [PodNext]_podVars => [P!Next]_<<AbsLink, AbsCall>>
  <2>1. UNCHANGED podVars => UNCHANGED <<AbsLink, AbsCall>>
    BY DEF podVars, AbsLink, AbsCall, Usable, Ours
  <2> QED
    BY <2>1, AddRefines, AfterAddRefines, Zenon DEF PodNext, P!Next
<1> QED
  BY <1>1, <1>2, PodInvariant, PTL DEF PodSpec, ImplementsPodLink, P!Spec

-----------------------------------------------------------------------------
(* Loops over a sequence.                                                  *)

\* A set of natural numbers has a least element.
LEMMA LeastElement ==
  ASSUME NEW S, S \subseteq Nat, S # {}
  PROVE  \E n \in S : \A m \in S : n <= m
<1>1. PICK n \in S : \A m \in S : ~(<<m, n>> \in OpToRel(<, Nat))
  BY WFMin, NatLessThanWellFounded, Zenon
<1>2. ASSUME NEW m \in S PROVE n <= m
  <2>1. ~(<<m, n>> \in {ss \in Nat \X Nat : ss[1] < ss[2]})
    BY <1>1 DEF OpToRel
  <2>2. m \in Nat /\ n \in Nat
    OBVIOUS
  <2> QED
    BY <2>1, <2>2
<1> QED
  BY <1>2

\* What the least element is.
LEMMA MinIsLeast ==
  ASSUME NEW S, S \subseteq Nat, S # {}
  PROVE  Min(S) \in S /\ \A m \in S : Min(S) <= m
BY LeastElement, Zenon DEF Min

\* Induction up to n, for a set of numbers.
LEMMA UpTo ==
  ASSUME NEW n \in Nat, NEW Q, 0 \in Q, \A i \in 1..n : i - 1 \in Q => i \in Q
  PROVE  \A i \in 0..n : i \in Q
<1> DEFINE Bad == {i \in 0..n : i \notin Q}
<1>1. SUFFICES ASSUME Bad # {} PROVE FALSE
  OBVIOUS
<1>2. PICK k \in Bad : \A m \in Bad : k <= m
  <2>1. Bad \subseteq Nat
    OBVIOUS
  <2> HIDE DEF Bad
  <2> QED
    BY <1>1, <2>1, LeastElement, Zenon
<1>3. k \in 1..n /\ k \notin Q
  OBVIOUS
<1>4. k - 1 \in Q
  BY <1>2, <1>3
<1> QED
  BY <1>3, <1>4

\* A loop of n rounds: it starts with c, round i makes F[i] of what it has.
IsRun(g, S, c, n, F) ==
  g \in [0..n -> S] /\ g[0] = c /\ \A i \in 1..n : g[i] = F[i][g[i - 1]]

\* The values that such a loop goes through exist.
LEMMA LoopExists ==
  ASSUME NEW S, NEW c \in S, NEW n \in Nat, NEW F \in [1..n -> [S -> S]]
  PROVE  \E g : IsRun(g, S, c, n, F)
<1> DEFINE Run(k) == \E g : IsRun(g, S, c, k, F)
<1>1. Run(0)
  <2> DEFINE g == [i \in 0..0 |-> c]
  <2>1. IsRun(g, S, c, 0, F)
    BY DEF IsRun
  <2> QED
    BY <2>1
<1>2. ASSUME NEW k \in 1..n, Run(k - 1) PROVE Run(k)
  <2>1. PICK g : IsRun(g, S, c, k - 1, F)
    BY <1>2
  <2> DEFINE h == [i \in 0..k |-> IF i < k THEN g[i] ELSE F[k][g[k - 1]]]
  <2>2. h \in [0..k -> S]
    <3>1. g \in [0..(k - 1) -> S] /\ g[k - 1] \in S
      BY <2>1 DEF IsRun
    <3>2. F[k][g[k - 1]] \in S
      BY <3>1
    <3> QED
      BY <3>1, <3>2
  <2>3. h[0] = c
    <3>1. 0 \in 0..k /\ 0 < k
      OBVIOUS
    <3>2. g[0] = c
      BY <2>1, Zenon DEF IsRun
    <3> QED
      BY <3>1, <3>2
  <2>4. ASSUME NEW i \in 1..k PROVE h[i] = F[i][h[i - 1]]
    <3>1. h[i - 1] = g[i - 1]
      OBVIOUS
    <3>2. i # k => h[i] = F[i][g[i - 1]]
      BY <2>1 DEF IsRun
    <3>3. i = k => h[i] = F[i][g[i - 1]]
      BY SMTT(60)
    <3> QED
      BY <3>1, <3>2, <3>3
  <2>5. IsRun(h, S, c, k, F)
    BY <2>2, <2>3, <2>4, Zenon DEF IsRun
  <2> QED
    BY <2>5
<1>3. Run(n)
  <2> DEFINE Q == {k \in 0..n : Run(k)}
  <2> HIDE DEF Run
  <2>1. 0 \in Q /\ \A k \in 1..n : k - 1 \in Q => k \in Q
    BY <1>1, <1>2
  <2>2. \A k \in 0..n : k \in Q
    <3> HIDE DEF Q
    <3> QED
      BY <2>1, UpTo, Zenon
  <2> QED
    BY <2>2
<1> QED
  BY <1>3

\* Two sequences one after the other.
LEMMA Joined ==
  ASSUME NEW S, NEW s \in Seq(S), NEW t \in Seq(S)
  PROVE  /\ s \o t \in Seq(S)
         /\ Len(s \o t) = Len(s) + Len(t)
         /\ \A i \in 1..Len(s) : (s \o t)[i] = s[i]
         /\ \A i \in 1..Len(t) : (s \o t)[Len(s) + i] = t[i]
OBVIOUS

-----------------------------------------------------------------------------
(* Addresses and gateways.                                                 *)

AddrInv == result \in Seq(IPConfigs)

\* Results hold what IPAM may hand out.
LEMMA AddrInvariant == AddrSpec => []AddrInv
<1>1. AddrInit => AddrInv
  BY DEF AddrInit, AddrInv
<1>2. AddrInv /\ [AddrNext]_result => AddrInv'
  BY DEF AddrInv, AddrNext
<1> QED
  BY <1>1, <1>2, PTL DEF AddrSpec

\* The first address of a family is one of the result, and of that family.
LEMMA FirstOfFamily ==
  ASSUME NEW res \in Seq(IPConfigs), NEW f, OfFamily(res, f) # {}
  PROVE  /\ Min(OfFamily(res, f)) \in DOMAIN res
         /\ \A i \in OfFamily(res, f) : Min(OfFamily(res, f)) <= i
         /\ FirstOf(res, f) \in IPConfigs
         /\ FirstOf(res, f).fam = f
<1> DEFINE m == Min(OfFamily(res, f))
<1>1. OfFamily(res, f) \subseteq Nat
  BY DEF OfFamily
<1>2. m \in OfFamily(res, f) /\ \A i \in OfFamily(res, f) : m <= i
  BY <1>1, MinIsLeast
<1> HIDE DEF m
<1>3. m \in DOMAIN res /\ res[m].fam = f
  BY <1>2 DEF OfFamily
<1>4. res[m] \in IPConfigs
  BY <1>3
<1> QED
  BY <1>2, <1>3, <1>4 DEF FirstOf, m

\* A number is made of its quotient and its remainder.
LEMMA Quotient ==
  ASSUME NEW a \in Nat, NEW d \in Nat \ {0}
  PROVE  a \div d \in Nat /\ a - (a % d) = d * (a \div d)
OBVIOUS

\* A multiple of an even number is even.
LEMMA Twice ==
  ASSUME NEW e \in Nat, NEW q \in Nat
  PROVE  (2 * e) * q = 2 * (e * q) /\ e * q \in Nat
OBVIOUS

\* The remainder by an even number is even for an even number.
LEMMA EvenRemainder ==
  ASSUME NEW a \in Nat, a % 2 = 0, NEW d \in Nat \ {0}, d % 2 = 0
  PROVE  (a % d) % 2 = 0
<1>1. PICK k \in Nat : a = 2 * k
  BY a = 2 * (a \div 2), a \div 2 \in Nat
<1>2. PICK e \in Nat : d = 2 * e
  BY d = 2 * (d \div 2), d \div 2 \in Nat
<1> DEFINE q == a \div d
<1>3. q \in Nat /\ a % d = a - d * q
  OBVIOUS
<1>4. a % d = 2 * (k - e * q)
  <2>1. d * q = 2 * (e * q) /\ e * q \in Nat
    BY <1>2, <1>3, Twice
  <2> HIDE DEF q
  <2> QED
    BY <1>1, <1>3, <2>1
<1>5. k - e * q \in Int
  BY <1>3
<1> QED
  BY <1>4, <1>5

\* The network address of a subnet is even, so that its last byte has room for
\* the increment that does not carry.
LEMMA MaskedEven ==
  ASSUME NEW ip \in IPConfigs, ip.size # 1
  PROVE  Masked(ip) \in Nat /\ Masked(ip) % 2 = 0 /\ ip.size \in Nat /\ ip.size >= 2
<1>0. ip.ip \in V4 \union V6 /\ ip.size \in Sizes
  BY Zenon DEF IPConfigs
<1>1. ip.ip \in Nat /\ ip.size \in Nat \ {0} /\ ip.size % 2 = 0
  <2>1. ip.ip \in Nat
    BY <1>0, AddressingAssumption, Zenon
  <2>2. ip.size \in {n \in Nat : n = 1 \/ (n > 0 /\ n % 2 = 0)}
    BY <1>0, AddressingAssumption, Zenon
  <2> QED
    BY <2>1, <2>2
<1> DEFINE a == ip.ip
           d == ip.size
           q == a \div d
<1>2. q \in Nat /\ a - (a % d) = d * q
  BY <1>1, Quotient, Zenon
<1>3. PICK e \in Nat : d = 2 * e
  BY <1>1, d = 2 * (d \div 2), d \div 2 \in Nat
<1>4. d * q = 2 * (e * q) /\ e * q \in Nat
  BY <1>2, <1>3, Twice
<1>5. Masked(ip) = 2 * (e * q)
  BY <1>2, <1>4 DEF Masked
<1> QED
  BY <1>1, <1>3, <1>4, <1>5

\* The gateway that gatewaysFor derives is the address after the network address.
LEMMA DerivedGateway ==
  ASSUME NEW ip \in IPConfigs, ip.gw = Nil, ip.size # 1
  PROVE  Gateway(ip) = Masked(ip) + 1
<1> DEFINE m == Masked(ip)
           r == m % Byte
<1>1. m \in Nat /\ m % 2 = 0
  BY MaskedEven, Zenon
<1>2. Byte \in Nat \ {0} /\ Byte % 2 = 0
  BY AddressingAssumption
<1> HIDE DEF m
<1>3. r \in Nat /\ r < Byte
  BY <1>1, <1>2
<1>4. r % 2 = 0
  BY <1>1, <1>2, EvenRemainder
<1>5. r + 1 < Byte
  BY <1>2, <1>3, <1>4
<1>6. (r + 1) % Byte = r + 1
  BY <1>2, <1>3, <1>5
<1>7. LastByteUp(m) = m + 1
  <2>1. LastByteUp(m) = m - r + ((r + 1) % Byte)
    BY DEF LastByteUp
  <2> HIDE DEF r
  <2> QED
    BY <1>1, <1>3, <1>6, <2>1
<1> QED
  BY <1>7 DEF Gateway, m

\* For a full-length mask it is not the address itself, which is the whole subnet.
LEMMA FullMaskGateway ==
  ASSUME NEW ip \in IPConfigs, ip.gw = Nil, ip.size = 1
  PROVE  Gateway(ip) \notin Subnet(ip)
<1> DEFINE r == ip.ip % Byte
           up == (r + 1) % Byte
<1>1. ip.ip \in Nat /\ Byte \in Nat \ {0} /\ Byte % 2 = 0
  BY AddressingAssumption, Zenon DEF IPConfigs
<1>2. Masked(ip) = ip.ip
  BY <1>1 DEF Masked
<1>3. r \in Nat /\ r < Byte /\ up \in Nat /\ up # r
  <2>1. r \in Nat /\ r < Byte /\ Byte >= 2
    BY <1>1
  <2>2. CASE r + 1 < Byte
    BY <1>1, <2>1, <2>2
  <2>3. CASE r + 1 = Byte
    <3> HIDE DEF r
    <3>1. up = 0
      BY <1>1, <2>1, <2>3
    <3> QED
      BY <2>1, <2>3, <3>1
  <2> QED
    BY <1>1, <2>1, <2>2, <2>3
<1>4. Gateway(ip) = ip.ip - r + up
  BY <1>2 DEF Gateway, LastByteUp
<1> HIDE DEF r, up
<1>5. Gateway(ip) # ip.ip
  BY <1>1, <1>3, <1>4
<1>6. Subnet(ip) = ip.ip .. ip.ip
  BY <1>1, <1>2 DEF Subnet
<1> QED
  BY <1>1, <1>5, <1>6

GatewayOf(ip) == [fam |-> ip.fam, ip |-> Gateway(ip), size |-> ip.size]

Gateways == {GatewayOf(ip) : ip \in IPConfigs}

\* The loop of gatewaysFor: what it has gathered before each address.
LEMMA GatewaysLoop ==
  ASSUME NEW res \in Seq(IPConfigs)
  PROVE  \E g \in [0..Len(res) -> Seq(Gateways)] :
           /\ g[0] = <<>>
           /\ \A i \in 1..Len(res) : g[i] = TakeFirstOfFamily(g[i - 1], res[i])
           /\ gatewaysFor(res) = g[Len(res)]
<1> DEFINE n == Len(res)
           T == Seq(Gateways)
           Step(g) == [i \in 0..n |-> IF i = 0 THEN <<>> ELSE TakeFirstOfFamily(g[i - 1], res[i])]
           gws == CHOOSE g : g = Step(g)
           F == [i \in 1..n |-> [g \in T |-> TakeFirstOfFamily(g, res[i])]]
<1>1. ASSUME NEW g \in T, NEW ip \in IPConfigs
      PROVE  TakeFirstOfFamily(g, ip) \in T
  <2>1. GatewayOf(ip) \in Gateways
    BY DEF Gateways
  <2>2. TakeFirstOfFamily(g, ip) \in {g, Append(g, GatewayOf(ip))}
    BY DEF TakeFirstOfFamily, GatewayOf
  <2> QED
    BY <2>1, <2>2
<1>2. n \in Nat /\ \A i \in 1..n : res[i] \in IPConfigs
  OBVIOUS
<1>3. <<>> \in T
  OBVIOUS
<1>4. gatewaysFor(res) = gws[n]
  BY DEF gatewaysFor
<1> HIDE DEF n, T
<1>5. PICK h : IsRun(h, T, <<>>, n, F)
  <2>1. F \in [1..n -> [T -> T]]
    BY <1>1, <1>2
  <2> HIDE DEF F
  <2> QED
    BY <1>2, <1>3, <2>1, LoopExists, Zenon
<1>6. /\ h \in [0..n -> T] /\ h[0] = <<>>
      /\ \A i \in 1..n : h[i] = TakeFirstOfFamily(h[i - 1], res[i])
  <2>1. h \in [0..n -> T] /\ h[0] = <<>> /\ \A i \in 1..n : h[i] = F[i][h[i - 1]]
    BY <1>5 DEF IsRun
  <2>2. ASSUME NEW i \in 1..n PROVE h[i] = TakeFirstOfFamily(h[i - 1], res[i])
    <3>1. h[i - 1] \in T
      BY <1>2, <2>1
    <3> QED
      BY <2>1, <3>1, Zenon
  <2> QED
    BY <2>1, <2>2
<1>7. h = Step(h)
  <2>1. \A i \in 0..n : h[i] = Step(h)[i]
    BY <1>2, <1>6
  <2> QED
    BY <1>6, <2>1
<1>8. gws = Step(gws)
  <2> HIDE DEF Step
  <2> QED
    BY <1>7
<1> HIDE DEF gws
<1>9. /\ DOMAIN gws = 0..n
      /\ \A i \in 0..n : gws[i] = IF i = 0 THEN <<>> ELSE TakeFirstOfFamily(gws[i - 1], res[i])
  BY <1>8, Zenon
<1>10. gws = [i \in 0..n |-> gws[i]]
  BY <1>8
<1>z. 0 \in 0..n /\ \A i \in 1..n : i \in 0..n /\ i # 0
  BY <1>2
<1>11. gws \in [0..n -> T]
  <2>1. gws[0] \in T
    BY <1>3, <1>9, <1>z, Zenon
  <2>2. ASSUME NEW i \in 1..n, gws[i - 1] \in T PROVE gws[i] \in T
    <3>1. gws[i] = TakeFirstOfFamily(gws[i - 1], res[i])
      BY <1>9, <1>z, Zenon
    <3> QED
      BY <1>1, <1>2, <2>2, <3>1, Zenon
  <2>3. \A i \in 0..n : gws[i] \in T
    <3> DEFINE Q == {i \in 0..n : gws[i] \in T}
    <3>1. 0 \in Q /\ \A i \in 1..n : i - 1 \in Q => i \in Q
      BY <1>2, <2>1, <2>2
    <3>2. \A i \in 0..n : i \in Q
      BY <1>2, <3>1, UpTo, Zenon
    <3> QED
      BY <3>2
  <2> QED
    BY <1>10, <2>3
<1>12. gws[0] = <<>> /\ \A i \in 1..n : gws[i] = TakeFirstOfFamily(gws[i - 1], res[i])
  BY <1>9, <1>z, Zenon
<1> QED
  BY <1>4, <1>11, <1>12 DEF n, T

\* One gateway of a family is in gws, and it is gw.
Only(gws, f, gw) == \E i \in DOMAIN gws : OfFamily(gws, f) = {i} /\ gws[i] = gw

\* One round of the loop: where the gateways of a family are after it.
LEMMA RoundOfFamily ==
  ASSUME NEW gws \in Seq(Gateways), NEW ip \in IPConfigs, NEW f,
         NEW next, next = TakeFirstOfFamily(gws, ip)
  PROVE  /\ OfFamily(gws, f) = {} /\ ip.fam # f => OfFamily(next, f) = {}
         /\ OfFamily(gws, f) = {} /\ ip.fam = f => Only(next, f, GatewayOf(ip))
         /\ \A gw : Only(gws, f, gw) => Only(next, f, gw)
<1> DEFINE n == Len(gws)
<1>1. CASE OfFamily(gws, ip.fam) # {}
  <2>1. next = gws
    BY <1>1 DEF TakeFirstOfFamily
  <2> QED
    BY <1>1, <2>1
<1>2. CASE OfFamily(gws, ip.fam) = {}
  <2>1. next = Append(gws, GatewayOf(ip))
    BY <1>2 DEF TakeFirstOfFamily, GatewayOf
  <2>2. GatewayOf(ip) \in Gateways
    BY Zenon DEF Gateways
  <2>3. /\ n \in Nat /\ DOMAIN gws = 1..n /\ DOMAIN next = 1..(n + 1)
        /\ \A i \in 1..n : next[i] = gws[i]
        /\ next[n + 1] = GatewayOf(ip)
    BY <2>1, <2>2
  <2>4. GatewayOf(ip).fam = ip.fam
    BY Zenon DEF GatewayOf
  <2> HIDE DEF n
  <2>e. n + 1 \in 1..(n + 1) /\ \A i : i \in 1..(n + 1) <=> i \in 1..n \/ i = n + 1
    BY <2>3
  <2>5. ip.fam # f => OfFamily(next, f) = OfFamily(gws, f)
    <3>1. \A i : i \in OfFamily(gws, f) => i \in OfFamily(next, f)
      BY <2>3, <2>e, Zenon DEF OfFamily
    <3>2. ip.fam # f => \A i : i \in OfFamily(next, f) => i \in OfFamily(gws, f)
      BY <2>3, <2>4, <2>e, Zenon DEF OfFamily
    <3> QED
      BY <3>1, <3>2, Zenon
  <2>6. ip.fam = f => OfFamily(next, f) = {n + 1} /\ n + 1 \in DOMAIN next
    <3>1. n + 1 \in DOMAIN next /\ n + 1 \in OfFamily(next, ip.fam)
      BY <2>3, <2>4, <2>e, Zenon DEF OfFamily
    <3>2. \A i \in OfFamily(next, ip.fam) : i = n + 1
      BY <1>2, <2>3, <2>e, Zenon DEF OfFamily
    <3> QED
      BY <3>1, <3>2, Zenon
  <2>7. ASSUME NEW gw, Only(gws, f, gw) PROVE Only(next, f, gw)
    <3>1. PICK i \in DOMAIN gws : OfFamily(gws, f) = {i} /\ gws[i] = gw
      BY <2>7 DEF Only
    <3>2. ip.fam # f
      BY <1>2, <3>1, Zenon
    <3>3. i \in DOMAIN next /\ next[i] = gw
      BY <2>3, <2>e, <3>1, Zenon
    <3> QED
      BY <2>5, <3>1, <3>2, <3>3 DEF Only
  <2> QED
    BY <2>3, <2>5, <2>6, <2>7, ZenonT(60) DEF Only
<1> QED
  BY <1>1, <1>2

\* However many addresses of a family are in a result, and in whatever order:
\* gatewaysFor takes the first one's gateway, and that only.
LEMMA GatewaysOfFamily ==
  ASSUME NEW res \in Seq(IPConfigs), NEW f
  PROVE  LET gws == gatewaysFor(res) IN
         IF OfFamily(res, f) = {} THEN OfFamily(gws, f) = {}
         ELSE Only(gws, f, GatewayOf(FirstOf(res, f)))
<1> DEFINE n == Len(res)
           first == Min(OfFamily(res, f))
           Before(k) == OfFamily(res, f) = {} \/ k < first
<1>1. n \in Nat /\ DOMAIN res = 1..n /\ \A k \in 1..n : res[k] \in IPConfigs
  OBVIOUS
<1>2. PICK g \in [0..n -> Seq(Gateways)] :
        /\ g[0] = <<>>
        /\ \A i \in 1..n : g[i] = TakeFirstOfFamily(g[i - 1], res[i])
        /\ gatewaysFor(res) = g[n]
  BY GatewaysLoop, Zenon
<1>3. OfFamily(res, f) # {} =>
        first \in 1..n /\ (\A i \in OfFamily(res, f) : first <= i) /\ res[first].fam = f
  BY FirstOfFamily, <1>1 DEF FirstOf
<1> DEFINE One(k) == Only(g[k], f, GatewayOf(FirstOf(res, f)))
           Q == {k \in 0..n : IF Before(k) THEN OfFamily(g[k], f) = {} ELSE One(k)}
<1> HIDE DEF n, first, One, Before
<1>q. \A k \in 0..n : k \in Q <=> (Before(k) /\ OfFamily(g[k], f) = {}) \/ (~Before(k) /\ One(k))
  BY Zenon
<1> HIDE DEF Q
<1>4. 0 \in Q
  <2>1. Before(0) /\ 0 \in 0..n
    BY <1>1, <1>3 DEF Before
  <2>2. OfFamily(g[0], f) = {}
    <3>1. DOMAIN g[0] = {}
      BY <1>2
    <3> QED
      BY <3>1, Zenon DEF OfFamily
  <2> QED
    BY <1>q, <2>1, <2>2, Zenon
<1>5. ASSUME NEW k \in 1..n, k - 1 \in Q PROVE k \in Q
  <2>0. k \in 0..n /\ k - 1 \in 0..n
    BY <1>1
  <2>1. /\ g[k - 1] \in Seq(Gateways) /\ res[k] \in IPConfigs
        /\ g[k] = TakeFirstOfFamily(g[k - 1], res[k])
    BY <1>1, <1>2, <2>0, Zenon
  <2>2. CASE Before(k)
    <3>1. res[k].fam # f
      <4>1. res[k].fam = f => k \in OfFamily(res, f)
        BY <1>1, Zenon DEF OfFamily
      <4>2. k \in OfFamily(res, f) => first <= k /\ first \in 1..n /\ k < first
        BY <1>3, <2>2, Zenon DEF Before
      <4> QED
        BY <1>1, <4>1, <4>2
    <3>2. Before(k - 1)
      <4>1. OfFamily(res, f) # {} => first \in 1..n /\ k < first
        BY <1>3, <2>2, Zenon DEF Before
      <4> QED
        BY <1>1, <4>1 DEF Before
    <3>3. OfFamily(g[k - 1], f) = {}
      BY <1>5, <1>q, <2>0, <3>2, Zenon
    <3>4. OfFamily(g[k], f) = {}
      BY <2>1, <3>1, <3>3, RoundOfFamily, Zenon
    <3> QED
      BY <1>q, <2>0, <2>2, <3>4, Zenon
  <2>3. CASE ~Before(k) /\ Before(k - 1)
    <3>1. k = first /\ OfFamily(res, f) # {}
      BY <1>1, <1>3, <2>3 DEF Before
    <3>2. res[k].fam = f /\ res[k] = FirstOf(res, f)
      BY <1>3, <3>1, Zenon DEF FirstOf, first
    <3>3. OfFamily(g[k - 1], f) = {}
      BY <1>5, <1>q, <2>0, <2>3, Zenon
    <3>4. One(k)
      BY <2>1, <3>2, <3>3, RoundOfFamily, Zenon DEF One
    <3> QED
      BY <1>q, <2>0, <2>3, <3>4, Zenon
  <2>4. CASE ~Before(k) /\ ~Before(k - 1)
    <3>1. One(k - 1)
      BY <1>5, <1>q, <2>0, <2>4, Zenon
    <3>2. One(k)
      BY <2>1, <3>1, RoundOfFamily, Zenon DEF One
    <3> QED
      BY <1>q, <2>0, <2>4, <3>2, Zenon
  <2> QED
    BY <2>2, <2>3, <2>4, Zenon
<1>6. n \in Q
  <2>1. \A k \in 1..n : k - 1 \in Q => k \in Q
    BY <1>5, Zenon
  <2>2. \A k \in 0..n : k \in Q
    BY <1>1, <1>4, <2>1, UpTo, ZenonT(60)
  <2>3. n \in 0..n
    BY <1>1
  <2> QED
    BY <2>2, <2>3, Zenon
<1>7. n \in 0..n /\ (OfFamily(res, f) = {} => Before(n)) /\ (OfFamily(res, f) # {} => ~Before(n))
  <2>1. OfFamily(res, f) # {} => first \in 1..n
    BY <1>3, Zenon
  <2> QED
    BY <1>1, <2>1 DEF Before
<1> QED
  BY <1>2, <1>6, <1>7, <1>q, Zenon DEF One

\* The bridge gets one gateway for each family of the result, that of the first
\* address.
THEOREM OneGateway == AddrSpec => []OneGatewayPerFamily
<1>1. AddrInv => OneGatewayPerFamily
  <2> SUFFICES ASSUME AddrInv, NEW f \in {"v4", "v6"}
               PROVE  LET gws == gatewaysFor(result)
                          first == FirstOf(result, f)
                      IN IF OfFamily(result, f) = {} THEN OfFamily(gws, f) = {}
                         ELSE \E i \in DOMAIN gws :
                                /\ OfFamily(gws, f) = {i}
                                /\ gws[i].ip = Gateway(first) /\ gws[i].size = first.size
    BY ZenonT(60) DEF OneGatewayPerFamily
  <2>1. result \in Seq(IPConfigs)
    BY Zenon DEF AddrInv
  <2>2. CASE OfFamily(result, f) = {}
    BY <2>1, <2>2, GatewaysOfFamily, Zenon
  <2>3. CASE OfFamily(result, f) # {}
    <3>1. PICK i \in DOMAIN gatewaysFor(result) :
            /\ OfFamily(gatewaysFor(result), f) = {i}
            /\ gatewaysFor(result)[i] = GatewayOf(FirstOf(result, f))
      BY <2>1, <2>3, GatewaysOfFamily, Zenon DEF Only
    <3> QED
      BY <2>3, <3>1 DEF GatewayOf
  <2> QED
    BY <2>2, <2>3, Zenon
<1> QED
  BY <1>1, AddrInvariant, PTL

\* Each gateway that gatewaysFor yields without one from IPAM is the first host of
\* the subnet of its family's first address: masking and incrementing the last byte
\* never wraps.  With a full-length mask it lies outside that subnet.
THEOREM GatewayIsHost == AddrSpec => []GatewayIsFirstHost
<1>1. AddrInv => GatewayIsFirstHost
  <2> SUFFICES ASSUME AddrInv, NEW g \in Range(gatewaysFor(result)), FirstOf(result, g.fam).gw = Nil
               PROVE  LET first == FirstOf(result, g.fam) IN
                      IF first.size = 1 THEN g.ip \notin Subnet(first)
                      ELSE /\ g.ip \in Subnet(first) /\ g.ip > Masked(first)
                           /\ \A a \in Subnet(first) : a > Masked(first) => g.ip <= a
    BY Zenon DEF GatewayIsFirstHost
  <2> DEFINE gws == gatewaysFor(result)
             first == FirstOf(result, g.fam)
  <2>1. PICK i \in DOMAIN gws : gws[i] = g
    BY DEF Range
  <2>2. i \in OfFamily(gws, g.fam)
    BY <2>1, Zenon DEF OfFamily
  <2>3. OfFamily(result, g.fam) # {} /\ Only(gws, g.fam, GatewayOf(first))
    BY <2>2, GatewaysOfFamily, Zenon DEF AddrInv
  <2>4. g = GatewayOf(first)
    BY <2>1, <2>2, <2>3, Zenon DEF Only
  <2>5. first \in IPConfigs
    BY <2>3, FirstOfFamily, Zenon DEF AddrInv
  <2> HIDE DEF gws, first
  <2>6. g.ip = Gateway(first)
    BY <2>4 DEF GatewayOf
  <2>7. first.gw = Nil
    BY Zenon DEF first
  <2>8. CASE first.size = 1
    BY <2>5, <2>6, <2>7, <2>8, FullMaskGateway, Zenon DEF first
  <2>9. CASE first.size # 1
    <3>1. g.ip = Masked(first) + 1
      BY <2>5, <2>6, <2>7, <2>9, DerivedGateway
    <3>2. Masked(first) \in Nat /\ first.size \in Nat /\ first.size >= 2
      BY <2>5, <2>9, MaskedEven
    <3>3. /\ g.ip \in Subnet(first) /\ g.ip > Masked(first)
          /\ \A a \in Subnet(first) : a > Masked(first) => g.ip <= a
      BY <3>1, <3>2 DEF Subnet
    <3> QED
      BY <2>9, <3>3, Zenon DEF first
  <2> QED
    BY <2>8, <2>9
<1> QED
  BY <1>1, AddrInvariant, PTL

-----------------------------------------------------------------------------
(* The network configuration and the names it gives.                       *)

\* The name that is derived for a bridge fits, for any network and any digest.
LEMMA BridgeNameFits ==
  ASSUME NEW network \in NetworkNames, network # <<>>, NEW digest
  PROVE  Len(bridgeNameFor(network, digest)) \in 1..(NameSize - 1)
<1> DEFINE name == Prefix \o network
           T == {"b", "r", "-"} \union Letters
           cut == Max({NameSize - 1 - 2, 3})
<1>1. PICK m \in 0..MaxName : network \in [1..m -> Letters]
  BY ConfAssumption DEF NetworkNames
<1>2. network \in Seq(Letters) /\ Len(network) = m
  BY <1>1, ConfAssumption
<1>3. Prefix \in Seq(T) /\ Len(Prefix) = 3 /\ network \in Seq(T)
  BY <1>2 DEF Prefix
<1> HIDE DEF T
<1>4. name \in Seq(T) /\ Len(name) = 3 + m
  <2>1. Prefix \o network \in Seq(T) /\ Len(Prefix \o network) = Len(Prefix) + Len(network)
    BY <1>3, Joined, Zenon
  <2> QED
    BY <1>2, <1>3, <2>1
<1>5. cut \in {NameSize - 3, 3} /\ cut >= 3 /\ cut <= NameSize - 3
  <2>1. NameSize - 1 - 2 = NameSize - 3 /\ NameSize - 3 >= 3 /\ NameSize \in Nat
    BY ConfAssumption
  <2>2. \E x \in {NameSize - 3, 3} : \A y \in {NameSize - 3, 3} : x >= y
    BY <2>1
  <2> QED
    BY <2>1, <2>2 DEF Max
<1>6. CASE Len(name) <= NameSize - 1
  <2>1. bridgeNameFor(network, digest) = name
    BY <1>6 DEF bridgeNameFor
  <2> QED
    BY <1>2, <1>4, <1>6, <2>1, ConfAssumption
<1>7. CASE ~(Len(name) <= NameSize - 1)
  <2>1. bridgeNameFor(network, digest) = SubSeq(name, 1, cut) \o <<"-", digest>>
    <3>1. Len(<<"-", digest>>) = 2
      OBVIOUS
    <3> QED
      BY <1>3, <1>7, <3>1, Zenon DEF bridgeNameFor
  <2> HIDE DEF name, cut
  <2>2. cut \in 0..Len(name)
    BY <1>4, <1>5, <1>7, ConfAssumption
  <2>3. SubSeq(name, 1, cut) \in Seq(T) /\ Len(SubSeq(name, 1, cut)) = cut
    BY <1>4, <2>2
  <2>4. <<"-", digest>> \in Seq({"-", digest}) /\ Len(<<"-", digest>>) = 2
    OBVIOUS
  <2>5. Len(bridgeNameFor(network, digest)) = cut + 2
    BY <2>1, <2>3, <2>4
  <2> QED
    BY <1>5, <2>5, ConfAssumption
<1> QED
  BY <1>6, <1>7

\* What LoadConfig lets through has a name and an MTU that fit.
LEMMA AcceptedFits ==
  ASSUME NEW in \in Inputs, Accepted(in), NEW digest
  PROVE  LET c == PluginConf(in, digest)
         IN Len(c.bridge) \in 1..(NameSize - 1) /\ c.mtu % Word = c.mtu
<1> DEFINE c == PluginConf(in, digest)
<1>1. in.name \in NetworkNames /\ in.bridge \in Bridges /\ in.mtu \in Int
  BY ConfAssumption, ZenonT(60) DEF Inputs
<1>2. Len(c.bridge) \in 1..(NameSize - 1)
  <2>1. CASE in.bridge = <<>>
    <3>1. c.bridge = bridgeNameFor(in.name, digest)
      BY <2>1, Zenon DEF PluginConf
    <3> QED
      BY <1>1, <3>1, BridgeNameFits, ZenonT(60) DEF Accepted
  <2>2. CASE in.bridge # <<>>
    <3>1. c.bridge = in.bridge /\ Len(in.bridge) < NameSize
      BY <2>2, Zenon DEF PluginConf, Accepted
    <3>2. PICK n \in 0..MaxBridge : in.bridge = [i \in 1..n |-> "x"]
      BY <1>1 DEF Bridges
    <3>3. in.bridge \in Seq({"x"}) /\ Len(in.bridge) = n
      BY <3>2, ConfAssumption
    <3>4. n # 0
      BY <2>2, <3>3
    <3> QED
      BY <3>1, <3>2, <3>3, <3>4, ConfAssumption, SMTT(60)
  <2> QED
    BY <2>1, <2>2
<1>3. c.mtu % Word = c.mtu
  <2>1. c.mtu = in.mtu
    BY Zenon DEF PluginConf
  <2>2. in.mtu >= 0 /\ in.mtu <= Word - 1
    BY Zenon DEF Accepted
  <2> QED
    BY <1>1, <2>1, <2>2, ConfAssumption, SMTT(60)
<1> QED
  BY <1>2, <1>3

\* A level that validLogLevel knows is one parseLogLevel knows.
LEMMA AcceptedLevel ==
  ASSUME NEW in \in Inputs, Accepted(in), NEW digest
  PROVE  LET c == PluginConf(in, digest)
         IN c.asked # Unset =>
              c.level = IF c.asked.word = "warning" THEN "warn" ELSE c.asked.word
<1> SUFFICES ASSUME in.level # Unset
             PROVE  parseLogLevel(in.level) =
                      IF in.level.word = "warning" THEN "warn" ELSE in.level.word
  BY Zenon DEF PluginConf
<1>1. in.level.word \in {"debug", "info", "warn", "warning", "error"}
  BY Zenon DEF Accepted, validLogLevel
<1> QED
  BY <1>1, SMTT(60) DEF parseLogLevel

\* A configuration is there already, or LoadConfig has accepted it.
LEMMA Loaded ==
  ASSUME [LoadConfig]_conf, NEW c \in conf'
  PROVE  c \in conf \/ \E in \in Inputs, digest \in Digests :
                          Accepted(in) /\ c = PluginConf(in, digest)
<1>1. CASE UNCHANGED conf
  BY <1>1, Zenon
<1>2. CASE LoadConfig
  <2>1. PICK in \in Inputs, digest \in Digests :
          IF Accepted(in) THEN conf' = conf \union {PluginConf(in, digest)} ELSE UNCHANGED conf
    BY <1>2, Zenon DEF LoadConfig
  <2> QED
    BY <2>1, Zenon
<1> QED
  BY <1>1, <1>2, Zenon

\* Every configuration that LoadConfig returns has a bridge name that fits
\* grout's field, given or derived, and an MTU that fits its uint16.
THEOREM ConfigFits == ConfSpec => []ConfFitsWire
<1>1. ConfInit => ConfFitsWire
  BY DEF ConfInit, ConfFitsWire
<1>2. ConfFitsWire /\ [LoadConfig]_conf => ConfFitsWire'
  <2> DEFINE Fits(c) == Len(c.bridge) \in 1..(NameSize - 1) /\ c.mtu % Word = c.mtu
  <2>1. \A in \in Inputs, digest \in Digests : Accepted(in) => Fits(PluginConf(in, digest))
    BY AcceptedFits, Zenon
  <2>2. ConfFitsWire <=> \A c \in conf : Fits(c)
    BY Zenon DEF ConfFitsWire
  <2>3. ConfFitsWire' <=> \A c \in conf' : Fits(c)
    BY Zenon DEF ConfFitsWire
  <2> HIDE DEF Fits
  <2> SUFFICES ASSUME ConfFitsWire, [LoadConfig]_conf, NEW c \in conf' PROVE Fits(c)
    BY <2>3, Zenon
  <2> QED
    BY <2>1, <2>2, Loaded, Zenon
<1> QED
  BY <1>1, <1>2, PTL DEF ConfSpec

\* The log level that LoadConfig accepted is the one ConfigureLogging installs.
THEOREM LevelIsHonoured == ConfSpec => []LevelHonoured
<1>1. ConfInit => LevelHonoured
  BY DEF ConfInit, LevelHonoured
<1>2. LevelHonoured /\ [LoadConfig]_conf => LevelHonoured'
  <2> DEFINE Honoured(c) ==
        c.asked # Unset => c.level = IF c.asked.word = "warning" THEN "warn" ELSE c.asked.word
  <2>1. \A in \in Inputs, digest \in Digests : Accepted(in) => Honoured(PluginConf(in, digest))
    BY AcceptedLevel, Zenon
  <2>2. LevelHonoured <=> \A c \in conf : Honoured(c)
    BY Zenon DEF LevelHonoured
  <2>3. LevelHonoured' <=> \A c \in conf' : Honoured(c)
    BY Zenon DEF LevelHonoured
  <2> HIDE DEF Honoured
  <2> SUFFICES ASSUME LevelHonoured, [LoadConfig]_conf, NEW c \in conf' PROVE Honoured(c)
    BY <2>3, Zenon
  <2> QED
    BY <2>1, <2>2, Loaded, Zenon
<1> QED
  BY <1>1, <1>2, PTL DEF ConfSpec
=============================================================================
