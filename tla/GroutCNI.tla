------------------------------ MODULE GroutCNI ------------------------------
(***************************************************************************)
(* The grout-cni plugin: short-lived processes, one per CNI call, that the *)
(* container runtime starts concurrently on a node.  Each dials grout,     *)
(* takes the node's file lock, runs its handler (ADD, DEL, CHECK or GC;    *)
(* STATUS only dials) and exits.  One action is one request to grout, one  *)
(* call of the delegated IPAM plugin, or one change to a file or a netdev: *)
(* between two of them other processes, other users of grout, a crash of   *)
(* grout or the death of the process can come.                             *)
(***************************************************************************)
EXTENDS Grout

CONSTANTS
  Procs,        \* plugin processes that can be alive at once
  Attachments,  \* (containerID, ifName) pairs
  Networks,     \* network configurations
  NetOf,        \* the network of an attachment
  Bridge,       \* PluginConf.Bridge of a network
  VirtioNets,   \* networks whose interfaceType is "virtio"
  NoNetns,      \* attachments whose call carries an empty netns path
  Gateways,     \* what gatewaysFor yields for an IPAM result of the network
  PortName,     \* groutPortName of an attachment
  FaultKinds,   \* kinds of failure the environment may inject
  MaxFaults     \* bound on the injected failures

ASSUME CNIAssumption ==
  /\ None \notin Procs \union Attachments \union Networks
  /\ NetOf \in [Attachments -> Networks]
  /\ Bridge \in [Networks -> Names \ PortNames]
  /\ VirtioNets \subseteq Networks
  /\ NoNetns \subseteq Attachments
  /\ Gateways \in [Networks -> SUBSET Addrs]
  /\ PortName \in [Attachments -> PortNames]
  /\ MaxFaults \in Nat

\* 55 bits of SHA-256: distinct attachments are taken to have distinct names.
ASSUME PortNamesDistinct ==
  \A a, b \in Attachments : PortName[a] = PortName[b] => a = b

VARIABLES
  ipam,   \* attachments that hold an IPAM reservation
  lock,   \* the process holding the flock, or None
  pc,     \* where each process is
  req,    \* the call it runs: verb, attachment, network, valid attachments
  br,     \* local bridgeID (in DEL port.Domain)
  port,   \* local id of the attachment's port; in GC of the last port reaped
  gws,    \* ADD: gateways still to be added to the bridge
  todo,   \* GC: stale ports still to be reaped, as (id, name)
  err,    \* the call returns an error
  conn,   \* its connection to grout
  rt,     \* what the runtime believes of an attachment
  lost,   \* ghost: attachments hit by a grout crash or a netdev change since ADD
  faults  \* failures injected so far

hostVars == <<ipam, rt, lost>>
procVars == <<lock, req, conn>>
locals == <<br, port, gws, todo>>
vars == <<iface, link, socks, groutUp, ipam, lock, pc, req, br, port, gws, todo, err, conn,
          rt, lost, faults>>

-----------------------------------------------------------------------------
Verbs == {"ADD", "DEL", "CHECK", "GC", "STATUS"}

\* Where a process can be while it holds the lock.
Critical ==
  {"a_ipam", "a_list", "a_mkbr", "a_relist", "a_addr", "a_port", "a_move",
   "a_conf", "a_rollback", "d_list", "d_del", "d_sock", "b_list", "b_flush4",
   "b_flush6", "b_del", "c_list", "c_pod", "g_list", "g_reap", "g_sock",
   "g_ipam", "ipamdel", "ret"}

Labels == Critical \union {"idle", "dial", "lock", "exit"}

Requests ==
  [verb : Verbs \union {"none"}, att : Attachments \union {None},
   net : Networks \union {None}, valid : SUBSET Attachments]

Request(v, a, n, valid) == [verb |-> v, att |-> a, net |-> n, valid |-> valid]

NoRequest == Request("none", None, None, {})

TypeOK ==
  /\ GroutTypeOK
  /\ ipam \subseteq Attachments
  /\ lock \in Procs \union {None}
  /\ pc \in [Procs -> Labels]
  /\ req \in [Procs -> Requests]
  /\ br \in [Procs -> Ids \union {0}]
  /\ port \in [Procs -> Ids \union {0}]
  /\ gws \in [Procs -> SUBSET Addrs]
  /\ todo \in [Procs -> SUBSET (Ids \X PortNames)]
  /\ err \in [Procs -> BOOLEAN]
  /\ conn \in [Procs -> {"closed", "open", "dead"}]
  /\ rt \in [Attachments -> {"absent", "attached", "failed"}]
  /\ lost \subseteq Attachments
  /\ faults \in 0..MaxFaults

Init ==
  /\ GroutInit
  /\ ipam = {}
  /\ lock = None
  /\ pc = [p \in Procs |-> "idle"]
  /\ req = [p \in Procs |-> NoRequest]
  /\ br = [p \in Procs |-> 0]
  /\ port = [p \in Procs |-> 0]
  /\ gws = [p \in Procs |-> {}]
  /\ todo = [p \in Procs |-> {}]
  /\ err = [p \in Procs |-> FALSE]
  /\ conn = [p \in Procs |-> "closed"]
  /\ rt = [a \in Attachments |-> "absent"]
  /\ lost = {}
  /\ faults = 0

-----------------------------------------------------------------------------
(* Helpers                                                                 *)

Goto(p, l) == pc' = [pc EXCEPT ![p] = l]

\* The handler will return an error; l is where its error path goes on.
Fail(p, l) ==
  /\ err' = [err EXCEPT ![p] = TRUE]
  /\ Goto(p, l)

MyName(p) == PortName[req[p].att]

Virtio(p) == req[p].net \in VirtioNets

\* A failure of kind k that the environment injects.
Fault(k) ==
  /\ k \in FaultKinds
  /\ faults < MaxFaults
  /\ faults' = faults + 1

\* grout answers p: the connection is the one to the running daemon.
Served(p) == conn[p] = "open" /\ UNCHANGED faults

\* A request of kind k by p gets an error and has no effect: grout has gone
\* since p dialled, refuses it (blocked), or fails.
Refused(p, k, blocked) ==
  /\ \/ (conn[p] = "dead" \/ blocked) /\ UNCHANGED faults
     \/ conn[p] = "open" /\ Fault(k)
  /\ UNCHANGED <<iface, link, socks>>

\* InterfaceList: p sees the interface table as it is now.
Listed(p) == Served(p) /\ UNCHANGED <<iface, link, socks>>

\* findBridgeID and findByName (findPortByName) on that list.
findBridgeID(n) == {i \in Named(n) : iface[i].type = "bridge"}

findByName(n) == Named(n)

-----------------------------------------------------------------------------
(* The runtime.  Per the CNI specification it serialises the calls for one *)
(* attachment and never runs GC while an ADD or a DEL is in progress.      *)

Running(vs) == {p \in Procs : req[p].verb \in vs}

Busy(a) == \E p \in Procs : req[p].att = a

Invoke(p, v, a, n, valid) ==
  /\ pc[p] = "idle"
  /\ Goto(p, "dial")
  /\ req' = [req EXCEPT ![p] = Request(v, a, n, valid)]
  /\ UNCHANGED <<groutVars, ipam, lock, conn, locals, err, faults>>

\* Until ADD returns success the runtime owes the attachment a DEL.
InvokeAdd(p, a) ==
  /\ rt[a] = "absent" /\ ~Busy(a) /\ Running({"GC"}) = {}
  /\ Invoke(p, "ADD", a, NetOf[a], {})
  /\ rt' = [rt EXCEPT ![a] = "failed"]
  /\ lost' = lost \ {a}

\* A DEL may be repeated, also for an attachment that is gone.
InvokeDel(p, a) ==
  /\ ~Busy(a) /\ Running({"GC"}) = {}
  /\ Invoke(p, "DEL", a, NetOf[a], {})
  /\ rt' = [rt EXCEPT ![a] = "failed"]
  /\ UNCHANGED lost

InvokeCheck(p, a) ==
  /\ rt[a] = "attached" /\ ~Busy(a)
  /\ Invoke(p, "CHECK", a, NetOf[a], {})
  /\ UNCHANGED <<rt, lost>>

InvokeGC(p, n) ==
  /\ Running({"ADD", "DEL", "GC"}) = {}
  /\ Invoke(p, "GC", None, n, {a \in Attachments : NetOf[a] = n /\ rt[a] = "attached"})
  /\ UNCHANGED <<rt, lost>>

InvokeStatus(p, n) ==
  /\ Invoke(p, "STATUS", None, n, {})
  /\ UNCHANGED <<rt, lost>>

-----------------------------------------------------------------------------
(* cmdAdd, cmdDel, cmdCheck, cmdGC, cmdStatus: dial, handler, close.       *)

Dial(p) ==
  /\ pc[p] = "dial"
  /\ \/ /\ groutUp
        /\ conn' = [conn EXCEPT ![p] = "open"]
        /\ Goto(p, IF req[p].verb = "STATUS" THEN "exit" ELSE "lock")
        /\ UNCHANGED <<err, faults>>
     \/ /\ \/ ~groutUp /\ UNCHANGED faults
           \/ groutUp /\ Fault("dial")
        /\ Fail(p, "exit")
        /\ UNCHANGED conn
  /\ UNCHANGED <<groutVars, hostVars, lock, req, locals>>

Handler == [ADD |-> "a_ipam", DEL |-> "d_list", CHECK |-> "c_list", GC |-> "g_list"]

\* Mutant: the lock is not waited for.
AcquireAnyway(p) ==
  /\ pc[p] = "lock"
  /\ lock' = p
  /\ Goto(p, Handler[req[p].verb])
  /\ UNCHANGED <<groutVars, hostVars, req, conn, locals, err, faults>>

\* NewFileLock and Lock (refined in module FileLock).
Acquire(p) ==
  /\ pc[p] = "lock" /\ lock = None
  /\ lock' = p
  /\ Goto(p, Handler[req[p].verb])
  /\ UNCHANGED <<groutVars, hostVars, req, conn, locals, err, faults>>

\* The lock file cannot be opened, or the wait for it times out.
LockFails(p) ==
  /\ pc[p] = "lock"
  /\ Fault("lock")
  /\ Fail(p, "exit")
  /\ UNCHANGED <<groutVars, hostVars, procVars, locals>>

\* The deferred Unlock and Close when the handler returns.
Unlock(p) ==
  /\ pc[p] = "ret"
  /\ lock' = None
  /\ Goto(p, "exit")
  /\ UNCHANGED <<groutVars, hostVars, req, conn, locals, err, faults>>

\* The process is gone: connection closed, its memory with it.
Gone(p) ==
  /\ Goto(p, "idle")
  /\ conn' = [conn EXCEPT ![p] = "closed"]
  /\ req' = [req EXCEPT ![p] = NoRequest]
  /\ br' = [br EXCEPT ![p] = 0]
  /\ port' = [port EXCEPT ![p] = 0]
  /\ gws' = [gws EXCEPT ![p] = {}]
  /\ todo' = [todo EXCEPT ![p] = {}]
  /\ err' = [err EXCEPT ![p] = FALSE]

\* The connection is closed and the runtime gets the result.
Exit(p) ==
  /\ pc[p] = "exit"
  /\ Gone(p)
  /\ rt' = [a \in Attachments |->
              IF a # req[p].att \/ err[p] THEN rt[a]
              ELSE CASE req[p].verb = "ADD" -> "attached"
                     [] req[p].verb = "DEL" -> "absent"
                     [] OTHER -> rt[a]]
  /\ UNCHANGED <<groutVars, ipam, lock, lost, faults>>

-----------------------------------------------------------------------------
(* HandleAdd                                                               *)

\* Gateways still to be added, else the port.
AfterGateway(left) == IF left = {} THEN "a_port" ELSE "a_addr"

\* ensureBridge returned id b.
BridgeReady(p, b) ==
  /\ br' = [br EXCEPT ![p] = b]
  /\ Goto(p, AfterGateway(gws[p]))
  /\ UNCHANGED err

\* The IPAM ADD and the conversion of its result; a result that does not
\* convert leaves the reservation in place.
AddIpam(p) ==
  /\ pc[p] = "a_ipam"
  /\ \/ /\ ipam' = ipam \union {req[p].att}
        /\ gws' = [gws EXCEPT ![p] = Gateways[req[p].net]]
        /\ Goto(p, "a_list")
        /\ UNCHANGED <<err, faults>>
     \/ /\ Fault("ipamadd")
        /\ Fail(p, "ret")
        /\ UNCHANGED <<ipam, gws>>
     \/ /\ Fault("convert")
        /\ Fail(p, "ret")
        /\ ipam' = ipam \union {req[p].att}
        /\ UNCHANGED gws
  /\ UNCHANGED <<groutVars, rt, lost, procVars, br, port, todo>>

\* ensureBridge, 1: the bridge is looked up by name and type.
EnsureBridgeList(p) ==
  /\ pc[p] = "a_list"
  /\ \/ /\ Listed(p)
        /\ \/ \E b \in findBridgeID(Bridge[req[p].net]) : BridgeReady(p, b)
           \/ /\ findBridgeID(Bridge[req[p].net]) = {}
              /\ Goto(p, "a_mkbr")
              /\ UNCHANGED <<br, err>>
     \/ Refused(p, "list", FALSE) /\ Fail(p, "ipamdel") /\ UNCHANGED br
  /\ UNCHANGED <<groutUp, hostVars, procVars, port, gws, todo>>

\* Mutant: the request for the bridge carries no name.
EnsureBridgeUnnamed(p) ==
  /\ pc[p] = "a_mkbr"
  /\ Served(p)
  /\ \E i \in Ids : AddBridge(i, "") /\ BridgeReady(p, i)
  /\ UNCHANGED <<groutUp, hostVars, procVars, port, gws, todo>>

\* ensureBridge, 2: it is not there and is created.
EnsureBridgeCreate(p) ==
  /\ pc[p] = "a_mkbr"
  /\ \/ /\ Served(p)
        /\ \E i \in Ids : AddBridge(i, Bridge[req[p].net]) /\ BridgeReady(p, i)
     \/ /\ Refused(p, "add", \A i \in Ids : ~CanAdd(i, Bridge[req[p].net], 0))
        /\ Goto(p, "a_relist")
        /\ UNCHANGED <<br, err>>
  /\ UNCHANGED <<groutUp, hostVars, procVars, port, gws, todo>>

\* ensureBridge, 3: the creation failed, and any interface of that name will do.
EnsureBridgeRelist(p) ==
  /\ pc[p] = "a_relist"
  /\ \/ /\ Listed(p)
        /\ \/ \E b \in findByName(Bridge[req[p].net]) : BridgeReady(p, b)
           \/ findByName(Bridge[req[p].net]) = {} /\ Fail(p, "ipamdel") /\ UNCHANGED br
     \/ Refused(p, "list", FALSE) /\ Fail(p, "ipamdel") /\ UNCHANGED br
  /\ UNCHANGED <<groutUp, hostVars, procVars, port, gws, todo>>

\* One AddressAdd (ExistOK) per gateway; an error leaves the bridge behind.
AddGateway(p) ==
  /\ pc[p] = "a_addr"
  /\ \/ /\ Served(p)
        /\ \E g \in gws[p] :
             /\ SetAddrs(br[p], iface[br[p]].addrs \union {g})
             /\ gws' = [gws EXCEPT ![p] = gws[p] \ {g}]
             /\ Goto(p, AfterGateway(gws[p] \ {g}))
        /\ UNCHANGED err
     \/ Refused(p, "addr", ~Exists(br[p])) /\ Fail(p, "ipamdel") /\ UNCHANGED gws
  /\ UNCHANGED <<groutUp, hostVars, procVars, br, port, todo>>

\* The socket directory (virtio only) and the port.  A virtio call, or one
\* without a netns, is then done.
AddPodPort(p) ==
  /\ pc[p] = "a_port"
  /\ \/ /\ Served(p)
        /\ \E i \in Ids :
             /\ AddPort(i, MyName(p), br[p], Virtio(p))
             /\ port' = [port EXCEPT ![p] = i]
        /\ Goto(p, IF Virtio(p) \/ req[p].att \in NoNetns THEN "ret" ELSE "a_move")
        /\ UNCHANGED err
     \/ /\ Refused(p, "add", \A i \in Ids : ~CanAdd(i, MyName(p), br[p]))
        /\ Fail(p, "ipamdel")
        /\ UNCHANGED port
     \/ /\ Virtio(p) /\ Fault("mkdir")
        /\ Fail(p, "ipamdel")
        /\ UNCHANGED <<iface, link, socks, port>>
  /\ UNCHANGED <<groutUp, hostVars, procVars, br, gws, todo>>

\* Mutant: the error path only releases the reservation.
NetdevStepNoRollback(p, s, t, kind, next) ==
  /\ \/ /\ link[MyName(p)] = s
        /\ link' = [link EXCEPT ![MyName(p)] = t]
        /\ Goto(p, next)
        /\ UNCHANGED <<err, faults>>
     \/ /\ Fault(kind)
        /\ Fail(p, "ipamdel")
        /\ UNCHANGED link
  /\ UNCHANGED <<iface, socks, groutUp, hostVars, procVars, locals>>

\* A step on the netdev of p's TAP port, from state s to state t.
NetdevStep(p, s, t, kind, next) ==
  /\ \/ /\ link[MyName(p)] = s
        /\ link' = [link EXCEPT ![MyName(p)] = t]
        /\ Goto(p, next)
        /\ UNCHANGED <<err, faults>>
     \/ /\ \/ link[MyName(p)] # s /\ UNCHANGED faults
           \/ link[MyName(p)] = s /\ Fault(kind)
        /\ Fail(p, "a_rollback")
        /\ UNCHANGED link
  /\ UNCHANGED <<iface, socks, groutUp, hostVars, procVars, locals>>

moveLinkToNamespace(p) ==
  pc[p] = "a_move" /\ NetdevStep(p, "host", "pod", "move", "a_conf")

configurePodInterface(p) ==
  pc[p] = "a_conf" /\ NetdevStep(p, "pod", "up", "conf", "ret")

\* InterfaceDel of id i, whose failure is only logged.
TryDel(p, i) ==
  \/ Served(p) /\ DelIface(i)
  \/ Refused(p, "del", ~CanDel(i))

\* cleanupAfterAddFailure: the port is deleted, the bridge is not.
cleanupAfterAddFailure(p) ==
  /\ pc[p] = "a_rollback"
  /\ TryDel(p, port[p])
  /\ Goto(p, "ipamdel")
  /\ UNCHANGED <<groutUp, hostVars, procVars, locals, err>>

\* ipamDel, shared by the error paths of ADD and by DEL; a failure is logged.
ipamDel(p) ==
  /\ pc[p] = "ipamdel"
  /\ \/ ipam' = ipam \ {req[p].att} /\ UNCHANGED faults
     \/ Fault("ipamdel") /\ UNCHANGED ipam
  /\ Goto(p, "ret")
  /\ UNCHANGED <<groutVars, rt, lost, procVars, locals, err>>

-----------------------------------------------------------------------------
(* HandleDel                                                               *)

\* Mutant: without a port DEL returns at once.
DelListReturnsEarly(p) ==
  /\ pc[p] = "d_list"
  /\ \/ /\ Listed(p)
        /\ \/ \E i \in findByName(MyName(p)) :
                /\ port' = [port EXCEPT ![p] = i]
                /\ br' = [br EXCEPT ![p] = iface[i].domain]
                /\ Goto(p, "d_del")
           \/ findByName(MyName(p)) = {} /\ Goto(p, "ret") /\ UNCHANGED <<port, br>>
        /\ UNCHANGED err
     \/ Refused(p, "list", FALSE) /\ Fail(p, "ret") /\ UNCHANGED <<port, br>>
  /\ UNCHANGED <<groutUp, hostVars, procVars, gws, todo>>

DelList(p) ==
  /\ pc[p] = "d_list"
  /\ \/ /\ Listed(p)
        /\ \/ \E i \in findByName(MyName(p)) :
                /\ port' = [port EXCEPT ![p] = i]
                /\ br' = [br EXCEPT ![p] = iface[i].domain]
                /\ Goto(p, "d_del")
           \/ /\ findByName(MyName(p)) = {}
              /\ Goto(p, "ipamdel")
              /\ UNCHANGED <<port, br>>
        /\ UNCHANGED err
     \/ Refused(p, "list", FALSE) /\ Fail(p, "ret") /\ UNCHANGED <<port, br>>
  /\ UNCHANGED <<groutUp, hostVars, procVars, gws, todo>>

DelPort(p) ==
  /\ pc[p] = "d_del"
  /\ TryDel(p, port[p])
  /\ Goto(p, "d_sock")
  /\ UNCHANGED <<groutUp, hostVars, procVars, locals, err>>

\* Mutant: the socket file is left.
socketKept(n) == UNCHANGED <<iface, link, socks, faults>>

\* Remove the socket file of port n; a failure is logged.
removeVhostSocket(n) ==
  /\ \/ socks' = socks \ {n} /\ UNCHANGED faults
     \/ n \in socks /\ Fault("unlink") /\ UNCHANGED socks
  /\ UNCHANGED <<iface, link>>

\* Mutant: DEL does not look at the bridge.
DelSocketNoBridgeGC(p) ==
  /\ pc[p] = "d_sock"
  /\ removeVhostSocket(MyName(p))
  /\ Goto(p, "ipamdel")
  /\ UNCHANGED <<groutUp, hostVars, procVars, locals, err>>

DelSocket(p) ==
  /\ pc[p] = "d_sock"
  /\ removeVhostSocket(MyName(p))
  /\ Goto(p, IF br[p] # 0 THEN "b_list" ELSE "ipamdel")
  /\ UNCHANGED <<groutUp, hostVars, procVars, locals, err>>

-----------------------------------------------------------------------------
(* gcBridgeIfEmpty, called by DEL and GC; every failure in it is logged.   *)

\* Mutant: the members of the bridge are not looked at.
BridgeFound(b) == IsBridge(b)

\* The bridge is there, is a bridge, and no interface names it as its domain.
BridgeEmpty(b) == IsBridge(b) /\ Members(b) = {}

AfterBridgeGC(p) == IF req[p].verb = "DEL" THEN "ipamdel" ELSE "g_ipam"

BridgeGCList(p) ==
  /\ pc[p] = "b_list"
  /\ \/ /\ Listed(p)
        /\ Goto(p, IF BridgeEmpty(br[p]) THEN "b_flush4" ELSE AfterBridgeGC(p))
     \/ Refused(p, "list", FALSE) /\ Goto(p, AfterBridgeGC(p))
  /\ UNCHANGED <<groutUp, hostVars, procVars, locals, err>>

\* AddressFlush is two requests; when the first fails the second is not sent.
BridgeGCFlush4(p) ==
  /\ pc[p] = "b_flush4"
  /\ \/ /\ Served(p)
        /\ SetAddrs(br[p], iface[br[p]].addrs \intersect V6)
        /\ Goto(p, "b_flush6")
     \/ Refused(p, "flush", ~Exists(br[p])) /\ Goto(p, "b_del")
  /\ UNCHANGED <<groutUp, hostVars, procVars, locals, err>>

BridgeGCFlush6(p) ==
  /\ pc[p] = "b_flush6"
  /\ \/ Served(p) /\ SetAddrs(br[p], iface[br[p]].addrs \ V6)
     \/ Refused(p, "flush", ~Exists(br[p]))
  /\ Goto(p, "b_del")
  /\ UNCHANGED <<groutUp, hostVars, procVars, locals, err>>

BridgeGCDel(p) ==
  /\ pc[p] = "b_del"
  /\ TryDel(p, br[p])
  /\ Goto(p, AfterBridgeGC(p))
  /\ UNCHANGED <<groutUp, hostVars, procVars, locals, err>>

-----------------------------------------------------------------------------
(* HandleCheck                                                             *)

\* Mutant: a missing port is tolerated.
CheckListTolerant(p) ==
  /\ pc[p] = "c_list"
  /\ Listed(p)
  /\ Goto(p, IF findByName(MyName(p)) # {} THEN "c_pod" ELSE "ret")
  /\ UNCHANGED <<groutUp, hostVars, procVars, locals, err>>

CheckList(p) ==
  /\ pc[p] = "c_list"
  /\ \/ /\ Listed(p)
        /\ \/ /\ findByName(MyName(p)) # {}
              /\ Goto(p, IF ~Virtio(p) /\ req[p].att \in NoNetns THEN "ret" ELSE "c_pod")
              /\ UNCHANGED err
           \/ findByName(MyName(p)) = {} /\ Fail(p, "ret")
     \/ Refused(p, "list", FALSE) /\ Fail(p, "ret")
  /\ UNCHANGED <<groutUp, hostVars, procVars, locals>>

\* The socket file of a virtio port exists; the netdev of a TAP port is in the
\* pod and up, with the addresses of prevResult (verifyPodInterface).
PodSideOK(p) ==
  IF Virtio(p) THEN MyName(p) \in socks ELSE link[MyName(p)] = "up"

\* A prevResult that does not parse is an error of the TAP path.
CheckPodSide(p) ==
  /\ pc[p] = "c_pod"
  /\ \/ PodSideOK(p) /\ Goto(p, "ret") /\ UNCHANGED <<err, faults>>
     \/ ~PodSideOK(p) /\ Fail(p, "ret") /\ UNCHANGED faults
     \/ ~Virtio(p) /\ Fault("prevresult") /\ Fail(p, "ret")
  /\ UNCHANGED <<groutVars, hostVars, procVars, locals>>

-----------------------------------------------------------------------------
(* HandleGC                                                                *)

\* Mutants: a test of the loop is missing, or the loop.
StaleAndValidPorts(b, valid) ==
  {t \in Ids \X PortNames : iface[t[1]].domain = b /\ iface[t[1]].name = t[2]}

StalePortsAnyBridge(b, valid) ==
  {t \in Ids \X PortNames :
     iface[t[1]].name = t[2] /\ t[2] \notin {PortName[a] : a \in valid}}

StaleMembers(b, valid) ==
  {t \in Ids \X Names :
     /\ iface[t[1]].domain = b
     /\ iface[t[1]].name = t[2]
     /\ t[2] \notin {PortName[a] : a \in valid}}

NoStalePorts(b, valid) == {}

\* Ports of the plugin on bridge b that the runtime does not list as valid.
StalePorts(b, valid) ==
  {t \in Ids \X PortNames :
     /\ iface[t[1]].domain = b
     /\ iface[t[1]].name = t[2]
     /\ t[2] \notin {PortName[a] : a \in valid}}

\* The next stale port, else the bridge if a port was reaped, else the IPAM GC.
AfterReap(stale, reaped) ==
  IF stale # {} THEN "g_reap" ELSE IF reaped THEN "b_list" ELSE "g_ipam"

\* Mutant: without a bridge GC returns at once.
GCListReturnsEarly(p) ==
  /\ pc[p] = "g_list"
  /\ \/ /\ Listed(p)
        /\ \/ \E b \in findBridgeID(Bridge[req[p].net]) :
                /\ br' = [br EXCEPT ![p] = b]
                /\ todo' = [todo EXCEPT ![p] = StalePorts(b, req[p].valid)]
                /\ Goto(p, AfterReap(StalePorts(b, req[p].valid), FALSE))
           \/ findBridgeID(Bridge[req[p].net]) = {} /\ Goto(p, "ret") /\ UNCHANGED <<br, todo>>
        /\ UNCHANGED err
     \/ Refused(p, "list", FALSE) /\ Fail(p, "ret") /\ UNCHANGED <<br, todo>>
  /\ UNCHANGED <<groutUp, hostVars, procVars, port, gws>>

GCList(p) ==
  /\ pc[p] = "g_list"
  /\ \/ /\ Listed(p)
        /\ \/ \E b \in findBridgeID(Bridge[req[p].net]) :
                /\ br' = [br EXCEPT ![p] = b]
                /\ todo' = [todo EXCEPT ![p] = StalePorts(b, req[p].valid)]
                /\ Goto(p, AfterReap(StalePorts(b, req[p].valid), FALSE))
           \/ /\ findBridgeID(Bridge[req[p].net]) = {}
              /\ Goto(p, "g_ipam")
              /\ UNCHANGED <<br, todo>>
        /\ UNCHANGED err
     \/ Refused(p, "list", FALSE) /\ Fail(p, "ret") /\ UNCHANGED <<br, todo>>
  /\ UNCHANGED <<groutUp, hostVars, procVars, port, gws>>

\* A port that cannot be deleted is skipped.
GCReap(p) ==
  /\ pc[p] = "g_reap"
  /\ \E t \in todo[p] :
       \/ /\ Served(p) /\ DelIface(t[1])
          /\ port' = [port EXCEPT ![p] = t[1]]
          /\ Goto(p, "g_sock")
          /\ UNCHANGED todo
       \/ /\ Refused(p, "del", ~CanDel(t[1]))
          /\ todo' = [todo EXCEPT ![p] = todo[p] \ {t}]
          /\ Goto(p, AfterReap(todo[p] \ {t}, port[p] # 0))
          /\ UNCHANGED port
  /\ UNCHANGED <<groutUp, hostVars, procVars, br, gws, err>>

\* The socket of the port just reaped.
GCSocket(p) ==
  /\ pc[p] = "g_sock"
  /\ \E t \in todo[p] :
       /\ t[1] = port[p]
       /\ removeVhostSocket(t[2])
       /\ todo' = [todo EXCEPT ![p] = todo[p] \ {t}]
       /\ Goto(p, AfterReap(todo[p] \ {t}, TRUE))
  /\ UNCHANGED <<groutUp, hostVars, procVars, br, port, gws, err>>

\* gcIPAM: the IPAM plugin frees the network's reservations that are not valid.
gcIPAM(p) ==
  /\ pc[p] = "g_ipam"
  /\ \/ /\ ipam' = {a \in ipam : NetOf[a] = req[p].net => a \in req[p].valid}
        /\ UNCHANGED faults
     \/ Fault("ipamgc") /\ UNCHANGED ipam
  /\ Goto(p, "ret")
  /\ UNCHANGED <<groutVars, rt, lost, procVars, locals, err>>

-----------------------------------------------------------------------------
(* Failures around the plugin                                              *)

\* Mutant: the lock outlives the process.
KillKeepsLock(p) ==
  /\ pc[p] # "idle"
  /\ Fault("kill")
  /\ Gone(p)
  /\ UNCHANGED <<groutVars, hostVars, lock>>

\* The process dies at any point; the kernel closes its descriptors, which
\* drops the connection and the flock.
Kill(p) ==
  /\ pc[p] # "idle"
  /\ Fault("kill")
  /\ Gone(p)
  /\ lock' = IF lock = p THEN None ELSE lock
  /\ UNCHANGED <<groutVars, hostVars>>

\* grout dies; a process connected to it keeps a connection that only fails.
GroutCrash ==
  /\ Crash
  /\ Fault("crash")
  /\ conn' = [p \in Procs |-> IF conn[p] = "open" THEN "dead" ELSE conn[p]]
  /\ lost' = Attachments
  /\ UNCHANGED <<ipam, rt, lock, pc, req, locals, err>>

GroutRestart == Restart /\ UNCHANGED <<hostVars, procVars, pc, locals, err, faults>>

\* What becomes of a handler when grout carries its request out and it gets an
\* error all the same: InterfaceAdd of the bridge and of the port, AddressAdd,
\* InterfaceDel, AddressFlush.
BridgeUnheard(p) ==
  /\ pc[p] = "a_mkbr"
  /\ \E i \in Ids : AddBridge(i, Bridge[req[p].net])
  /\ Goto(p, "a_relist")
  /\ UNCHANGED <<todo, err>>

GatewayUnheard(p) ==
  /\ pc[p] = "a_addr"
  /\ \E g \in gws[p] : SetAddrs(br[p], iface[br[p]].addrs \union {g})
  /\ Fail(p, "ipamdel")
  /\ UNCHANGED todo

PortUnheard(p) ==
  /\ pc[p] = "a_port"
  /\ \E i \in Ids : AddPort(i, MyName(p), br[p], Virtio(p))
  /\ Fail(p, "ipamdel")
  /\ UNCHANGED todo

DelUnheard(p) ==
  /\ pc[p] \in {"a_rollback", "d_del"}
  /\ DelIface(port[p])
  /\ Goto(p, IF pc[p] = "d_del" THEN "d_sock" ELSE "ipamdel")
  /\ UNCHANGED <<todo, err>>

FlushUnheard(p) ==
  /\ pc[p] \in {"b_flush4", "b_flush6"}
  /\ SetAddrs(br[p], IF pc[p] = "b_flush4" THEN iface[br[p]].addrs \intersect V6
                     ELSE iface[br[p]].addrs \ V6)
  /\ Goto(p, "b_del")
  /\ UNCHANGED <<todo, err>>

BridgeDelUnheard(p) ==
  /\ pc[p] = "b_del"
  /\ DelIface(br[p])
  /\ Goto(p, AfterBridgeGC(p))
  /\ UNCHANGED <<todo, err>>

ReapUnheard(p) ==
  /\ pc[p] = "g_reap"
  /\ \E t \in todo[p] :
       /\ DelIface(t[1])
       /\ todo' = [todo EXCEPT ![p] = todo[p] \ {t}]
       /\ Goto(p, AfterReap(todo[p] \ {t}, port[p] # 0))
  /\ UNCHANGED err

\* The connection breaks between a request and its reply (Rpc!Fail after
\* Rpc!Execute).
ReplyLost(p) ==
  /\ conn[p] = "open"
  /\ Fault("lost")
  /\ \/ BridgeUnheard(p) \/ GatewayUnheard(p) \/ PortUnheard(p) \/ DelUnheard(p)
     \/ FlushUnheard(p) \/ BridgeDelUnheard(p) \/ ReapUnheard(p)
  /\ conn' = [conn EXCEPT ![p] = "dead"]
  /\ UNCHANGED <<groutUp, hostVars, lock, req, br, port, gws>>

\* Something in the pod takes the netdev down, or up again.
NetdevDrift(a) ==
  /\ Fault("drift")
  /\ \/ link[PortName[a]] = "up" /\ link' = [link EXCEPT ![PortName[a]] = "pod"]
     \/ /\ link[PortName[a]] = "pod" /\ rt[a] = "attached"
        /\ link' = [link EXCEPT ![PortName[a]] = "up"]
  /\ lost' = lost \union {a}
  /\ UNCHANGED <<iface, socks, groutUp, ipam, rt, procVars, pc, locals, err>>

ForeignStep ==
  /\ \E i \in Ids : ForeignDel(i) \/ \E f \in Foreign : ForeignAdd(f, i)
  /\ UNCHANGED <<hostVars, procVars, pc, locals, err, faults>>

-----------------------------------------------------------------------------
HandleAdd(p) ==
  \/ AddIpam(p) \/ EnsureBridgeList(p) \/ EnsureBridgeCreate(p) \/ EnsureBridgeRelist(p)
  \/ AddGateway(p) \/ AddPodPort(p) \/ moveLinkToNamespace(p) \/ configurePodInterface(p)
  \/ cleanupAfterAddFailure(p) \/ ipamDel(p)

HandleDel(p) == DelList(p) \/ DelPort(p) \/ DelSocket(p)

gcBridgeIfEmpty(p) ==
  BridgeGCList(p) \/ BridgeGCFlush4(p) \/ BridgeGCFlush6(p) \/ BridgeGCDel(p)

HandleCheck(p) == CheckList(p) \/ CheckPodSide(p)

HandleGC(p) == GCList(p) \/ GCReap(p) \/ GCSocket(p) \/ gcIPAM(p)

\* Process p takes one step of its own.
Step(p) ==
  \/ Dial(p) \/ Acquire(p) \/ LockFails(p) \/ Unlock(p) \/ Exit(p)
  \/ HandleAdd(p) \/ HandleDel(p) \/ gcBridgeIfEmpty(p) \/ HandleCheck(p) \/ HandleGC(p)

Runtime(p) ==
  \/ \E a \in Attachments : InvokeAdd(p, a) \/ InvokeDel(p, a) \/ InvokeCheck(p, a)
  \/ \E n \in Networks : InvokeGC(p, n) \/ InvokeStatus(p, n)

Environment ==
  \/ \E p \in Procs : Kill(p) \/ ReplyLost(p)
  \/ GroutCrash \/ GroutRestart \/ ForeignStep
  \/ \E a \in Attachments : NetdevDrift(a)

Next == (\E p \in Procs : Step(p) \/ Runtime(p)) \/ Environment

Spec == Init /\ [][Next]_vars

\* A process that can go on does, the kernel grants the flock to a waiter that
\* keeps finding it free, and a dead grout is restarted by its DaemonSet.
Fairness ==
  /\ \A p \in Procs : WF_vars(Step(p)) /\ SF_vars(Acquire(p))
  /\ WF_vars(GroutRestart)

\* The runtime repeats a DEL that failed, and runs GC from time to time.
RuntimeFairness ==
  /\ \A a \in Attachments : SF_vars(rt[a] = "failed" /\ \E p \in Procs : InvokeDel(p, a))
  /\ \A n \in Networks : SF_vars(\E p \in Procs : InvokeGC(p, n))

-----------------------------------------------------------------------------
(* Properties                                                              *)

\* The flock serialises the handlers: a process is between Lock and Unlock
\* exactly when it is the holder, whatever processes are killed on the way.
LockOwnership == \A p \in Procs : pc[p] \in Critical <=> lock = p

\* While a handler holds the lock, no other process changes what the plugin keeps:
\* its interfaces in grout, the reservations, the socket files.  What a handler has
\* read of them stays true between its requests, unless grout dies.
NoInterference ==
  [][\A p \in Procs :
       lock = p /\ groutUp' = groutUp
         /\ pc'[p] = pc[p] /\ gws'[p] = gws[p] /\ todo'[p] = todo[p]
       => /\ ipam' = ipam /\ socks' = socks
          /\ \A i \in Ids : "cni" \in {iface[i].owner, iface'[i].owner} => iface'[i] = iface[i]]_vars

\* No port of the plugin is ever left in the domain of an interface that is not
\* a bridge: gcBridgeIfEmpty lists, flushes and deletes in separate requests, and
\* grout hands the id of a deleted bridge out again.
NoStrandedPort ==
  \A i \in Ids : iface[i].owner = "cni" /\ iface[i].domain # 0 => IsBridge(iface[i].domain)

\* What HandleAdd set up for attachment a is all there.
Intact(a) ==
  /\ \E i \in Named(PortName[a]) :
       /\ IsBridge(iface[i].domain)
       /\ iface[iface[i].domain].name = Bridge[NetOf[a]]
       /\ Gateways[NetOf[a]] \subseteq iface[iface[i].domain].addrs
  /\ a \in ipam
  /\ IF NetOf[a] \in VirtioNets THEN PortName[a] \in socks
     ELSE link[PortName[a]] = IF a \in NoNetns THEN "host" ELSE "up"

\* From a successful ADD to the DEL nothing the plugin does for any attachment
\* takes away the port, the bridge, the gateways, the netdev or socket or the
\* reservation; only a grout crash or a change inside the pod can.
AttachedIntact == \A a \in Attachments : rt[a] = "attached" /\ a \notin lost => Intact(a)

\* Once DEL succeeded neither the port nor the reservation of the attachment is
\* left, whatever was killed, lost or rolled back before.
NoLeakAfterDel ==
  \A a \in Attachments :
    rt[a] = "absent" => Named(PortName[a]) = {} /\ a \notin ipam

\* Nor is the vhost-user socket file, whose path DEL can recompute.
NoSocketLeak == \A a \in Attachments : rt[a] = "absent" => PortName[a] \notin socks

\* An ADD that returns an error has released its reservation and removed its
\* port, also when grout died half way.
FailedAddRollsBack ==
  \A p \in Procs :
    pc[p] = "ret" /\ req[p].verb = "ADD" /\ err[p]
      => req[p].att \notin ipam /\ Named(MyName(p)) = {}

\* DEL and GC leave a bridge of the plugin behind only while it has members.
NoEmptyBridge ==
  lock = None =>
    \A b \in Ids : IsBridge(b) /\ iface[b].owner = "cni" => Members(b) # {}

\* GC of a network only reaps ports of that network's attachments.
GCScopedToNetwork ==
  \A p \in Procs : \A t \in todo[p] : \A a \in Attachments :
    PortName[a] = t[2] => NetOf[a] = req[p].net

\* A step of a DEL or GC handler leaves every interface that somebody else
\* created in grout as it is.
ForeignUntouched ==
  [][(\E p \in Procs : pc'[p] # pc[p] /\ req[p].verb \in {"DEL", "GC"})
       => \A i \in Ids : iface[i].owner = "other" => iface'[i] = iface[i]]_vars

\* CHECK answers truthfully.  Success: the pod side is there, and so is the port,
\* except that a virtio socket outlives a grout that dies after the list.  An error
\* that no failing request explains: one of the two is missing, or grout died.
CheckTruthful ==
  [][\A p \in Procs :
       req[p].verb = "CHECK" /\ pc[p] \in {"c_list", "c_pod"} /\ pc'[p] = "ret"
       => LET podSide == PodSideOK(p) \/ (~Virtio(p) /\ req[p].att \in NoNetns)
              portThere == Named(MyName(p)) # {}
          IN /\ ~err'[p] => podSide /\ (portThere \/ (Virtio(p) /\ conn[p] = "dead"))
             /\ err'[p] /\ faults' = faults => ~podSide \/ ~portThere \/ conn[p] = "dead"]_vars

\* Every call returns: no handler waits for the lock for ever, as long as grout and
\* the IPAM plugin answer, or break the connection, and so every holder goes on.
CallsReturn == \A p \in Procs : pc[p] # "idle" ~> pc[p] = "idle"

\* With DEL repeated and GC run, an attachment whose ADD did not succeed, or
\* whose DEL began, is either attached in the end or has nothing left: no port
\* and no reservation, also when a request of the cleanup itself failed.
LeftoversReleased ==
  \A a \in Attachments :
    rt[a] = "failed" ~>
      (rt[a] = "attached" \/ (Named(PortName[a]) = {} /\ a \notin ipam))
=============================================================================
