--------------------------- MODULE NoLeak_proofs ---------------------------
(***************************************************************************)
(* A DEL that succeeds leaves neither the port nor the reservation nor the *)
(* socket file of its attachment, and an ADD that fails neither port nor   *)
(* reservation, for every number of processes, attachments, networks and   *)
(* failures, as long as the deletes they ask for are carried out.  The     *)
(* strengthening follows the two handlers: what is already gone, and by    *)
(* which id the rest is deleted.                                           *)
(***************************************************************************)
EXTENDS GroutCNI_proofs

\* InterfaceDel of an existing port succeeds, and so does the IPAM DEL: HandleDel
\* and the error paths of HandleAdd only log their failures.
PortsDeleted == "del" \notin FaultKinds

ReliableDel == FaultKinds \intersect {"del", "ipamdel"} = {}

\* No reply is lost, and the IPAM result converts: on these errors HandleAdd
\* returns without undoing what has been done.
RepliesHeard == "lost" \notin FaultKinds

ReliableAdd == FaultKinds \intersect {"convert", "lost"} = {}

Clean(a) == Named(PortName[a]) = {} /\ (ReliableDel => a \notin ipam)

\* A port of the plugin is the only one of its name, and without addresses.
OnePort == \A n \in PortNames : \A i, j \in Named(n) : i = j

BarePorts == \A i \in Ids : iface[i].name \in PortNames => iface[i].addrs = {}

AbsentClean == \A a \in Attachments : rt[a] = "absent" => Clean(a)

\* The port of p's attachment is gone, or p can delete it by the id it has.
Held(p) ==
  \/ Named(MyName(p)) = {}
  \/ conn[p] = "open" /\ Named(MyName(p)) = {port[p]}

\* No ADD gives addresses to a port.
Aimed(p) ==
  pc[p] = "a_addr" /\ conn[p] = "open" => br[p] \in Ids /\ iface[br[p]].name \notin PortNames

\* How far a DEL has come.
Cleaning(p) ==
  req[p].verb = "DEL" =>
    /\ pc[p] = "d_del" => Held(p)
    /\ pc[p] \in {"d_sock", "b_list", "b_flush4", "b_flush6", "b_del", "ipamdel"} =>
         Named(MyName(p)) = {}
    /\ pc[p] \in {"ret", "exit"} /\ ~err[p] => Clean(req[p].att)

\* What an ADD has to undo.
Rolling(p) ==
  /\ pc[p] \in {"idle", "dial", "lock", "a_ipam", "a_list", "a_mkbr", "a_relist", "a_addr",
                "a_port", "a_move", "a_conf"} => ~err[p]
  /\ req[p].verb = "ADD" =>
       /\ pc[p] \in {"dial", "lock", "a_ipam"} => Clean(req[p].att)
       /\ pc[p] \in {"a_list", "a_mkbr", "a_relist", "a_addr", "a_port", "ipamdel"} =>
            Named(MyName(p)) = {}
       /\ pc[p] \in {"a_move", "a_conf", "a_rollback"} => Held(p)
       /\ pc[p] = "ret" /\ err[p] =>
            /\ Named(MyName(p)) = {}
            /\ ReliableDel /\ ReliableAdd => req[p].att \notin ipam

LeakInv ==
  /\ PortInv /\ CallsApart /\ PortsDeleted
  /\ OnePort /\ BarePorts /\ AbsentClean
  /\ \A p \in Procs : Aimed(p) /\ Cleaning(p)
  /\ RepliesHeard => \A p \in Procs : Rolling(p)

-----------------------------------------------------------------------------
\* The initial state is clean.
LEMMA InitLeak == PortsDeleted /\ Init => LeakInv
<1> SUFFICES ASSUME PortsDeleted, Init PROVE LeakInv
  OBVIOUS
<1>1. \A n \in PortNames : Named(n) = {}
  BY GroutAssumption DEF Init, GroutInit, NoIface, Named
<1>2. OnePort /\ BarePorts /\ AbsentClean
  BY <1>1, GroutAssumption, CNIAssumption
  DEF Init, GroutInit, NoIface, OnePort, BarePorts, AbsentClean, Clean
<1>3. CallsApart
  BY CNIAssumption DEF Init, NoRequest, Request, CallsApart
<1>4. \A p \in Procs : Aimed(p) /\ Cleaning(p) /\ Rolling(p)
  BY DEF Init, NoRequest, Request, Aimed, Cleaning, Rolling
<1> QED
  BY <1>2, <1>3, <1>4, InitPort DEF LeakInv

\* The parts of the invariant, and the types, that the lemmas below use.
LEMMA LeakFacts ==
  ASSUME LeakInv
  PROVE  /\ PortInv /\ CoreInv /\ GroutTypeOK /\ PortsOK /\ CallsApart /\ PortsDeleted
         /\ OnePort /\ BarePorts /\ AbsentClean
         /\ pc \in [Procs -> Labels] /\ err \in [Procs -> BOOLEAN]
         /\ br \in [Procs -> Ids \union {0}] /\ port \in [Procs -> Ids \union {0}]
         /\ todo \in [Procs -> SUBSET (Ids \X PortNames)] /\ req \in [Procs -> Requests]
         /\ conn \in [Procs -> {"closed", "open", "dead"}]
         /\ rt \in [Attachments -> {"absent", "attached", "failed"}]
         /\ \A p \in Procs : /\ req[p].verb \in VerbsAt(pc[p]) /\ Learned(p)
                             /\ Aimed(p) /\ Cleaning(p)
BY DEF LeakInv, PortInv, CoreInv, TypeOK, CallOK

-----------------------------------------------------------------------------
\* No port called n appears.
NoNewPort(n) == Named(n)' \subseteq Named(n)

\* Ports stay the only ones of their names, and bare.
PortsNeat == (OnePort => OnePort') /\ (BarePorts => BarePorts')

\* The creation of a bridge,
LEMMA AddBridgeNeat ==
  ASSUME GroutTypeOK, NEW i \in Ids, NEW m \in Names \ PortNames, AddBridge(i, m)
  PROVE  PortsNeat /\ \A n \in PortNames : NoNewPort(n)
<1>1. \A j \in Ids : iface'[j].name \in PortNames => iface'[j] = iface[j]
  BY DEF GroutTypeOK, AddBridge, NewIface
<1>2. \A n \in PortNames : NoNewPort(n)
  BY <1>1 DEF NoNewPort, Named
<1> QED
  BY <1>1, <1>2 DEF PortsNeat, OnePort, BarePorts, NoNewPort

\* a delete,
LEMMA DelNeat ==
  ASSUME GroutTypeOK, NEW i, DelIface(i)
  PROVE  PortsNeat /\ \A n \in PortNames : NoNewPort(n)
<1>1. \A j \in Ids : iface'[j].name \in PortNames => iface'[j] = iface[j]
  BY GroutAssumption DEF GroutTypeOK, DelIface, NoIface
<1>2. \A n \in PortNames : NoNewPort(n)
  BY <1>1 DEF NoNewPort, Named
<1> QED
  BY <1>1, <1>2 DEF PortsNeat, OnePort, BarePorts, NoNewPort

\* a change of addresses that adds none to a port,
LEMMA SetAddrsNeat ==
  ASSUME GroutTypeOK, NEW i, NEW as, SetAddrs(i, as),
         iface[i].name \in PortNames => as \subseteq iface[i].addrs
  PROVE  PortsNeat /\ \A n \in PortNames : NoNewPort(n)
<1>1. \A j \in Ids : /\ iface'[j].name = iface[j].name
                     /\ iface[j].name \in PortNames => iface'[j].addrs \subseteq iface[j].addrs
  BY Zenon DEF GroutTypeOK, SetAddrs, NewIface
<1>2. \A n \in PortNames : NoNewPort(n)
  BY <1>1 DEF NoNewPort, Named
<1>3. BarePorts => BarePorts'
  BY <1>1 DEF BarePorts
<1> QED
  BY <1>2, <1>3 DEF PortsNeat, OnePort, NoNewPort

\* a step that leaves the table alone,
LEMMA SameNeat ==
  ASSUME UNCHANGED iface
  PROVE  PortsNeat /\ \A n \in PortNames : NoNewPort(n)
BY DEF PortsNeat, OnePort, BarePorts, NoNewPort, Named

\* and the creation of a port, which adds one of that name.
LEMMA AddPortNeat ==
  ASSUME GroutTypeOK, NEW i \in Ids, NEW m \in PortNames, NEW d, NEW v, AddPort(i, m, d, v)
  PROVE  /\ PortsNeat /\ Named(m) = {} /\ Named(m)' = {i}
         /\ \A n \in PortNames : n # m => NoNewPort(n)
<1>1. /\ \A j \in Ids : j # i => iface'[j] = iface[j]
      /\ iface'[i].name = m /\ iface'[i].addrs = {}
      /\ Named(m) = {}
  BY DEF GroutTypeOK, AddPort, NewIface, CanAdd
<1>2. Named(m)' = {i} /\ \A n \in PortNames : n # m => NoNewPort(n)
  BY <1>1 DEF NoNewPort, Named
<1>3. BarePorts => BarePorts'
  BY <1>1 DEF BarePorts
<1>4. OnePort => OnePort'
  <2> SUFFICES ASSUME OnePort, NEW n \in PortNames, NEW j \in Named(n)', NEW k \in Named(n)'
               PROVE  j = k
    BY DEF OnePort
  <2> QED
    BY <1>2 DEF OnePort, NoNewPort
<1> QED
  BY <1>1, <1>2, <1>3, <1>4 DEF PortsNeat

-----------------------------------------------------------------------------
\* Every handler step is one of these; only HandleAdd adds a port.
LEMMA HandlerNeat ==
  ASSUME LeakInv, NEW p \in Procs, HandlerStep(p)
  PROVE  /\ PortsNeat
         /\ \A n \in PortNames : NoNewPort(n) \/ (pc[p] = "a_port" /\ n = MyName(p))
<1>0. /\ CoreInv /\ GroutTypeOK /\ Aimed(p) /\ req[p].verb \in VerbsAt(pc[p])
  BY LeakFacts
<1>1. CASE UNCHANGED iface
  BY <1>1, SameNeat
<1>2. CASE EnsureBridgeCreate(p)
  <2>1. Bridge[req[p].net] \in Names \ PortNames
    BY <1>0, <1>2, CallFacts, CNIAssumption DEF EnsureBridgeCreate, VerbsAt
  <2> QED
    BY <1>0, <1>1, <1>2, <2>1, AddBridgeNeat, Zenon DEF EnsureBridgeCreate, Refused
<1>3. CASE AddGateway(p)
  <2>1. conn[p] = "open" => iface[br[p]].name \notin PortNames
    BY <1>0, <1>3 DEF AddGateway, Aimed
  <2> QED
    BY <1>0, <1>1, <1>3, <2>1, SetAddrsNeat, Zenon DEF AddGateway, Served, Refused
<1>4. CASE AddPodPort(p)
  <2>1. MyName(p) \in PortNames /\ pc[p] = "a_port"
    BY <1>0, <1>4, CallFacts DEF AddPodPort, VerbsAt
  <2> QED
    BY <1>0, <1>1, <1>4, <2>1, AddPortNeat, ZenonT(60) DEF AddPodPort, Refused
<1>5. CASE cleanupAfterAddFailure(p) \/ DelPort(p) \/ BridgeGCDel(p) \/ GCReap(p)
  BY <1>0, <1>1, <1>5, DelNeat, ZenonT(60)
  DEF cleanupAfterAddFailure, DelPort, BridgeGCDel, GCReap, TryDel, Refused
<1>6. CASE BridgeGCFlush4(p) \/ BridgeGCFlush6(p)
  <2>1. CASE \E as : as \subseteq iface[br[p]].addrs /\ SetAddrs(br[p], as)
    BY <1>0, <2>1, SetAddrsNeat, Zenon
  <2> QED
    BY <1>1, <1>6, <2>1 DEF BridgeGCFlush4, BridgeGCFlush6, Refused
<1>7. CASE LooksOnly(p)
  BY <1>1, <1>7, LooksOnlyKeeps
<1> QED
  BY <1>2, <1>3, <1>4, <1>5, <1>6, <1>7, Zenon
  DEF LooksOnly, HandlerStep, HandleAdd, HandleDel, gcBridgeIfEmpty, HandleGC

\* And only HandleAdd reserves.
LEMMA HandlerReserves ==
  ASSUME NEW p \in Procs, HandlerStep(p)
  PROVE  ipam' \subseteq ipam \/ (pc[p] = "a_ipam" /\ ipam' = ipam \union {req[p].att})
<1>1. CASE UNCHANGED ipam
  BY <1>1
<1>2. CASE AddIpam(p)
  BY <1>2 DEF AddIpam
<1>3. CASE ipamDel(p)
  BY <1>3 DEF ipamDel
<1>4. CASE gcIPAM(p)
  BY <1>4 DEF gcIPAM
<1>5. CASE EnsureBridgeList(p) \/ EnsureBridgeCreate(p) \/ EnsureBridgeRelist(p) \/ AddGateway(p)
           \/ AddPodPort(p) \/ moveLinkToNamespace(p) \/ configurePodInterface(p)
           \/ cleanupAfterAddFailure(p) \/ HandleDel(p) \/ gcBridgeIfEmpty(p) \/ HandleCheck(p)
           \/ GCList(p) \/ GCReap(p) \/ GCSocket(p)
  BY <1>1, <1>5, Zenon DEF EnsureBridgeList, EnsureBridgeCreate, EnsureBridgeRelist, AddGateway,
    AddPodPort, moveLinkToNamespace, configurePodInterface, NetdevStep, cleanupAfterAddFailure,
    HandleDel, DelList, DelPort, DelSocket, gcBridgeIfEmpty, BridgeGCList, BridgeGCFlush4,
    BridgeGCFlush6, BridgeGCDel, HandleCheck, CheckList, CheckPodSide, GCList, GCReap, GCSocket,
    hostVars
<1> QED
  BY <1>2, <1>3, <1>4, <1>5, Zenon DEF HandlerStep, HandleAdd, HandleGC

\* So a handler other than the attachment's own ADD leaves it clean.
LEMMA HandlerClean ==
  ASSUME LeakInv, NEW p \in Procs, HandlerStep(p), NEW a \in Attachments, Clean(a),
         req[p].verb # "ADD" \/ req[p].att # a
  PROVE  Clean(a)'
<1>0. /\ CoreInv /\ req[p].verb \in VerbsAt(pc[p]) /\ PortName[a] \in PortNames
      /\ pc[p] \in {"a_port", "a_ipam"} => req[p].verb = "ADD" /\ req[p].att \in Attachments
  BY LeakFacts, CNIAssumption, CallFacts DEF VerbsAt
<1>1. NoNewPort(PortName[a])
  BY <1>0, HandlerNeat, PortNamesDistinct DEF MyName
<1>2. ReliableDel => a \notin ipam'
  BY <1>0, HandlerReserves DEF Clean
<1> QED
  BY <1>1, <1>2, Zenon DEF Clean, NoNewPort, ReliableDel

\* A delete by the id that is held removes the port,
LEMMA HeldDel ==
  ASSUME LeakInv, NEW p \in Procs, DelIface(port[p]), Held(p), MyName(p) \in PortNames,
         UNCHANGED req
  PROVE  Named(MyName(p))' = {}
<1>0. GroutTypeOK
  BY LeakFacts
<1>1. CASE Named(MyName(p)) = {}
  BY <1>0, <1>1, DelNeat DEF NoNewPort, MyName
<1>2. CASE Named(MyName(p)) = {port[p]}
  <2>1. \A j \in Ids : iface'[j] = IF j = port[p] THEN NoIface ELSE iface[j]
    BY <1>0 DEF DelIface, GroutTypeOK
  <2>2. NoIface.name # MyName(p)
    BY GroutAssumption DEF NoIface
  <2> QED
    BY <1>2, <2>1, <2>2 DEF Named, MyName
<1> QED
  BY <1>1, <1>2 DEF Held

\* and grout does not refuse it.
LEMMA HeldGone ==
  ASSUME LeakInv, NEW p \in Procs, TryDel(p, port[p]), Held(p), MyName(p) \in PortNames,
         UNCHANGED req
  PROVE  Named(MyName(p))' = {}
<1>0. GroutTypeOK /\ PortsOK /\ BarePorts /\ PortsDeleted
  BY LeakFacts
<1>1. CASE DelIface(port[p])
  BY <1>1, HeldDel
<1>2. CASE UNCHANGED iface /\ Named(MyName(p)) = {}
  BY <1>2 DEF Named, MyName
<1>3. CASE conn[p] = "open" /\ Named(MyName(p)) = {port[p]}
  <2>1. port[p] \in Ids /\ iface[port[p]].name = MyName(p)
    BY <1>3 DEF Named
  <2>2. CanDel(port[p])
    BY <1>0, <2>1 DEF CanDel, Exists, PortsOK, BarePorts
  <2> QED
    BY <1>0, <1>1, <1>3, <2>2 DEF TryDel, Refused, PortsDeleted, Fault
<1> QED
  BY <1>1, <1>2, <1>3 DEF Held, TryDel, Refused

\* ensureBridge returns an interface with a bridge's name, and AddressAdd does
\* not change it.
LEMMA HandlerAimed ==
  ASSUME LeakInv, NEW p \in Procs, HandlerStep(p)
  PROVE  Aimed(p)'
<1>0. /\ CoreInv /\ GroutTypeOK /\ Aimed(p) /\ req[p].verb \in VerbsAt(pc[p])
      /\ pc \in [Procs -> Labels] /\ br \in [Procs -> Ids \union {0}] /\ Moves(p)
  BY LeakFacts, HandlerMoves
<1>1. CASE EnsureBridgeList(p) \/ EnsureBridgeCreate(p) \/ EnsureBridgeRelist(p)
  <2>1. Bridge[req[p].net] \notin PortNames
    BY <1>0, <1>1, CallFacts, CNIAssumption, Zenon
    DEF EnsureBridgeList, EnsureBridgeCreate, EnsureBridgeRelist, VerbsAt
  <2>2. ASSUME NEW b \in Ids, BridgeReady(p, b), iface'[b].name = Bridge[req[p].net]
        PROVE  Aimed(p)'
    BY <1>0, <2>1, <2>2, Zenon DEF BridgeReady, Aimed
  <2>3. CASE pc'[p] # "a_addr"
    BY <2>3 DEF Aimed
  <2>4. CASE EnsureBridgeList(p)
    BY <1>0, <2>2, <2>3, <2>4, Zenon
    DEF EnsureBridgeList, Listed, findBridgeID, Named, Goto, Fail
  <2>5. CASE EnsureBridgeCreate(p)
    <3>1. ASSUME NEW i \in Ids, AddBridge(i, Bridge[req[p].net])
          PROVE  iface'[i].name = Bridge[req[p].net]
      BY <1>0, <3>1, Zenon DEF AddBridge, NewIface, GroutTypeOK
    <3> QED
      BY <1>0, <2>2, <2>3, <2>5, <3>1, Zenon DEF EnsureBridgeCreate, Goto
  <2>6. CASE EnsureBridgeRelist(p)
    BY <1>0, <2>2, <2>3, <2>6, Zenon
    DEF EnsureBridgeRelist, Listed, findByName, Named, Goto, Fail
  <2> QED
    BY <1>1, <2>4, <2>5, <2>6, Zenon
<1>2. CASE AddGateway(p)
  <2>1. \A j : SetAddrs(br[p], j) => iface'[br[p]].name = iface[br[p]].name
    BY <1>0 DEF SetAddrs, Exists, NewIface, GroutTypeOK
  <2>2. pc'[p] = "a_addr" => iface'[br[p]].name = iface[br[p]].name
    BY <1>0, <1>2, <2>1, Zenon DEF AddGateway, Fail, Goto
  <2>3. pc[p] = "a_addr" /\ UNCHANGED <<br, conn>>
    BY <1>2, Zenon DEF AddGateway, procVars
  <2> QED
    BY <1>0, <2>2, <2>3, Zenon DEF Aimed
<1>3. CASE ~(EnsureBridgeList(p) \/ EnsureBridgeCreate(p) \/ EnsureBridgeRelist(p) \/ AddGateway(p))
  <2>1. pc'[p] # "a_addr"
    <3>1. CASE HandleAdd(p)
      BY <1>0, <1>3, <3>1, Zenon DEF HandleAdd, AddIpam, AddPodPort, moveLinkToNamespace,
        configurePodInterface, NetdevStep, cleanupAfterAddFailure, ipamDel, Goto, Fail
    <3>2. CASE ~HandleAdd(p)
      BY <1>0, <3>2, Zenon DEF HandlerStep, HandleDel, gcBridgeIfEmpty, HandleCheck, HandleGC,
        DelList, DelPort, DelSocket, BridgeGCList, BridgeGCFlush4, BridgeGCFlush6, BridgeGCDel,
        CheckList, CheckPodSide, GCList, GCReap, GCSocket, gcIPAM, AfterBridgeGC, AfterReap,
        Goto, Fail
    <3> QED
      BY <3>1, <3>2
  <2> QED
    BY <2>1 DEF Aimed
<1> QED
  BY <1>1, <1>2, <1>3

\* HandleDel deletes the port by the id it is held by, then the reservation.
LEMMA HandlerCleaning ==
  ASSUME LeakInv, NEW p \in Procs, HandlerStep(p)
  PROVE  Cleaning(p)'
<1>k. UNCHANGED <<req, conn>>
  BY LeakFacts, HandlerMoves DEF Moves, procVars
<1> SUFFICES ASSUME req[p].verb = "DEL" PROVE Cleaning(p)'
  BY <1>k DEF Cleaning
<1>0. /\ CoreInv /\ GroutTypeOK /\ OnePort /\ Cleaning(p) /\ req[p].verb \in VerbsAt(pc[p])
      /\ pc \in [Procs -> Labels] /\ err \in [Procs -> BOOLEAN]
      /\ port \in [Procs -> Ids \union {0}]
      /\ req[p].att \in Attachments /\ MyName(p) \in PortNames /\ UNCHANGED MyName(p)
      /\ PortsDeleted
  BY <1>k, LeakFacts, CallFacts, Zenon DEF MyName
<1>n. NoNewPort(MyName(p))
  BY <1>0, HandlerNeat DEF VerbsAt
<1>1. CASE DelList(p)
  <2>1. CASE Fail(p, "ret")
    BY <1>0, <2>1, Zenon DEF Fail, Goto, Cleaning
  <2>2. CASE UNCHANGED iface /\ findByName(MyName(p)) = {} /\ Goto(p, "ipamdel")
    BY <1>0, <1>n, <2>2, Zenon DEF findByName, NoNewPort, Goto, Cleaning
  <2>3. ASSUME NEW i \in Named(MyName(p)), UNCHANGED iface, Listed(p), Goto(p, "d_del"),
               port' = [port EXCEPT ![p] = i]
        PROVE  Cleaning(p)'
    <3>0. \A j \in Named(MyName(p)) : i = j
      BY <1>0, <2>3, Zenon DEF OnePort
    <3>1. Named(MyName(p)) = {i}
      BY <2>3, <3>0, Zenon
    <3>2. Named(MyName(p))' = {i}
      BY <1>0, <2>3, <3>1, Zenon DEF Named
    <3>3. port'[p] = i /\ conn'[p] = "open"
      BY <1>0, <1>k, <2>3, Zenon DEF Listed, Served
    <3>4. Held(p)'
      BY <1>0, <3>2, <3>3, Zenon DEF Held
    <3> QED
      BY <1>0, <2>3, <3>4 DEF Goto, Cleaning
  <2> QED
    BY <1>1, <2>1, <2>2, <2>3, Zenon DEF DelList, Listed, findByName
<1>2. CASE DelPort(p)
  <2>1. Named(MyName(p))' = {}
    BY <1>0, <1>2, <1>k, HeldGone, ZenonT(60) DEF DelPort, Cleaning
  <2> QED
    BY <1>0, <1>2, <2>1, Zenon DEF DelPort, Goto, Cleaning
<1>3. CASE DelSocket(p) \/ gcBridgeIfEmpty(p)
  <2>1. pc[p] \in {"d_sock", "b_list", "b_flush4", "b_flush6", "b_del"}
        /\ pc'[p] \in {"b_list", "b_flush4", "b_flush6", "b_del", "ipamdel"}
    BY <1>0, <1>3, Zenon DEF DelSocket, gcBridgeIfEmpty, BridgeGCList, BridgeGCFlush4,
      BridgeGCFlush6, BridgeGCDel, AfterBridgeGC, Goto
  <2>2. Named(MyName(p))' = {}
    BY <1>0, <1>n, <2>1 DEF Cleaning, NoNewPort
  <2> QED
    BY <1>0, <2>1, <2>2 DEF Cleaning
<1>4. CASE ipamDel(p)
  <2>1. Named(MyName(p))' = {} /\ (ReliableDel => req[p].att \notin ipam')
    BY <1>0, <1>4, <1>n, Zenon DEF ipamDel, Cleaning, NoNewPort, ReliableDel, Fault
  <2>2. Clean(req[p].att)'
    BY <1>0, <1>k, <2>1 DEF Clean, MyName, ReliableDel
  <2> QED
    BY <1>0, <1>4, <2>2, ZenonT(60) DEF ipamDel, Goto, Cleaning
<1>5. CASE (HandleAdd(p) /\ ~ipamDel(p)) \/ HandleCheck(p) \/ HandleGC(p)
  BY <1>0, <1>5, Zenon DEF HandleAdd, AddIpam, EnsureBridgeList, EnsureBridgeCreate,
    EnsureBridgeRelist, AddGateway, AddPodPort, moveLinkToNamespace, configurePodInterface,
    cleanupAfterAddFailure, HandleCheck, CheckList, CheckPodSide, HandleGC, GCList, GCReap,
    GCSocket, gcIPAM, VerbsAt
<1> QED
  BY <1>1, <1>2, <1>3, <1>4, <1>5, Zenon DEF HandlerStep, HandleDel

\* HandleAdd undoes what it has done when it fails.
LEMMA HandlerRolling ==
  ASSUME LeakInv, RepliesHeard, NEW p \in Procs, HandlerStep(p), Rolling(p)
  PROVE  Rolling(p)'
<1>k. UNCHANGED <<req, conn>> /\ Moves(p)
  BY LeakFacts, HandlerMoves, ZenonT(60) DEF Moves, procVars
<1>v. CASE req[p].verb # "ADD"
  BY <1>k, <1>v DEF Moves, VerbsAt, Critical, Rolling
<1> SUFFICES ASSUME req[p].verb = "ADD" PROVE Rolling(p)'
  BY <1>v, Zenon
<1>0. /\ CoreInv /\ GroutTypeOK /\ req[p].verb \in VerbsAt(pc[p])
      /\ pc \in [Procs -> Labels] /\ err \in [Procs -> BOOLEAN]
      /\ port \in [Procs -> Ids \union {0}]
      /\ req[p].att \in Attachments /\ MyName(p) \in PortNames /\ UNCHANGED MyName(p)
      /\ PortsDeleted
  BY <1>k, LeakFacts, CallFacts, Zenon DEF MyName
<1>n. pc[p] # "a_port" => NoNewPort(MyName(p))
  BY <1>0, HandlerNeat
<1>1. CASE AddIpam(p)
  <2>1. Clean(req[p].att) /\ ~err[p] /\ UNCHANGED iface
    BY <1>1, ZenonT(60) DEF AddIpam, Rolling, groutVars
  <2>2. CASE Goto(p, "a_list") /\ UNCHANGED err
    BY <1>0, <1>k, <2>1, <2>2 DEF Goto, Rolling, Clean, Named, MyName
  <2>3. CASE Fail(p, "ret") /\ (ReliableAdd => UNCHANGED ipam)
    <3>1. Named(MyName(p))' = {} /\ (ReliableDel /\ ReliableAdd => req[p].att \notin ipam')
      BY <1>0, <2>1, <2>3, ZenonT(60) DEF Clean, Named, MyName
    <3>2. pc'[p] = "ret"
      BY <1>0, <2>3 DEF Fail, Goto
    <3> QED
      BY <1>0, <1>k, <3>1, <3>2, Zenon DEF Rolling, ReliableDel, ReliableAdd
  <2> QED
    BY <1>1, <2>2, <2>3, Zenon DEF AddIpam, ReliableAdd, Fault
<1>2. CASE EnsureBridgeList(p) \/ EnsureBridgeCreate(p) \/ EnsureBridgeRelist(p) \/ AddGateway(p)
  <2>1. pc[p] \in {"a_list", "a_mkbr", "a_relist", "a_addr"}
    BY <1>2, Zenon DEF EnsureBridgeList, EnsureBridgeCreate, EnsureBridgeRelist, AddGateway
  <2>2. Named(MyName(p))' = {} /\ ~err[p]
    BY <1>0, <1>n, <2>1 DEF Rolling, NoNewPort
  <2>3. \/ pc'[p] \in {"a_mkbr", "a_relist", "a_addr", "a_port"} /\ UNCHANGED err
        \/ pc'[p] = "ipamdel"
    BY <1>0, <1>2, Zenon DEF EnsureBridgeList, EnsureBridgeCreate, EnsureBridgeRelist, AddGateway,
      BridgeReady, AfterGateway, Goto, Fail
  <2> QED
    BY <1>0, <1>k, <2>2, <2>3, Zenon DEF Rolling
<1>3. CASE AddPodPort(p)
  <2>0. Named(MyName(p)) = {} /\ ~err[p]
    BY <1>3, Zenon DEF AddPodPort, Rolling
  <2>1. CASE UNCHANGED iface /\ Fail(p, "ipamdel")
    BY <1>0, <1>k, <2>0, <2>1, Zenon DEF Fail, Goto, Rolling, Named
  <2>2. ASSUME NEW i \in Ids, Served(p), AddPort(i, MyName(p), br[p], Virtio(p)),
               port' = [port EXCEPT ![p] = i], pc'[p] \in {"ret", "a_move"}, UNCHANGED err
        PROVE  Rolling(p)'
    <3>1. Named(MyName(p))' = {i} /\ port'[p] = i /\ conn'[p] = "open"
      BY <1>0, <1>k, <2>2, AddPortNeat, Zenon DEF Served
    <3>2. Held(p)'
      BY <1>0, <3>1 DEF Held
    <3> QED
      BY <1>0, <2>0, <2>2, <3>2, Zenon DEF Rolling
  <2> QED
    BY <1>0, <1>3, <2>1, <2>2, Zenon DEF AddPodPort, Refused, Goto
<1>4. CASE moveLinkToNamespace(p) \/ configurePodInterface(p)
  <2>1. Held(p) /\ ~err[p]
    BY <1>4, Zenon DEF moveLinkToNamespace, configurePodInterface, Rolling
  <2>2. UNCHANGED <<iface, port>>
    BY <1>4, Zenon DEF moveLinkToNamespace, configurePodInterface, NetdevStep, locals
  <2>3. Held(p)'
    BY <1>0, <1>k, <2>1, <2>2, Zenon DEF Held, Named, MyName
  <2>4. (pc'[p] \in {"a_conf", "ret"} /\ UNCHANGED err) \/ pc'[p] = "a_rollback"
    BY <1>0, <1>4, Zenon DEF moveLinkToNamespace, configurePodInterface, NetdevStep, Goto, Fail
  <2> QED
    BY <1>0, <2>1, <2>3, <2>4, Zenon DEF Rolling
<1>5. CASE cleanupAfterAddFailure(p)
  <2>1. Named(MyName(p))' = {}
    BY <1>0, <1>5, <1>k, HeldGone, Zenon DEF cleanupAfterAddFailure, Rolling
  <2> QED
    BY <1>0, <1>5, <2>1, Zenon DEF cleanupAfterAddFailure, Goto, Rolling
<1>6. CASE ipamDel(p)
  <2>1. Named(MyName(p))' = {} /\ (ReliableDel => req[p].att \notin ipam')
    BY <1>0, <1>6, <1>n, Zenon DEF ipamDel, Rolling, NoNewPort, ReliableDel, Fault
  <2>2. pc'[p] = "ret"
    BY <1>0, <1>6 DEF ipamDel, Goto
  <2> QED
    BY <1>0, <1>k, <2>1, <2>2, Zenon DEF Rolling, ReliableDel
<1>7. CASE HandleDel(p) \/ gcBridgeIfEmpty(p) \/ HandleCheck(p) \/ HandleGC(p)
  BY <1>0, <1>7, Zenon DEF HandleDel, DelList, DelPort, DelSocket, gcBridgeIfEmpty, BridgeGCList,
    BridgeGCFlush4, BridgeGCFlush6, BridgeGCDel, HandleCheck, CheckList, CheckPodSide, HandleGC,
    GCList, GCReap, GCSocket, gcIPAM, VerbsAt
<1> QED
  BY <1>1, <1>2, <1>3, <1>4, <1>5, <1>6, <1>7, Zenon DEF HandlerStep, HandleAdd

\* Processes that wait or are about to exit keep what they have achieved.
LEMMA Waiting ==
  ASSUME LeakInv, NEW q \in Procs, pc[q] \notin Critical,
         pc'[q] = pc[q], err'[q] = err[q], req'[q] = req[q],
         \A a \in Attachments : a = req[q].att /\ Clean(a) => Clean(a)'
  PROVE  Aimed(q)' /\ Cleaning(q)' /\ (Rolling(q) => Rolling(q)')
<1>0. /\ pc \in [Procs -> Labels] /\ Cleaning(q)
      /\ req[q].verb \in {"ADD", "DEL"} => req[q].att \in Attachments
  BY LeakFacts, CallFacts, Zenon
<1>1. pc[q] \in {"idle", "dial", "lock", "exit"}
  BY <1>0, Zenon DEF Labels
<1>2. Clean(req[q].att) /\ req[q].verb \in {"ADD", "DEL"} => Clean(req[q].att)'
  BY <1>0 DEF Clean
<1> QED
  BY <1>0, <1>1, <1>2, Zenon DEF Aimed, Cleaning, Rolling

\* The handler steps keep the invariant.
LEMMA HandlerLeak ==
  ASSUME LeakInv, NEW p \in Procs, HandlerStep(p)
  PROVE  LeakInv'
<1>0. /\ PortInv /\ CoreInv /\ CallsApart /\ PortsDeleted /\ OnePort /\ BarePorts /\ AbsentClean
      /\ Moves(p) /\ UNCHANGED <<req, rt>>
      /\ pc \in [Procs -> Labels] /\ err \in [Procs -> BOOLEAN]
  BY LeakFacts, HandlerMoves, HandlerKeeps
<1>1. PortInv' /\ OnePort' /\ BarePorts' /\ PortsDeleted'
  BY <1>0, HandlerPort, HandlerNeat, Zenon DEF PortsNeat, PortsDeleted
<1>2. CallsApart'
  BY <1>0, Zenon DEF CallsApart
<1>3. AbsentClean'
  <2> SUFFICES ASSUME NEW a \in Attachments, rt[a] = "absent" PROVE Clean(a)'
    BY <1>0, Zenon DEF AbsentClean
  <2>1. Clean(a) /\ (req[p].verb # "ADD" \/ req[p].att # a)
    BY <1>0, Zenon DEF AbsentClean, CallsApart
  <2> QED
    BY <2>1, HandlerClean
<1>4. ASSUME NEW q \in Procs, q # p
      PROVE  Aimed(q)' /\ Cleaning(q)' /\ (Rolling(q) => Rolling(q)')
  <2>1. pc'[q] = pc[q] /\ pc[q] \notin Critical
    BY <1>0, <1>4 DEF CoreInv, LockOwnership, Moves
  <2>2. err'[q] = err[q]
    BY <1>0, <1>4, ZenonT(60) DEF Moves
  <2>3. ASSUME NEW a \in Attachments, a = req[q].att, Clean(a) PROVE Clean(a)'
    BY <1>0, <1>4, <2>3, CNIAssumption, HandlerClean, Zenon DEF CallsApart
  <2> QED
    BY <1>0, <2>1, <2>2, <2>3, Waiting, Zenon
<1>5. ASSUME NEW q \in Procs PROVE Aimed(q)' /\ Cleaning(q)' /\ (RepliesHeard /\ Rolling(q) => Rolling(q)')
  BY <1>4, HandlerAimed, HandlerCleaning, HandlerRolling
<1> QED
  BY <1>1, <1>2, <1>3, <1>5 DEF LeakInv, RepliesHeard

-----------------------------------------------------------------------------
\* A call starts without an error, an ADD for an attachment that is clean; its
\* result is what the handler left.
LEMMA CallLeak ==
  ASSUME LeakInv, NEW p \in Procs, CallStep(p)
  PROVE  LeakInv'
<1>0. /\ PortInv /\ CoreInv /\ CallsApart /\ PortsDeleted /\ OnePort /\ BarePorts /\ AbsentClean
      /\ UNCHANGED <<groutVars, ipam>> /\ Cleaning(p)
      /\ pc \in [Procs -> Labels] /\ err \in [Procs -> BOOLEAN] /\ req \in [Procs -> Requests]
      /\ rt \in [Attachments -> {"absent", "attached", "failed"}]
      /\ pc[p] = "lock" => req[p].verb \in {"ADD", "DEL", "CHECK", "GC"}
  BY LeakFacts, CallKeeps DEF VerbsAt, Verbs
<1>1. PortInv' /\ OnePort' /\ BarePorts' /\ PortsDeleted' /\ CallsApart'
  BY <1>0, CallPort, SameNeat, CallApart, Zenon DEF CallStep, PortsNeat, PortsDeleted, groutVars
<1>c. \A a \in Attachments : Clean(a)' <=> Clean(a)
  BY <1>0 DEF Clean, Named, groutVars
<1>2. AbsentClean'
  <2> SUFFICES ASSUME NEW a \in Attachments, rt'[a] = "absent" PROVE Clean(a)
    BY <1>c DEF AbsentClean
  <2>1. CASE Exit(p)
    BY <1>0, <2>1 DEF Exit, AbsentClean, Cleaning
  <2>2. CASE ~Exit(p)
    BY <1>0, <2>2, Zenon DEF CallStep, Dial, Acquire, LockFails, Unlock, Kill, Runtime, InvokeAdd,
      InvokeDel, InvokeCheck, InvokeGC, InvokeStatus, hostVars, AbsentClean
  <2> QED
    BY <2>1, <2>2
<1>3. ASSUME NEW q \in Procs, q # p
      PROVE  Aimed(q)' /\ Cleaning(q)' /\ (Rolling(q) => Rolling(q)')
  <2>1. /\ conn'[q] = conn[q] /\ pc'[q] = pc[q] /\ port'[q] = port[q] /\ br'[q] = br[q]
        /\ err'[q] = err[q] /\ req'[q] = req[q]
    BY <1>0, <1>3, CallKeeps
  <2>2. UNCHANGED iface /\ Aimed(q) /\ Cleaning(q)
    BY <1>0, LeakFacts, Zenon DEF groutVars
  <2>3. /\ Named(MyName(q))' = Named(MyName(q)) /\ (Held(q)' <=> Held(q))
        /\ Clean(req[q].att)' <=> Clean(req[q].att)
    BY <1>0, <2>1, <2>2, Zenon DEF Held, Clean, Named, MyName
  <2>4. Aimed(q)'
    BY <2>1, <2>2 DEF Aimed
  <2>5. Cleaning(q)'
    BY <2>1, <2>2, <2>3, Zenon DEF Cleaning
  <2>6. Rolling(q) => Rolling(q)'
    BY <1>0, <2>1, <2>3, Zenon DEF Rolling, ReliableDel, ReliableAdd
  <2> QED
    BY <2>4, <2>5, <2>6, Zenon
<1>4. Aimed(p)' /\ Cleaning(p)' /\ (Rolling(p) => Rolling(p)')
  <2>1. CASE Dial(p) \/ LockFails(p)
    <3>1. \/ pc'[p] = "exit" /\ (err'[p] \/ req'[p].verb \notin {"ADD", "DEL"})
          \/ pc[p] = "dial" /\ pc'[p] = "lock" /\ UNCHANGED <<req, err>>
      BY <1>0, <2>1, ZenonT(60) DEF Dial, LockFails, Goto, Fail
    <3> QED
      BY <1>0, <3>1, Zenon DEF Aimed, Cleaning, Rolling, Clean, Named, groutVars
  <2>2. CASE Acquire(p)
    <3>1. /\ pc[p] = "lock" /\ pc'[p] = Handler[req[p].verb] /\ UNCHANGED <<req, err>>
          /\ req[p].verb \in {"ADD", "DEL", "CHECK", "GC"}
      BY <1>0, <2>2, Zenon DEF Acquire, Goto
    <3>2. pc'[p] \in {"a_ipam", "d_list", "c_list", "g_list"}
      BY <3>1, HandlerLabel
    <3> QED
      BY <1>0, <3>1, <3>2 DEF Aimed, Cleaning, Rolling, Clean, Named, groutVars
  <2>3. CASE Unlock(p)
    <3>1. pc[p] = "ret" /\ pc'[p] = "exit" /\ UNCHANGED <<req, err>>
      BY <1>0, <2>3 DEF Unlock, Goto
    <3> QED
      BY <1>0, <3>1, Zenon DEF Aimed, Cleaning, Rolling, Clean, Named, groutVars
  <2>4. CASE Exit(p) \/ Kill(p)
    <3>1. pc'[p] = "idle" /\ ~err'[p]
      BY <1>0, <2>4, ZenonT(60) DEF Exit, Kill, Gone, Goto
    <3> QED
      BY <3>1, Zenon DEF Aimed, Cleaning, Rolling
  <2>5. CASE Runtime(p)
    <3>1. pc[p] = "idle" /\ pc'[p] = "dial" /\ UNCHANGED err
      BY <1>0, <2>5, ZenonT(60) DEF Runtime, InvokeAdd, InvokeDel, InvokeCheck, InvokeGC,
        InvokeStatus, Invoke, Goto
    <3>2. ASSUME req'[p].verb = "ADD" PROVE req'[p].att \in Attachments /\ rt[req'[p].att] = "absent"
      <4>1. ASSUME NEW v, NEW a, NEW n, NEW valid, Invoke(p, v, a, n, valid)
            PROVE  req'[p].verb = v /\ req'[p].att = a
        BY <1>0, <4>1, Zenon DEF Invoke, Request
      <4>2. ~\E n \in Networks : InvokeGC(p, n) \/ InvokeStatus(p, n)
        BY <3>2, <4>1, Zenon DEF InvokeGC, InvokeStatus
      <4>3. ~\E a \in Attachments : InvokeDel(p, a) \/ InvokeCheck(p, a)
        BY <3>2, <4>1 DEF InvokeDel, InvokeCheck
      <4>4. PICK a \in Attachments : InvokeAdd(p, a)
        BY <2>5, <4>2, <4>3, Zenon DEF Runtime
      <4> QED
        BY <4>1, <4>4 DEF InvokeAdd
    <3>3. ASSUME req'[p].verb = "ADD" PROVE Clean(req[p].att)'
      <4>1. req'[p].att \in Attachments /\ Clean(req'[p].att)
        BY <1>0, <3>2, <3>3 DEF AbsentClean
      <4> QED
        BY <1>0, <4>1, Zenon DEF Clean, Named, groutVars
    <3> QED
      BY <3>1, <3>3, Zenon DEF Aimed, Cleaning, Rolling
  <2> QED
    BY <2>1, <2>2, <2>3, <2>4, <2>5, Zenon DEF CallStep
<1> QED
  BY <1>1, <1>2, <1>3, <1>4, Zenon DEF LeakInv, RepliesHeard

-----------------------------------------------------------------------------
\* Other users of grout, and what happens in a pod, leave the plugin's ports alone.
LEMMA EnvironmentPortsKept ==
  ASSUME GroutTypeOK, PortsOK,
         GroutRestart \/ ForeignStep \/ \E a \in Attachments : NetdevDrift(a)
  PROVE  /\ \A j \in Ids : iface[j].name \in PortNames => iface'[j] = iface[j]
         /\ \A j \in Ids : iface'[j].name \in PortNames => iface'[j] = iface[j]
<1>1. PICK i, x :
        \/ UNCHANGED iface
        \/ /\ i \in Ids /\ iface' = [iface EXCEPT ![i] = x]
           /\ x.name \notin PortNames /\ iface[i].name \notin PortNames
  <2>1. CASE UNCHANGED iface
    BY <2>1
  <2>2. ASSUME NEW i \in Ids, ForeignDel(i)
        PROVE  /\ iface' = [iface EXCEPT ![i] = NoIface]
               /\ NoIface.name \notin PortNames /\ iface[i].name \notin PortNames
    BY <2>2, GroutAssumption, Zenon DEF ForeignDel, NoIface, PortsOK
  <2>3. ASSUME NEW i \in Ids, NEW f \in Foreign, ForeignAdd(f, i)
        PROVE  /\ \E d : LET x == NewIface(f.name, f.type, d, f.addrs, "other") IN
                         iface' = [iface EXCEPT ![i] = x] /\ x.name \notin PortNames
               /\ iface[i].name \notin PortNames
    <3>1. f.name \notin PortNames
      BY GroutAssumption
    <3>2. \E d : iface' = [iface EXCEPT ![i] = NewIface(f.name, f.type, d, f.addrs, "other")]
      BY <2>3, Zenon DEF ForeignAdd
    <3>3. iface[i].name \notin PortNames
      BY <2>3, Zenon DEF ForeignAdd, CanAdd, Exists, PortsOK
    <3> QED
      BY <3>1, <3>2, <3>3, Zenon DEF NewIface
  <2>4. CASE GroutRestart \/ \E a \in Attachments : NetdevDrift(a)
    BY <2>1, <2>4 DEF GroutRestart, Restart, NetdevDrift
  <2>5. CASE ForeignStep
    BY <2>2, <2>3, <2>5 DEF ForeignStep
  <2> QED
    BY <2>4, <2>5
<1> QED
  BY <1>1 DEF GroutTypeOK

\* A crash takes every port, the other changes around the plugin none of its.
LEMMA EnvironmentLeak ==
  ASSUME LeakInv,
         GroutCrash \/ GroutRestart \/ ForeignStep \/ \E a \in Attachments : NetdevDrift(a)
  PROVE  LeakInv'
<1>0. /\ PortInv /\ CoreInv /\ GroutTypeOK /\ PortsOK /\ CallsApart /\ PortsDeleted /\ OnePort
      /\ BarePorts /\ AbsentClean
      /\ conn \in [Procs -> {"closed", "open", "dead"}]
  BY LeakFacts, Zenon
<1>u. UNCHANGED <<ipam, rt, pc, req, br, port, err>>
  BY DEF GroutCrash, GroutRestart, ForeignStep, NetdevDrift, hostVars, procVars, locals
<1>1. PortInv' /\ CallsApart' /\ PortsDeleted'
  BY <1>0, <1>u, EnvironmentPort, ForeignPort, Zenon DEF CallsApart, PortsDeleted
<1>2. CASE GroutCrash
  <2>1. \A n \in PortNames : Named(n)' = {}
    BY <1>2, GroutAssumption, Zenon DEF GroutCrash, Crash, NoIface, Named
  <2>2. OnePort' /\ BarePorts'
    BY <1>2, <2>1, GroutAssumption, Zenon DEF GroutCrash, Crash, NoIface, OnePort, BarePorts
  <2>3. \A a \in Attachments : Clean(a) => Clean(a)'
    BY <1>u, <2>1, CNIAssumption DEF Clean
  <2>4. AbsentClean'
    BY <1>0, <1>u, <2>3 DEF AbsentClean
  <2>5. ASSUME NEW q \in Procs
        PROVE  Aimed(q)' /\ Cleaning(q)' /\ (Rolling(q) => Rolling(q)')
    <3>1. conn'[q] # "open"
      BY <1>0, <1>2, Zenon DEF GroutCrash
    <3>2. req[q].verb \in {"ADD", "DEL"} =>
            /\ Named(MyName(q))' = {}
            /\ Clean(req[q].att) => Clean(req[q].att)'
      BY <1>0, <1>u, <2>1, CallFacts, Zenon DEF MyName, Clean
    <3> QED
      BY <1>u, <3>1, <3>2, LeakFacts, Zenon DEF Aimed, Cleaning, Rolling, Held
  <2> QED
    BY <1>1, <2>2, <2>4, <2>5, Zenon DEF LeakInv, RepliesHeard
<1>3. CASE ~GroutCrash
  <2>0. UNCHANGED conn
    BY <1>3, Zenon DEF GroutRestart, ForeignStep, NetdevDrift, procVars
  <2>2. /\ \A j \in Ids : iface[j].name \in PortNames => iface'[j] = iface[j]
        /\ \A j \in Ids : iface'[j].name \in PortNames => iface'[j] = iface[j]
    BY <1>0, <1>3, EnvironmentPortsKept, Zenon
  <2>3. \A n \in PortNames : Named(n)' = Named(n)
    BY <2>2 DEF Named
  <2>a. OnePort'
    BY <1>0, <2>3, Zenon DEF OnePort
  <2>b. BarePorts'
    BY <1>0, <2>2, Zenon DEF BarePorts
  <2>c. AbsentClean'
    BY <1>0, <1>u, <2>3, CNIAssumption DEF AbsentClean, Clean
  <2>5. ASSUME NEW q \in Procs
        PROVE  Aimed(q)' /\ Cleaning(q)' /\ (Rolling(q) => Rolling(q)')
    <3>1. req[q].verb \in {"ADD", "DEL"} =>
            /\ Named(MyName(q))' = Named(MyName(q))
            /\ Clean(req[q].att)' <=> Clean(req[q].att)
      BY <1>0, <1>u, <2>3, CallFacts, ZenonT(60) DEF MyName, Clean
    <3>2. Cleaning(q)' /\ (Rolling(q) => Rolling(q)')
      BY <1>u, <2>0, <3>1, LeakFacts DEF Cleaning, Rolling, Held
    <3>3. Aimed(q)'
      <4>1. Aimed(q)
        BY LeakFacts
      <4> QED
        BY <1>u, <2>0, <2>2, <4>1, Zenon DEF Aimed
    <3> QED
      BY <3>2, <3>3, Zenon
  <2> QED
    BY <1>1, <2>a, <2>b, <2>c, <2>5, Zenon DEF LeakInv, RepliesHeard
<1> QED
  BY <1>2, <1>3

\* What grout did before the reply was lost is one of the changes above; the
\* handler goes on with a dead connection.
LEMMA ReplyLostLeak ==
  ASSUME LeakInv, NEW p \in Procs, ReplyLost(p)
  PROVE  LeakInv'
<1>0. /\ PortInv /\ CoreInv /\ GroutTypeOK /\ PortsOK /\ CallsApart /\ PortsDeleted /\ OnePort
      /\ BarePorts /\ AbsentClean /\ Aimed(p) /\ Cleaning(p)
      /\ pc \in [Procs -> Labels] /\ err \in [Procs -> BOOLEAN]
      /\ conn \in [Procs -> {"closed", "open", "dead"}] /\ req[p].verb \in VerbsAt(pc[p])
      /\ conn[p] = "open" /\ conn'[p] = "dead" /\ ~RepliesHeard
      /\ UNCHANGED <<ipam, rt, req, br, port>>
  BY LeakFacts DEF ReplyLost, Fault, RepliesHeard, hostVars
<1>a. pc[p] \in {"a_port", "d_del", "a_rollback"} =>
        MyName(p) \in PortNames /\ req[p].att \in Attachments
  BY <1>0, CallFacts, Zenon DEF VerbsAt
<1>1. /\ PortsNeat
      /\ \A n \in PortNames : NoNewPort(n) \/ (pc[p] = "a_port" /\ n = MyName(p))
  <2>1. CASE BridgeUnheard(p)
    <3>1. Bridge[req[p].net] \in Names \ PortNames
      BY <1>0, <2>1, CallFacts, CNIAssumption, Zenon DEF BridgeUnheard, VerbsAt
    <3> QED
      BY <1>0, <2>1, <3>1, AddBridgeNeat, Zenon DEF BridgeUnheard
  <2>2. CASE GatewayUnheard(p)
    BY <1>0, <2>2, SetAddrsNeat, Zenon DEF GatewayUnheard, Aimed
  <2>3. CASE PortUnheard(p)
    BY <1>0, <1>a, <2>3, AddPortNeat, Zenon DEF PortUnheard
  <2>4. CASE DelUnheard(p) \/ BridgeDelUnheard(p) \/ ReapUnheard(p)
    BY <1>0, <2>4, DelNeat, Zenon DEF DelUnheard, BridgeDelUnheard, ReapUnheard
  <2>5. CASE FlushUnheard(p)
    <3>1. \E as : as \subseteq iface[br[p]].addrs /\ SetAddrs(br[p], as)
      BY <2>5, ZenonT(60) DEF FlushUnheard
    <3> QED
      BY <1>0, <3>1, SetAddrsNeat, Zenon
  <2> QED
    BY <2>1, <2>2, <2>3, <2>4, <2>5, Zenon DEF ReplyLost
<1>c. ASSUME NEW a \in Attachments, Clean(a), req[p].verb # "ADD" \/ req[p].att # a
      PROVE  Clean(a)'
  <2>0. PortName[a] \in PortNames /\ (pc[p] = "a_port" => req[p].verb = "ADD")
    BY <1>0, CNIAssumption, Zenon DEF VerbsAt
  <2>1. NoNewPort(PortName[a])
    BY <1>1, <1>a, <1>c, <2>0, PortNamesDistinct DEF MyName
  <2> QED
    BY <1>0, <1>c, <2>1, Zenon DEF Clean, NoNewPort
<1>2. PortInv' /\ CallsApart' /\ PortsDeleted' /\ OnePort' /\ BarePorts'
  BY <1>0, <1>1, ReplyLostPort, Zenon DEF PortsNeat, CallsApart, PortsDeleted
<1>3. AbsentClean'
  BY <1>0, <1>c, Zenon DEF AbsentClean, CallsApart
<1>p. /\ pc[p] \in Critical /\ pc' = [pc EXCEPT ![p] = pc'[p]]
      /\ pc'[p] \in {"a_relist", "ipamdel", "d_sock", "b_del", "g_ipam", "g_reap", "b_list"}
      /\ UNCHANGED err \/ err' = [err EXCEPT ![p] = TRUE]
  BY <1>0, Zenon DEF ReplyLost, BridgeUnheard, GatewayUnheard, PortUnheard, DelUnheard,
    FlushUnheard, BridgeDelUnheard, ReapUnheard, AfterBridgeGC, AfterReap, Goto, Fail, Critical
<1>4. Aimed(p)' /\ Cleaning(p)'
  <2>1. ASSUME req[p].verb = "DEL" PROVE Named(MyName(p))' = {}
    <3>0. MyName(p) \in PortNames /\ UNCHANGED MyName(p) /\ pc[p] # "a_port"
      BY <1>0, <2>1, CallFacts DEF VerbsAt, MyName
    <3>1. CASE DelUnheard(p)
      BY <1>0, <2>1, <3>0, <3>1, HeldDel, Zenon DEF DelUnheard, VerbsAt, Cleaning
    <3>2. CASE FlushUnheard(p) \/ BridgeDelUnheard(p)
      BY <1>0, <1>1, <2>1, <3>0, <3>2, Zenon DEF FlushUnheard, BridgeDelUnheard, Cleaning, NoNewPort
    <3>3. CASE BridgeUnheard(p) \/ GatewayUnheard(p) \/ PortUnheard(p) \/ ReapUnheard(p)
      BY <1>0, <2>1, <3>3, Zenon
      DEF BridgeUnheard, GatewayUnheard, PortUnheard, ReapUnheard, VerbsAt
    <3> QED
      BY <3>1, <3>2, <3>3, ZenonT(60) DEF ReplyLost
  <2> QED
    BY <1>0, <1>p, <2>1, Zenon DEF Aimed, Cleaning
<1>5. ASSUME NEW q \in Procs, q # p PROVE Aimed(q)' /\ Cleaning(q)'
  <2>1. pc'[q] = pc[q] /\ pc[q] \notin Critical
    BY <1>0, <1>p, <1>5, Zenon DEF CoreInv, LockOwnership
  <2>2. err'[q] = err[q]
    BY <1>0, <1>p, <1>5, Zenon
  <2>3. ASSUME NEW a \in Attachments, a = req[q].att, Clean(a) PROVE Clean(a)'
    BY <1>0, <1>5, <1>c, <2>3, CNIAssumption, Zenon DEF CallsApart
  <2> QED
    BY <1>0, <2>1, <2>2, <2>3, Waiting, Zenon
<1> QED
  BY <1>0, <1>2, <1>3, <1>4, <1>5, Zenon DEF LeakInv, RepliesHeard

-----------------------------------------------------------------------------
\* The invariant is inductive.
LEMMA NextLeak == LeakInv /\ [Next]_vars => LeakInv'
<1> SUFFICES ASSUME LeakInv, [Next]_vars PROVE LeakInv'
  BY Zenon
<1>1. ASSUME NEW p \in Procs, Step(p) \/ Runtime(p) PROVE LeakInv'
  BY <1>1, HandlerLeak, CallLeak DEF Step, HandlerStep, CallStep
<1>2. CASE Environment
  BY <1>2, CallLeak, ReplyLostLeak, EnvironmentLeak DEF Environment, CallStep
<1>3. CASE UNCHANGED vars
  <2>1. PortInv' /\ OnePort' /\ BarePorts'
    BY <1>3, NextPort, LeakFacts, SameNeat DEF vars, PortsNeat
  <2>2. CallsApart' /\ AbsentClean' /\ PortsDeleted'
    BY <1>3, LeakFacts, Zenon DEF vars, CallsApart, AbsentClean, Clean, Named, PortsDeleted
  <2>3. ASSUME NEW q \in Procs PROVE Aimed(q)' /\ Cleaning(q)' /\ (Rolling(q) => Rolling(q)')
    BY <1>3, LeakFacts, Zenon DEF vars, Aimed, Cleaning, Rolling, Held, Clean, Named, MyName
  <2> QED
    BY <2>1, <2>2, <2>3, Zenon DEF LeakInv, RepliesHeard
<1> QED
  BY <1>1, <1>2, <1>3 DEF Next

\* When a DEL has succeeded nothing of the attachment is left in grout or with
\* the IPAM plugin, whatever was killed, crashed, lost or rolled back before,
\* unless a delete itself failed, which HandleDel only logs.
THEOREM DelLeavesNothing == ReliableDel /\ Spec => []NoLeakAfterDel
<1> SUFFICES ASSUME ReliableDel PROVE Spec => []NoLeakAfterDel
  BY Zenon
<1>1. LeakInv => NoLeakAfterDel
  BY DEF LeakInv, AbsentClean, Clean, NoLeakAfterDel
<1>2. PortsDeleted
  BY DEF ReliableDel, PortsDeleted
<1> QED
  BY <1>1, <1>2, InitLeak, NextLeak, PTL DEF Spec

\* An ADD that returns an error has removed its port and its reservation at
\* whichever request it failed, also when grout died half way, unless the undoing
\* itself failed, a reply was lost, or the IPAM result did not convert.
THEOREM FailedAddLeavesNothing == ReliableDel /\ ReliableAdd /\ Spec => []FailedAddRollsBack
<1> SUFFICES ASSUME ReliableDel, ReliableAdd PROVE Spec => []FailedAddRollsBack
  OBVIOUS
<1>1. LeakInv => FailedAddRollsBack
  BY Zenon DEF LeakInv, Rolling, MyName, FailedAddRollsBack, ReliableAdd, RepliesHeard
<1>2. PortsDeleted
  BY DEF ReliableDel, PortsDeleted
<1> QED
  BY <1>1, <1>2, InitLeak, NextLeak, PTL DEF Spec

-----------------------------------------------------------------------------
(* The vhost-user socket files.  grout may leave the file behind when the  *)
(* port is deleted, and DEL and GC look for it only where they found a     *)
(* port: a file must not outlive its port but in the hands of a handler    *)
(* that is about to remove it.                                             *)

\* Nothing comes between the end of a port and the removal of its file: no
\* handler is killed, grout does not die, GC hears the reply to its delete, and
\* the file system does as it is told.
SocketsSafe == FaultKinds \intersect {"kill", "crash", "unlink", "lost"} = {}

\* p is about to remove the socket file of port n.
Removing(p, n) ==
  \/ pc[p] = "d_sock" /\ MyName(p) = n
  \/ pc[p] = "g_sock" /\ <<port[p], n>> \in todo[p]

\* Every socket file has its port, or somebody who removes it.
SocksOwned == \A n \in socks : Named(n) # {} \/ \E p \in Procs : Removing(p, n)

\* The ids a handler deletes by still carry the names it found them by; the
\* bridge it found empty has not become a port of the plugin.
Exact(p) ==
  conn[p] = "open" =>
    /\ pc[p] \in {"a_move", "a_conf", "a_rollback", "d_del"} => iface[port[p]].name = MyName(p)
    /\ pc[p] \in {"b_flush4", "b_flush6", "b_del"} => br[p] \in Ids /\ iface[br[p]].name \notin PortNames
    /\ pc[p] = "g_reap" => \A t \in todo[p] : iface[t[1]].name = t[2]
    /\ pc[p] = "g_sock" => \A t \in todo[p] : t[1] # port[p] => iface[t[1]].name = t[2]

\* An ADD has no socket file before it returns, a DEL none once it is past it.
SocketGone(p) ==
  /\ req[p].verb = "ADD" /\ pc[p] \notin {"ret", "exit"} => MyName(p) \notin socks
  /\ /\ req[p].verb = "DEL"
     /\ \/ pc[p] \in {"b_list", "b_flush4", "b_flush6", "b_del", "ipamdel"}
        \/ pc[p] \in {"ret", "exit"} /\ ~err[p]
     => MyName(p) \notin socks

SockInv ==
  /\ PortInv /\ CallsApart /\ SocketsSafe
  /\ NoSocketLeak /\ SocksOwned
  /\ \A p \in Procs : Exact(p) /\ SocketGone(p)

\* At first there is no file.
LEMMA InitSock == SocketsSafe /\ Init => SockInv
<1> SUFFICES ASSUME SocketsSafe, Init PROVE SockInv
  OBVIOUS
<1>1. socks = {} /\ \A p \in Procs : pc[p] = "idle"
  BY Zenon DEF Init, GroutInit
<1>2. NoSocketLeak /\ SocksOwned /\ \A p \in Procs : Exact(p) /\ SocketGone(p)
  BY <1>1 DEF NoSocketLeak, SocksOwned, Exact, SocketGone
<1>3. CallsApart
  BY CNIAssumption, ZenonT(60) DEF Init, NoRequest, Request, CallsApart
<1> QED
  BY <1>2, <1>3, InitPort DEF SockInv

\* The parts of the invariant, and the types, that the lemmas below use.
LEMMA SockFacts ==
  ASSUME SockInv
  PROVE  /\ PortInv /\ CoreInv /\ GroutTypeOK /\ PortsOK /\ CallsApart /\ SocketsSafe
         /\ NoSocketLeak /\ SocksOwned
         /\ pc \in [Procs -> Labels] /\ err \in [Procs -> BOOLEAN] /\ socks \subseteq PortNames
         /\ br \in [Procs -> Ids \union {0}] /\ port \in [Procs -> Ids \union {0}]
         /\ todo \in [Procs -> SUBSET (Ids \X PortNames)] /\ req \in [Procs -> Requests]
         /\ \A p \in Procs : /\ req[p].verb \in VerbsAt(pc[p]) /\ Learned(p)
                             /\ Exact(p) /\ SocketGone(p)
BY DEF SockInv, PortInv, CoreInv, TypeOK, CallOK, GroutTypeOK

\* While no handler is about to remove a file, every file has its port.
LEMMA SocksPorts ==
  ASSUME SockInv, NEW p \in Procs, pc[p] \in Critical, pc[p] \notin {"d_sock", "g_sock"},
         NEW n \in socks
  PROVE  Named(n) # {}
<1>1. \A q \in Procs : q # p => pc[q] \notin Critical
  BY SockFacts DEF CoreInv, LockOwnership
<1>2. ~\E q \in Procs : Removing(q, n)
  BY <1>1, Zenon DEF Removing, Critical
<1> QED
  BY <1>2, SockFacts, Zenon DEF SocksOwned

\* Where a handler deletes nothing by an id it has found.
LEMMA NothingExact ==
  ASSUME NEW p \in Procs,
         pc'[p] \notin {"a_move", "a_conf", "a_rollback", "d_del", "b_flush4", "b_flush6", "b_del",
                       "g_reap", "g_sock"}
  PROVE  Exact(p)'
BY DEF Exact

\* What a handler deletes by next still has the name it went by.
LEMMA HandlerExact ==
  ASSUME SockInv, NEW p \in Procs, HandlerStep(p)
  PROVE  Exact(p)'
<1>0. /\ CoreInv /\ GroutTypeOK /\ PortsOK /\ Learned(p) /\ Exact(p)
      /\ req[p].verb \in VerbsAt(pc[p])
      /\ pc \in [Procs -> Labels] /\ port \in [Procs -> Ids \union {0}]
      /\ br \in [Procs -> Ids \union {0}]
      /\ todo \in [Procs -> SUBSET (Ids \X PortNames)]
  BY SockFacts
<1>m. Moves(p) /\ UNCHANGED <<conn, req>>
  BY <1>0, HandlerMoves, ZenonT(60) DEF Moves, procVars
<1> USE <1>0 DEF Goto, Fail
<1>1. CASE AddIpam(p) \/ EnsureBridgeList(p) \/ EnsureBridgeCreate(p) \/ EnsureBridgeRelist(p)
           \/ AddGateway(p)
  <2>1. pc'[p] \in {"a_list", "a_mkbr", "a_relist", "a_addr", "a_port", "ipamdel", "ret"}
    BY <1>1, Zenon DEF AddIpam, EnsureBridgeList, EnsureBridgeCreate, EnsureBridgeRelist, AddGateway,
      BridgeReady, AfterGateway
  <2> QED
    BY <2>1, NothingExact
<1>2. CASE AddPodPort(p)
  <2>1. ASSUME NEW i \in Ids, AddPort(i, MyName(p), br[p], Virtio(p)),
               port' = [port EXCEPT ![p] = i], pc'[p] \in {"ret", "a_move"}
        PROVE  Exact(p)'
    <3>1. iface'[i].name = MyName(p) /\ port'[p] = i
      BY <2>1, ZenonT(60) DEF AddPort, NewIface, GroutTypeOK
    <3> QED
      BY <1>m, <2>1, <3>1, ZenonT(60) DEF Exact, MyName
  <2>2. CASE pc'[p] = "ipamdel"
    BY <2>2, NothingExact, ZenonT(60)
  <2> QED
    BY <1>2, <2>1, <2>2, Zenon DEF AddPodPort
<1>3. CASE moveLinkToNamespace(p) \/ configurePodInterface(p)
  <2>1. pc[p] \in {"a_move", "a_conf"} /\ pc'[p] \in {"a_conf", "a_rollback", "ret"}
    BY <1>3 DEF moveLinkToNamespace, configurePodInterface, NetdevStep
  <2>2. UNCHANGED <<iface, port>>
    BY <1>3, ZenonT(60) DEF moveLinkToNamespace, configurePodInterface, NetdevStep, locals
  <2> QED
    BY <1>m, <2>1, <2>2, Zenon DEF Exact, MyName
<1>4. CASE cleanupAfterAddFailure(p) \/ ipamDel(p) \/ DelPort(p) \/ DelSocket(p) \/ HandleCheck(p)
           \/ gcIPAM(p) \/ BridgeGCDel(p)
  <2>1. pc'[p] \in {"ipamdel", "ret", "d_sock", "b_list", "c_pod", "g_ipam"}
    BY <1>4, Zenon DEF cleanupAfterAddFailure, ipamDel, DelPort, DelSocket, HandleCheck, CheckList,
      CheckPodSide, gcIPAM, BridgeGCDel, AfterBridgeGC
  <2> QED
    BY <2>1, NothingExact, Zenon
<1>5. CASE DelList(p)
  BY <1>5, Zenon DEF DelList, Listed, Refused, Exact, findByName, Named, procVars, MyName
<1>6. CASE BridgeGCList(p)
  <2>1. CASE UNCHANGED iface /\ BridgeEmpty(br[p]) /\ pc'[p] = "b_flush4"
    <3>1. br[p] \in Ids /\ iface[br[p]].name \notin PortNames
      BY <2>1, Zenon DEF BridgeEmpty, IsBridge, PortsOK
    <3>2. UNCHANGED br
      BY <1>6, ZenonT(60) DEF BridgeGCList, locals
    <3> QED
      BY <2>1, <3>1, <3>2, Zenon DEF Exact
  <2>2. CASE pc'[p] \in {"ipamdel", "g_ipam"}
    BY <2>2, NothingExact, ZenonT(60)
  <2> QED
    BY <1>6, <2>1, <2>2, Zenon DEF BridgeGCList, AfterBridgeGC, Listed
<1>7. CASE BridgeGCFlush4(p) \/ BridgeGCFlush6(p)
  <2>1. ASSUME NEW as, SetAddrs(br[p], as) PROVE iface'[br[p]].name = iface[br[p]].name
    BY <2>1 DEF SetAddrs, Exists, NewIface, GroutTypeOK
  <2>2. iface'[br[p]].name = iface[br[p]].name
    BY <1>7, <2>1, Zenon DEF BridgeGCFlush4, BridgeGCFlush6, Refused
  <2>3. UNCHANGED br /\ pc[p] \in {"b_flush4", "b_flush6"} /\ pc'[p] \in {"b_flush6", "b_del"}
    BY <1>7, Zenon DEF BridgeGCFlush4, BridgeGCFlush6, locals
  <2> QED
    BY <1>m, <2>2, <2>3, ZenonT(60) DEF Exact
<1>8. CASE GCList(p)
  <2>1. ASSUME NEW b, todo' = [todo EXCEPT ![p] = StalePorts(b, req[p].valid)], UNCHANGED iface,
               pc'[p] \in {"g_reap", "g_ipam"}
        PROVE  Exact(p)'
    BY <2>1, Zenon DEF Exact, StalePorts
  <2>2. CASE pc'[p] \in {"g_ipam", "ret"}
    BY <2>2, NothingExact, Zenon
  <2> QED
    BY <1>8, <2>1, <2>2, Zenon DEF GCList, AfterReap, Listed
<1>9. CASE GCReap(p)
  <2>1. PICK t \in todo[p] :
          \/ /\ Served(p) /\ DelIface(t[1])
             /\ port' = [port EXCEPT ![p] = t[1]]
             /\ pc'[p] = "g_sock"
             /\ UNCHANGED todo
          \/ /\ UNCHANGED <<iface, port>>
             /\ todo' = [todo EXCEPT ![p] = todo[p] \ {t}]
             /\ pc'[p] \in {"g_reap", "b_list", "g_ipam"}
    BY <1>9, Zenon DEF GCReap, Refused, AfterReap
  <2>0. pc[p] = "g_reap"
    BY <1>9, Zenon DEF GCReap
  <2>2. CASE Served(p) /\ DelIface(t[1]) /\ UNCHANGED todo /\ pc'[p] = "g_sock"
    <3>1. \A j \in Ids : j # t[1] => iface'[j] = iface[j]
      BY <2>2, Zenon DEF DelIface, GroutTypeOK
    <3>2. port'[p] = t[1]
      BY <2>1, <2>2, Zenon
    <3>3. conn[p] = "open" /\ \A u \in todo[p] : u[1] \in Ids
      BY <2>2, StaleIds, Zenon DEF Served
    <3> QED
      BY <1>m, <2>0, <2>2, <3>1, <3>2, <3>3, Zenon DEF Exact
  <2>3. CASE UNCHANGED iface /\ todo' = [todo EXCEPT ![p] = todo[p] \ {t}]
             /\ pc'[p] \in {"g_reap", "b_list", "g_ipam"}
    BY <1>m, <2>0, <2>3, ZenonT(60) DEF Exact
  <2> QED
    BY <2>1, <2>2, <2>3, ZenonT(60)
<1>10. CASE GCSocket(p)
  <2>1. PICK t \in todo[p] :
          /\ t[1] = port[p]
          /\ UNCHANGED iface
          /\ todo' = [todo EXCEPT ![p] = todo[p] \ {t}]
          /\ pc'[p] \in {"g_reap", "b_list"}
    BY <1>10, Zenon DEF GCSocket, removeVhostSocket, AfterReap
  <2>2. /\ pc[p] = "g_sock" /\ \A u \in todo[p] : u[1] = port[p] => u = t
    BY <1>10, <2>1, ZenonT(60) DEF GCSocket, Learned
  <2>3. todo'[p] = todo[p] \ {t}
    BY <2>1, ZenonT(60)
  <2> QED
    BY <1>m, <2>1, <2>2, <2>3, Zenon DEF Exact
<1> QED
  BY <1>1, <1>2, <1>3, <1>4, <1>5, <1>6, <1>7, <1>8, <1>9, <1>10, ZenonT(60)
  DEF HandlerStep, HandleAdd, HandleDel, gcBridgeIfEmpty, HandleGC

\* A delete takes the port of one name away, and may take its file.
LEMMA DelSocks ==
  ASSUME GroutTypeOK, NEW i, DelIface(i)
  PROVE  /\ socks' \subseteq socks
         /\ \A n : n # iface[i].name /\ Named(n) # {} => Named(n)' # {}
<1>1. \A j \in Ids : j # i => iface'[j] = iface[j]
  BY DEF GroutTypeOK, DelIface
<1> QED
  BY <1>1 DEF DelIface, Named

\* A step of a handler adds a socket file only with the port that HandleAdd
\* creates, and then the handler returns.
LEMMA HandlerSocks ==
  ASSUME SockInv, NEW p \in Procs, HandlerStep(p)
  PROVE  \/ socks' \subseteq socks
         \/ /\ pc[p] = "a_port" /\ pc'[p] = "ret" /\ req[p].verb = "ADD"
            /\ socks' = socks \union {MyName(p)}
<1>0. GroutTypeOK /\ req[p].verb \in VerbsAt(pc[p]) /\ pc \in [Procs -> Labels]
  BY SockFacts
<1>1. CASE UNCHANGED socks
  BY <1>1
<1>2. CASE AddPodPort(p)
  <2>1. pc[p] = "a_port" /\ req[p].verb = "ADD"
    BY <1>0, <1>2, ZenonT(60) DEF AddPodPort, VerbsAt
  <2>2. ASSUME NEW i \in Ids, AddPort(i, MyName(p), br[p], Virtio(p)),
               Goto(p, IF Virtio(p) \/ req[p].att \in NoNetns THEN "ret" ELSE "a_move")
        PROVE  UNCHANGED socks \/ (socks' = socks \union {MyName(p)} /\ pc'[p] = "ret")
    BY <1>0, <2>2, VirtioBoolean DEF AddPort, Goto
  <2> QED
    BY <1>1, <1>2, <2>1, <2>2, Zenon DEF AddPodPort, Refused
<1>3. CASE cleanupAfterAddFailure(p) \/ DelPort(p) \/ BridgeGCDel(p) \/ GCReap(p)
  BY <1>0, <1>1, <1>3, DelSocks, Zenon
  DEF cleanupAfterAddFailure, DelPort, BridgeGCDel, GCReap, TryDel, Refused
<1>4. CASE DelSocket(p) \/ GCSocket(p)
  BY <1>4, Zenon DEF DelSocket, GCSocket, removeVhostSocket
<1>5. CASE AddIpam(p) \/ EnsureBridgeList(p) \/ EnsureBridgeCreate(p) \/ EnsureBridgeRelist(p)
           \/ AddGateway(p) \/ moveLinkToNamespace(p) \/ configurePodInterface(p) \/ ipamDel(p)
           \/ DelList(p) \/ BridgeGCList(p) \/ BridgeGCFlush4(p) \/ BridgeGCFlush6(p)
           \/ HandleCheck(p) \/ GCList(p) \/ gcIPAM(p)
  BY <1>1, <1>5, Zenon DEF AddIpam, EnsureBridgeList, EnsureBridgeCreate, EnsureBridgeRelist,
    AddGateway, moveLinkToNamespace, configurePodInterface, NetdevStep, ipamDel, DelList,
    BridgeGCList, BridgeGCFlush4, BridgeGCFlush6, HandleCheck, CheckList, CheckPodSide, GCList,
    gcIPAM, Listed, Refused, AddBridge, SetAddrs, groutVars
<1> QED
  BY <1>2, <1>3, <1>4, <1>5, ZenonT(60) DEF HandlerStep, HandleAdd, HandleDel, gcBridgeIfEmpty, HandleGC

\* No step of a handler leaves a file alone: with the port goes the handler on
\* to the file.
LEMMA HandlerOwned ==
  ASSUME SockInv, NEW p \in Procs, HandlerStep(p)
  PROVE  SocksOwned'
<1>0. /\ CoreInv /\ GroutTypeOK /\ PortsOK /\ SocketsSafe /\ Learned(p) /\ Exact(p)
      /\ SocketGone(p) /\ req[p].verb \in VerbsAt(pc[p]) /\ socks \subseteq PortNames
      /\ pc \in [Procs -> Labels] /\ port \in [Procs -> Ids \union {0}]
      /\ todo \in [Procs -> SUBSET (Ids \X PortNames)]
  BY SockFacts, ZenonT(60)
<1>m. Moves(p) /\ UNCHANGED <<conn, req>>
  BY <1>0, HandlerMoves DEF Moves, procVars
<1>r. pc[p] \notin {"d_sock", "g_sock"} => \A n \in socks : Named(n) # {}
  BY <1>m, SocksPorts, Zenon DEF Moves
<1>q. \A q \in Procs : q # p => \A n : ~Removing(q, n)
  BY <1>0, <1>m DEF CoreInv, LockOwnership, Moves, Removing, Critical
\* A step that deletes no port leaves every file its owner.
<1>s. ASSUME pc[p] \notin {"d_sock", "g_sock"}, socks' \subseteq socks,
             \A n \in socks : Named(n) # {} => Named(n)' # {}
      PROVE  SocksOwned'
  BY <1>r, <1>s DEF SocksOwned
<1>u. CASE UNCHANGED <<iface, socks>> /\ pc[p] \notin {"d_sock", "g_sock"}
  BY <1>s, <1>u, ZenonT(60) DEF Named
\* So does a delete of an interface without a file.
<1>d. ASSUME NEW i, DelIface(i), iface[i].name \notin socks, pc[p] \notin {"d_sock", "g_sock"}
      PROVE  SocksOwned'
  BY <1>0, <1>d, <1>s, DelSocks
<1>1. CASE EnsureBridgeCreate(p)
  <2>1. ASSUME NEW i \in Ids, NEW n, AddBridge(i, n)
        PROVE  UNCHANGED socks /\ \A m \in socks : Named(m) # {} => Named(m)' # {}
    <3>1. \A j \in Ids : j # i => iface'[j] = iface[j]
      BY <1>0, <2>1 DEF AddBridge, GroutTypeOK
    <3>2. iface[i].name \notin PortNames
      BY <1>0, <2>1, ZenonT(60) DEF AddBridge, CanAdd, Exists, PortsOK
    <3> QED
      BY <1>0, <2>1, <3>1, <3>2, ZenonT(60) DEF AddBridge, Named
  <2>2. pc[p] = "a_mkbr"
    BY <1>1, Zenon DEF EnsureBridgeCreate
  <2> QED
    BY <1>1, <1>s, <1>u, <2>1, <2>2, Zenon DEF EnsureBridgeCreate, Refused
<1>2. CASE AddGateway(p) \/ BridgeGCFlush4(p) \/ BridgeGCFlush6(p)
  <2>1. ASSUME NEW as, SetAddrs(br[p], as)
        PROVE  UNCHANGED socks /\ \A m \in socks : Named(m) # {} => Named(m)' # {}
    <3>1. \A j \in Ids : iface'[j].name = iface[j].name
      BY <1>0, <2>1, ZenonT(60) DEF SetAddrs, NewIface, GroutTypeOK
    <3> QED
      BY <2>1, <3>1, Zenon DEF SetAddrs, Named
  <2>2. pc[p] \in {"a_addr", "b_flush4", "b_flush6"}
    BY <1>2 DEF AddGateway, BridgeGCFlush4, BridgeGCFlush6
  <2>3. (\E as : SetAddrs(br[p], as)) \/ UNCHANGED <<iface, socks>>
    BY <1>2, Zenon DEF AddGateway, BridgeGCFlush4, BridgeGCFlush6, Refused
  <2> QED
    BY <1>s, <1>u, <2>1, <2>2, <2>3, Zenon
<1>3. CASE AddPodPort(p)
  <2>1. pc[p] = "a_port"
    BY <1>3 DEF AddPodPort
  <2>2. ASSUME NEW i \in Ids, AddPort(i, MyName(p), br[p], Virtio(p)) PROVE SocksOwned'
    <3>1. /\ \A j \in Ids : j # i => iface'[j] = iface[j]
          /\ iface'[i].name = MyName(p) /\ socks' \subseteq socks \union {MyName(p)}
      BY <1>0, <2>2, VirtioBoolean, Zenon DEF AddPort, NewIface, GroutTypeOK
    <3>2. iface[i].name \notin PortNames
      BY <1>0, <2>2, Zenon DEF AddPort, CanAdd, Exists, PortsOK
    <3>3. ASSUME NEW n \in socks' PROVE Named(n)' # {}
      <4>1. CASE n = MyName(p)
        BY <3>1, <4>1 DEF Named
      <4>2. CASE n \in socks
        <5>1. PICK j \in Ids : iface[j].name = n
          BY <1>r, <2>1, <4>2, ZenonT(60) DEF Named
        <5>2. j # i
          BY <1>0, <3>2, <4>2, <5>1
        <5> QED
          BY <3>1, <5>1, <5>2 DEF Named
      <4> QED
        BY <3>1, <4>1, <4>2, ZenonT(60)
    <3> QED
      BY <3>3, Zenon DEF SocksOwned
  <2> QED
    BY <1>3, <1>u, <2>1, <2>2, ZenonT(60) DEF AddPodPort, Refused
<1>4. CASE cleanupAfterAddFailure(p)
  <2>1. pc[p] = "a_rollback" /\ req[p].verb = "ADD"
    BY <1>0, <1>4, ZenonT(60) DEF cleanupAfterAddFailure, VerbsAt
  <2>2. conn[p] = "open" => iface[port[p]].name \notin socks
    BY <1>0, <2>1 DEF Exact, SocketGone
  <2> QED
    BY <1>4, <1>d, <1>u, <2>1, <2>2, Zenon DEF cleanupAfterAddFailure, TryDel, Served, Refused
<1>5. CASE BridgeGCDel(p)
  <2>1. pc[p] = "b_del"
    BY <1>5, ZenonT(60) DEF BridgeGCDel
  <2>2. conn[p] = "open" => iface[br[p]].name \notin socks
    BY <1>0, <2>1 DEF Exact
  <2> QED
    BY <1>5, <1>d, <1>u, <2>1, <2>2, Zenon DEF BridgeGCDel, TryDel, Served, Refused
<1>6. CASE DelPort(p)
  <2>1. pc[p] = "d_del" /\ pc'[p] = "d_sock"
    BY <1>0, <1>6 DEF DelPort, Goto
  <2>2. \A n : n = MyName(p) => Removing(p, n)'
    BY <1>m, <2>1 DEF Removing, MyName
  <2>3. ASSUME Served(p), DelIface(port[p]) PROVE SocksOwned'
    <3>1. iface[port[p]].name = MyName(p)
      BY <1>0, <2>1, <2>3, ZenonT(60) DEF Exact, Served
    <3>2. socks' \subseteq socks /\ \A n \in socks : n # MyName(p) => Named(n)' # {}
      BY <1>0, <1>r, <2>1, <2>3, <3>1, DelSocks, Zenon
    <3> QED
      BY <2>2, <3>2, Zenon DEF SocksOwned
  <2> QED
    BY <1>6, <1>u, <2>1, <2>3, Zenon DEF DelPort, TryDel, Refused
<1>7. CASE GCReap(p)
  <2>1. pc[p] = "g_reap"
    BY <1>7, Zenon DEF GCReap
  <2>2. ASSUME NEW t \in todo[p], Served(p), DelIface(t[1]), port' = [port EXCEPT ![p] = t[1]],
               Goto(p, "g_sock"), UNCHANGED todo
        PROVE  SocksOwned'
    <3>0. t \in Ids \X PortNames
      BY <1>0, Zenon
    <3>1. iface[t[1]].name = t[2] /\ t = <<t[1], t[2]>>
      <4>1. iface[t[1]].name = t[2]
        BY <1>0, <2>1, <2>2, Zenon DEF Exact, Served
      <4> QED
        BY <3>0, <4>1
    <3>2. socks' \subseteq socks /\ \A n \in socks : n # t[2] => Named(n)' # {}
      BY <1>0, <1>r, <2>1, <2>2, <3>1, DelSocks, ZenonT(60)
    <3>3. Removing(p, t[2])'
      BY <1>0, <2>2, <3>1, Zenon DEF Removing, Goto
    <3> QED
      BY <3>2, <3>3, ZenonT(60) DEF SocksOwned
  <2> QED
    BY <1>7, <1>u, <2>1, <2>2, Zenon DEF GCReap, Refused
<1>8. CASE DelSocket(p)
  <2>1. pc[p] = "d_sock" /\ socks' = socks \ {MyName(p)} /\ UNCHANGED iface
    BY <1>0, <1>8 DEF DelSocket, removeVhostSocket, Fault, SocketsSafe
  <2>2. \A n \in socks' : Named(n) # {}
    BY <1>q, <2>1, SockFacts, ZenonT(60) DEF SocksOwned, Removing
  <2> QED
    BY <2>1, <2>2, ZenonT(60) DEF SocksOwned, Named
<1>9. CASE GCSocket(p)
  <2>0. pc[p] = "g_sock"
    BY <1>9, ZenonT(60) DEF GCSocket
  <2>1. PICK t \in todo[p] : t[1] = port[p] /\ socks' = socks \ {t[2]} /\ UNCHANGED iface
    BY <1>0, <1>9 DEF GCSocket, removeVhostSocket, Fault, SocketsSafe
  <2>2. \A u \in todo[p] : u[1] = port[p] => u = t
    BY <1>0, <2>0, <2>1, ZenonT(60) DEF Learned
  <2>3. \A n \in socks' : ~Removing(p, n)
    <3> SUFFICES ASSUME NEW n \in socks', Removing(p, n) PROVE FALSE
      BY Zenon
    <3>1. <<port[p], n>> \in todo[p]
      BY <2>0 DEF Removing
    <3>2. <<port[p], n>>[1] = port[p] /\ <<port[p], n>>[2] = n
      OBVIOUS
    <3>3. n = t[2]
      BY <2>2, <3>1, <3>2, Zenon
    <3> QED
      BY <2>1, <3>3, Zenon
  <2>4. \A n \in socks' : Named(n) # {}
    BY <1>q, <2>1, <2>3, SockFacts, Zenon DEF SocksOwned
  <2> QED
    BY <2>1, <2>4 DEF SocksOwned, Named
<1>10. CASE AddIpam(p) \/ EnsureBridgeList(p) \/ EnsureBridgeRelist(p) \/ moveLinkToNamespace(p)
            \/ configurePodInterface(p) \/ ipamDel(p) \/ DelList(p) \/ BridgeGCList(p)
            \/ HandleCheck(p) \/ GCList(p) \/ gcIPAM(p)
  <2>1. UNCHANGED <<iface, socks>>
    BY <1>10, Zenon DEF AddIpam, EnsureBridgeList, EnsureBridgeRelist, moveLinkToNamespace,
      configurePodInterface, NetdevStep, ipamDel, DelList, BridgeGCList, HandleCheck, CheckList,
      CheckPodSide, GCList, gcIPAM, Listed, Refused, groutVars
  <2>2. pc[p] \notin {"d_sock", "g_sock"}
    BY <1>10, Zenon DEF AddIpam, EnsureBridgeList, EnsureBridgeRelist, moveLinkToNamespace,
      configurePodInterface, ipamDel, DelList, BridgeGCList, HandleCheck, CheckList,
      CheckPodSide, GCList, gcIPAM
  <2> QED
    BY <1>u, <2>1, <2>2, Zenon
<1> QED
  BY <1>1, <1>2, <1>3, <1>4, <1>5, <1>6, <1>7, <1>8, <1>9, <1>10, ZenonT(60)
  DEF HandlerStep, HandleAdd, HandleDel, gcBridgeIfEmpty, HandleGC

\* What a handler has achieved for its own attachment.
LEMMA HandlerGone ==
  ASSUME SockInv, NEW p \in Procs, HandlerStep(p)
  PROVE  SocketGone(p)'
<1>0. /\ CoreInv /\ SocketsSafe /\ SocketGone(p) /\ req[p].verb \in VerbsAt(pc[p])
      /\ pc \in [Procs -> Labels] /\ err \in [Procs -> BOOLEAN]
  BY SockFacts, Zenon
<1>m. Moves(p) /\ UNCHANGED req /\ UNCHANGED MyName(p)
  BY <1>0, HandlerMoves DEF Moves, procVars, MyName
<1>s. \/ socks' \subseteq socks
      \/ pc'[p] = "ret" /\ req[p].verb = "ADD"
  BY HandlerSocks, ZenonT(60)
<1>1. CASE req[p].verb = "ADD"
  <2>1. pc[p] \notin {"ret", "exit"}
    <3>1. pc[p] # "ret"
      BY Zenon DEF HandlerStep, HandleAdd, HandleDel, gcBridgeIfEmpty, HandleCheck, HandleGC,
        AddIpam, EnsureBridgeList, EnsureBridgeCreate, EnsureBridgeRelist, AddGateway, AddPodPort,
        moveLinkToNamespace, configurePodInterface, cleanupAfterAddFailure, ipamDel, DelList,
        DelPort, DelSocket, BridgeGCList, BridgeGCFlush4, BridgeGCFlush6, BridgeGCDel, CheckList,
        CheckPodSide, GCList, GCReap, GCSocket, gcIPAM
    <3> QED
      BY <1>m, <3>1, ZenonT(60) DEF Moves, Critical
  <2> QED
    BY <1>0, <1>1, <1>m, <1>s, <2>1, Zenon DEF SocketGone
<1>2. CASE req[p].verb = "DEL"
  <2>0. socks' \subseteq socks
    BY <1>2, <1>s, Zenon
  <2>g. ASSUME MyName(p) \notin socks' PROVE SocketGone(p)'
    BY <1>m, <2>g, Zenon DEF SocketGone
  <2>1. CASE DelList(p)
    <3>1. CASE pc'[p] = "d_del" \/ (pc'[p] = "ret" /\ err'[p])
      BY <1>2, <1>m, <3>1, Zenon DEF SocketGone
    <3>2. CASE Named(MyName(p)) = {}
      <4>1. pc[p] = "d_list"
        BY <2>1, Zenon DEF DelList
      <4>2. MyName(p) \notin socks
        BY <3>2, <4>1, SocksPorts, ZenonT(60) DEF Critical
      <4> QED
        BY <2>0, <2>g, <4>2, ZenonT(60)
    <3> QED
      BY <1>0, <2>1, <3>1, <3>2, Zenon DEF DelList, findByName, Goto, Fail
  <2>2. CASE DelPort(p)
    BY <1>0, <1>2, <1>m, <2>2 DEF DelPort, Goto, SocketGone
  <2>3. CASE DelSocket(p)
    <3>1. MyName(p) \notin socks'
      BY <1>0, <2>3, ZenonT(60) DEF DelSocket, removeVhostSocket, Fault, SocketsSafe
    <3> QED
      BY <2>g, <3>1, Zenon
  <2>4. CASE gcBridgeIfEmpty(p) \/ ipamDel(p)
    <3>1. pc[p] \in {"b_list", "b_flush4", "b_flush6", "b_del", "ipamdel"}
      BY <2>4, Zenon DEF gcBridgeIfEmpty, BridgeGCList, BridgeGCFlush4, BridgeGCFlush6, BridgeGCDel,
        ipamDel
    <3> QED
      BY <1>0, <1>2, <2>0, <2>g, <3>1, Zenon DEF SocketGone
  <2>5. CASE (HandleAdd(p) /\ ~ipamDel(p)) \/ HandleCheck(p) \/ HandleGC(p)
    BY <1>0, <1>2, <2>5, ZenonT(60) DEF HandleAdd, AddIpam, EnsureBridgeList, EnsureBridgeCreate,
      EnsureBridgeRelist, AddGateway, AddPodPort, moveLinkToNamespace, configurePodInterface,
      cleanupAfterAddFailure, HandleCheck, CheckList, CheckPodSide, HandleGC, GCList, GCReap,
      GCSocket, gcIPAM, VerbsAt
  <2> QED
    BY <2>1, <2>2, <2>3, <2>4, <2>5, ZenonT(60) DEF HandlerStep, HandleDel
<1>3. CASE req[p].verb \notin {"ADD", "DEL"}
  BY <1>3, <1>m DEF SocketGone
<1> QED
  BY <1>1, <1>2, <1>3

\* The handler steps keep the invariant.
LEMMA HandlerSock ==
  ASSUME SockInv, NEW p \in Procs, HandlerStep(p)
  PROVE  SockInv'
<1>0. /\ PortInv /\ CoreInv /\ CallsApart /\ SocketsSafe /\ NoSocketLeak
      /\ Moves(p) /\ UNCHANGED <<req, rt>> /\ req[p].verb \in VerbsAt(pc[p])
      /\ pc \in [Procs -> Labels] /\ err \in [Procs -> BOOLEAN]
  BY SockFacts, HandlerMoves, HandlerKeeps, Zenon
<1>1. PortInv' /\ CallsApart' /\ SocketsSafe'
  BY <1>0, HandlerPort, ZenonT(60) DEF CallsApart, SocketsSafe
<1>s. ASSUME NEW a \in Attachments, PortName[a] \notin socks, req[p].verb = "ADD" => req[p].att # a
      PROVE  PortName[a] \notin socks'
  <2>1. req[p].verb = "ADD" => req[p].att \in Attachments
    BY <1>0, CallFacts, ZenonT(60)
  <2> QED
    BY <1>s, <2>1, HandlerSocks, PortNamesDistinct DEF MyName
<1>2. NoSocketLeak'
  <2> SUFFICES ASSUME NEW a \in Attachments, rt[a] = "absent" PROVE PortName[a] \notin socks'
    BY <1>0 DEF NoSocketLeak
  <2> QED
    BY <1>0, <1>s, ZenonT(60) DEF NoSocketLeak, CallsApart
<1>3. ASSUME NEW q \in Procs, q # p PROVE Exact(q)' /\ SocketGone(q)'
  <2>1. pc'[q] = pc[q] /\ pc[q] \notin Critical
    BY <1>0, <1>3 DEF CoreInv, LockOwnership, Moves
  <2>2. err'[q] = err[q]
    BY <1>0, <1>3, Zenon DEF Moves
  <2>3. req[q].verb \in {"ADD", "DEL"} /\ MyName(q) \notin socks => MyName(q) \notin socks'
    <3>1. req[q].verb \in {"ADD", "DEL"} => req[q].att \in Attachments
      BY <1>0, CallFacts, Zenon
    <3>2. req[q].verb \in {"ADD", "DEL"} => req[p].att # req[q].att
      BY <1>0, <1>3, <3>1, CNIAssumption, Zenon DEF CallsApart
    <3> QED
      BY <1>s, <3>1, <3>2, Zenon DEF MyName
  <2>4. Exact(q)'
    BY <2>1, NothingExact, Zenon DEF Critical
  <2>5. SocketGone(q)'
    BY <1>0, <2>1, <2>2, <2>3, SockFacts, Zenon DEF SocketGone, MyName
  <2> QED
    BY <2>4, <2>5, ZenonT(60)
<1> QED
  BY <1>1, <1>2, <1>3, HandlerOwned, HandlerExact, HandlerGone, Zenon DEF SockInv

\* Where a process is before and after a step around the handlers.
LEMMA CallLabels ==
  ASSUME NEW p \in Procs, CallStep(p), ~Kill(p), pc \in [Procs -> Labels],
         req[p].verb \in VerbsAt(pc[p])
  PROVE  /\ pc[p] \in {"dial", "lock", "ret", "exit", "idle"}
         /\ pc'[p] \in {"exit", "lock", "a_ipam", "d_list", "c_list", "g_list", "idle", "dial"}
<1>1. CASE Dial(p) \/ LockFails(p) \/ Unlock(p)
  BY <1>1, Zenon DEF Dial, LockFails, Unlock, Goto, Fail
<1>2. CASE Acquire(p)
  <2>1. req[p].verb \in {"ADD", "DEL", "CHECK", "GC"}
    BY <1>2 DEF Acquire, VerbsAt, Verbs
  <2> QED
    BY <1>2, <2>1, HandlerLabel, ZenonT(60) DEF Acquire, Goto
<1>3. CASE Exit(p)
  BY <1>3 DEF Exit, Gone, Goto
<1>4. CASE Runtime(p)
  BY <1>4, Zenon DEF Runtime, InvokeAdd, InvokeDel, InvokeCheck, InvokeGC, InvokeStatus, Invoke, Goto
<1> QED
  BY <1>1, <1>2, <1>3, <1>4, Zenon DEF CallStep

\* The runtime starts an ADD for an attachment without a socket file, and gets
\* to know that it is absent when DEL has removed the file.
LEMMA CallSock ==
  ASSUME SockInv, NEW p \in Procs, CallStep(p)
  PROVE  SockInv'
<1>0. /\ PortInv /\ CoreInv /\ CallsApart /\ SocketsSafe /\ NoSocketLeak /\ SocksOwned
      /\ UNCHANGED <<groutVars, ipam>> /\ SocketGone(p) /\ req[p].verb \in VerbsAt(pc[p])
      /\ pc \in [Procs -> Labels] /\ err \in [Procs -> BOOLEAN] /\ req \in [Procs -> Requests]
      /\ rt \in [Attachments -> {"absent", "attached", "failed"}]
  BY SockFacts, CallKeeps, Zenon DEF CoreInv, TypeOK
<1>u. UNCHANGED <<iface, socks>>
  BY <1>0 DEF groutVars
<1>k. ~Kill(p)
  BY <1>0 DEF Kill, Fault, SocketsSafe
<1>1. PortInv' /\ CallsApart' /\ SocketsSafe'
  BY <1>0, CallPort, CallApart DEF CallStep, SocketsSafe
<1>p. /\ pc[p] \in {"dial", "lock", "ret", "exit", "idle"}
      /\ pc'[p] \in {"exit", "lock", "a_ipam", "d_list", "c_list", "g_list", "idle", "dial"}
  BY <1>0, <1>k, CallLabels, Zenon
<1>2. NoSocketLeak'
  <2> SUFFICES ASSUME NEW a \in Attachments, rt'[a] = "absent" PROVE PortName[a] \notin socks
    BY <1>u DEF NoSocketLeak
  <2>1. CASE Exit(p)
    BY <1>0, <2>1 DEF Exit, NoSocketLeak, SocketGone, MyName
  <2>2. CASE ~Exit(p)
    BY <1>0, <2>2, Zenon DEF CallStep, Dial, Acquire, LockFails, Unlock, Kill, Runtime, InvokeAdd,
      InvokeDel, InvokeCheck, InvokeGC, InvokeStatus, hostVars, NoSocketLeak
  <2> QED
    BY <2>1, <2>2, Zenon
<1>3. ASSUME NEW q \in Procs, q # p
      PROVE  /\ Exact(q)' /\ SocketGone(q)'
             /\ \A n : Removing(q, n)' <=> Removing(q, n)
  <2>1. /\ conn'[q] = conn[q] /\ pc'[q] = pc[q] /\ port'[q] = port[q] /\ br'[q] = br[q]
        /\ todo'[q] = todo[q] /\ err'[q] = err[q] /\ req'[q] = req[q]
    BY <1>0, <1>3, CallKeeps, Zenon
  <2>2. Exact(q) /\ SocketGone(q)
    BY SockFacts, ZenonT(60)
  <2>3. Exact(q)'
    BY <1>u, <2>1, <2>2, Zenon DEF Exact, MyName
  <2>4. SocketGone(q)'
    BY <1>u, <2>1, <2>2, ZenonT(60) DEF SocketGone, MyName
  <2>5. \A n : Removing(q, n)' <=> Removing(q, n)
    <3>1. MyName(q)' = MyName(q)
      BY <2>1, Zenon DEF MyName
    <3> QED
      BY <2>1, <3>1, ZenonT(60) DEF Removing
  <2> QED
    BY <2>3, <2>4, <2>5, ZenonT(60)
<1>4. SocksOwned'
  <2>1. \A n : ~Removing(p, n)
    BY <1>p, Zenon DEF Removing
  <2> QED
    BY <1>0, <1>u, <1>3, <2>1, Zenon DEF SocksOwned, Named
<1>5. Exact(p)'
  BY <1>p, NothingExact
<1>6. SocketGone(p)'
  <2>1. CASE Dial(p) \/ LockFails(p)
    <3>1. \/ pc'[p] = "exit" /\ (err'[p] \/ req'[p].verb \notin {"ADD", "DEL"})
          \/ pc[p] = "dial" /\ pc'[p] = "lock" /\ UNCHANGED <<req, err>>
      BY <1>0, <2>1, Zenon DEF Dial, LockFails, Goto, Fail
    <3> QED
      BY <1>0, <1>u, <3>1, Zenon DEF SocketGone, MyName
  <2>2. CASE Acquire(p)
    <3>1. /\ pc[p] = "lock" /\ pc'[p] = Handler[req[p].verb] /\ UNCHANGED <<req, err>>
          /\ req[p].verb \in {"ADD", "DEL", "CHECK", "GC"}
      BY <1>0, <2>2, Zenon DEF Acquire, Goto, VerbsAt, Verbs
    <3>2. pc'[p] \in {"a_ipam", "d_list", "c_list", "g_list"}
      BY <3>1, HandlerLabel, Zenon
    <3> QED
      BY <1>0, <1>u, <3>1, <3>2, Zenon DEF SocketGone, MyName
  <2>3. CASE Unlock(p)
    <3>1. pc[p] = "ret" /\ pc'[p] = "exit" /\ UNCHANGED <<req, err>>
      BY <1>0, <2>3, Zenon DEF Unlock, Goto
    <3> QED
      BY <1>0, <1>u, <3>1 DEF SocketGone, MyName
  <2>4. CASE Exit(p)
    <3>1. req'[p].verb = "none"
      BY <1>0, <2>4 DEF Exit, Gone, NoRequest, Request
    <3> QED
      BY <3>1 DEF SocketGone
  <2>5. CASE Runtime(p)
    <3>1. pc'[p] = "dial"
      BY <1>0, <2>5, Zenon DEF Runtime, InvokeAdd, InvokeDel, InvokeCheck, InvokeGC, InvokeStatus,
        Invoke, Goto
    <3>2. ASSUME req'[p].verb = "ADD" PROVE MyName(p)' \notin socks
      <4>1. ASSUME NEW v, NEW a, NEW n, NEW valid, Invoke(p, v, a, n, valid)
            PROVE  req'[p].verb = v /\ req'[p].att = a
        BY <1>0, <4>1, Zenon DEF Invoke, Request
      <4>2. ~\E n \in Networks : InvokeGC(p, n) \/ InvokeStatus(p, n)
        BY <3>2, <4>1, Zenon DEF InvokeGC, InvokeStatus
      <4>3. ~\E a \in Attachments : InvokeDel(p, a) \/ InvokeCheck(p, a)
        BY <3>2, <4>1, Zenon DEF InvokeDel, InvokeCheck
      <4>4. PICK a \in Attachments : InvokeAdd(p, a)
        BY <2>5, <4>2, <4>3, ZenonT(60) DEF Runtime
      <4>5. req'[p].att = a /\ rt[a] = "absent"
        BY <4>1, <4>4 DEF InvokeAdd
      <4> QED
        BY <1>0, <4>5, Zenon DEF NoSocketLeak, MyName
    <3> QED
      BY <1>u, <3>1, <3>2 DEF SocketGone
  <2> QED
    BY <1>k, <2>1, <2>2, <2>3, <2>4, <2>5, Zenon DEF CallStep
<1> QED
  BY <1>1, <1>2, <1>3, <1>4, <1>5, <1>6, Zenon DEF SockInv

\* What the others do with grout leaves the plugin's ports and files alone.
LEMMA EnvironmentSock ==
  ASSUME SockInv,
         GroutCrash \/ GroutRestart \/ ForeignStep \/ \E a \in Attachments : NetdevDrift(a)
  PROVE  SockInv'
<1>0. /\ PortInv /\ CoreInv /\ GroutTypeOK /\ PortsOK /\ CallsApart /\ SocketsSafe /\ NoSocketLeak
      /\ SocksOwned /\ socks \subseteq PortNames
      /\ todo \in [Procs -> SUBSET (Ids \X PortNames)] /\ ~GroutCrash
  BY SockFacts, Zenon DEF GroutCrash, Fault, SocketsSafe
<1>u. UNCHANGED <<rt, pc, req, br, port, todo, err, conn, socks>>
  BY <1>0, Zenon DEF GroutRestart, Restart, ForeignStep, ForeignAdd, ForeignDel, NetdevDrift, hostVars,
    procVars, locals
<1>1. PortInv' /\ CallsApart' /\ SocketsSafe' /\ NoSocketLeak'
  BY <1>0, <1>u, EnvironmentPort, ForeignPort, ZenonT(60) DEF CallsApart, SocketsSafe, NoSocketLeak
<1>2. /\ \A j \in Ids : iface[j].name \in PortNames => iface'[j] = iface[j]
      /\ \A j \in Ids : iface'[j].name \in PortNames => iface'[j] = iface[j]
  BY <1>0, EnvironmentPortsKept
<1>3. \A n \in PortNames : Named(n)' = Named(n)
  BY <1>2 DEF Named
<1>4. SocksOwned'
  <2>1. \A p \in Procs : \A n : Removing(p, n)' <=> Removing(p, n)
    BY <1>u DEF Removing, MyName
  <2> QED
    BY <1>0, <1>u, <1>3, <2>1, Zenon DEF SocksOwned
<1>5. ASSUME NEW q \in Procs PROVE Exact(q)' /\ SocketGone(q)'
  <2>1. Exact(q) /\ SocketGone(q) /\ Learned(q) /\ CoreInv
    BY SockFacts, Zenon
  <2>2. SocketGone(q)'
    BY <1>u, <2>1, ZenonT(60) DEF SocketGone, MyName
  <2>3. Exact(q)'
    <3>1. ASSUME NEW i \in Ids, iface[i].name \in PortNames PROVE iface'[i].name = iface[i].name
      BY <1>2, <3>1
    <3>2. \A t \in todo[q] : t[1] \in Ids /\ t[2] \in PortNames
      BY <1>0, StaleIds
    <3>3. ASSUME NEW i \in Ids, iface[i].name \notin PortNames PROVE iface'[i].name \notin PortNames
      BY <1>2, <3>3, Zenon
    <3>4. UNCHANGED MyName(q)
      BY <1>u DEF MyName
    <3> QED
      BY <1>u, <2>1, <3>1, <3>2, <3>3, <3>4, ZenonT(60) DEF Exact, Learned
  <2> QED
    BY <2>2, <2>3
<1> QED
  BY <1>1, <1>4, <1>5, Zenon DEF SockInv

\* The invariant is inductive.
LEMMA NextSock == SockInv /\ [Next]_vars => SockInv'
<1> SUFFICES ASSUME SockInv, [Next]_vars PROVE SockInv'
  OBVIOUS
<1>1. ASSUME NEW p \in Procs, Step(p) \/ Runtime(p) PROVE SockInv'
  BY <1>1, HandlerSock, CallSock DEF Step, HandlerStep, CallStep
<1>2. CASE Environment
  <2>1. \A p \in Procs : ~ReplyLost(p)
    BY SockFacts DEF ReplyLost, Fault, SocketsSafe
  <2> QED
    BY <1>2, <2>1, CallSock, EnvironmentSock, Zenon DEF Environment, CallStep
<1>3. CASE UNCHANGED vars
  <2>1. PortInv' /\ CallsApart' /\ SocketsSafe' /\ NoSocketLeak'
    BY <1>3, NextPort, SockFacts, Zenon DEF vars, CallsApart, SocketsSafe, NoSocketLeak
  <2>2. SocksOwned'
    BY <1>3, SockFacts, Zenon DEF vars, SocksOwned, Removing, Named, MyName
  <2>3. \A q \in Procs : Exact(q)' /\ SocketGone(q)'
    BY <1>3, SockFacts, Zenon DEF vars, Exact, SocketGone, MyName
  <2> QED
    BY <2>1, <2>2, <2>3, Zenon DEF SockInv
<1> QED
  BY <1>1, <1>2, <1>3 DEF Next

\* When a DEL has succeeded no vhost-user socket file of the attachment is left,
\* whatever requests of ADD, DEL and GC failed before and whatever other users of
\* grout did, as long as no handler dies, grout stays up, no reply is lost and
\* files can be removed: HandleDel looks for the file only beside a port.
THEOREM DelLeavesNoSocket == SocketsSafe /\ Spec => []NoSocketLeak
<1> SUFFICES ASSUME SocketsSafe PROVE Spec => []NoSocketLeak
  OBVIOUS
<1>1. SockInv => NoSocketLeak
  BY DEF SockInv
<1> QED
  BY <1>1, InitSock, NextSock, PTL DEF Spec
=============================================================================
