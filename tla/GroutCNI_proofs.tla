-------------------------- MODULE GroutCNI_proofs --------------------------
(***************************************************************************)
(* For every number of processes, attachments, networks and failures: the  *)
(* types, the lock, the ids that the handlers delete by, what CHECK        *)
(* reports, and that an attachment stays as ADD set it up until its DEL.   *)
(***************************************************************************)
EXTENDS GroutCNI, TLAPS

-----------------------------------------------------------------------------
(* Type correctness, and that the handlers are serialised by the file      *)
(* lock.  Both need CallOK: which call a process is running follows from   *)
(* where it is.                                                            *)

\* The verbs a process can be running when it is at label l.
VerbsAt(l) ==
  IF l = "idle" THEN {"none"}
  ELSE IF l \in {"dial", "exit"} THEN Verbs
  ELSE IF l \in {"lock", "ret"} THEN Verbs \ {"STATUS"}
  ELSE IF l \in {"d_list", "d_del", "d_sock"} THEN {"DEL"}
  ELSE IF l = "ipamdel" THEN {"ADD", "DEL"}
  ELSE IF l \in {"b_list", "b_flush4", "b_flush6", "b_del"} THEN {"DEL", "GC"}
  ELSE IF l \in {"c_list", "c_pod"} THEN {"CHECK"}
  ELSE IF l \in {"g_list", "g_reap", "g_sock", "g_ipam"} THEN {"GC"}
  ELSE {"ADD"}

\* Which call a process is running follows from where it is, and its arguments
\* are those of a call.
RequestOK(r) ==
  /\ r.verb = "none" => r = NoRequest
  /\ r.verb \in {"ADD", "DEL", "CHECK"} => r.att \in Attachments /\ r.net = NetOf[r.att]
  /\ r.verb \in {"GC", "STATUS"} => r.att = None /\ r.net \in Networks

CallOK == \A p \in Procs : req[p].verb \in VerbsAt(pc[p]) /\ RequestOK(req[p])

CoreInv == TypeOK /\ LockOwnership /\ CallOK

\* The initial state, where no process runs, satisfies the core invariant.
LEMMA InitCore == Init => CoreInv
BY CNIAssumption, GroutAssumption
DEF Init, GroutInit, CoreInv, TypeOK, GroutTypeOK, LockOwnership, CallOK, VerbsAt, RequestOK,
    NoRequest, Request, Requests, Labels, Critical, Interfaces, NoIface, LinkStates, Verbs

\* A handler moves from one label of the critical section to another and keeps
\* its request, the lock and its connection; it may note an error, and the
\* environment may have injected a failure.
Moves(p) ==
  /\ UNCHANGED procVars
  /\ pc[p] \in Critical
  /\ pc' = [pc EXCEPT ![p] = pc'[p]]
  /\ pc'[p] \in Critical
  /\ req[p].verb \in VerbsAt(pc'[p])
  /\ UNCHANGED err \/ err' = [err EXCEPT ![p] = TRUE]
  /\ UNCHANGED faults \/ (faults < MaxFaults /\ faults' = faults + 1)

HandlerStep(p) ==
  HandleAdd(p) \/ HandleDel(p) \/ gcBridgeIfEmpty(p) \/ HandleCheck(p) \/ HandleGC(p)

\* Every action of a handler is such a move.
LEMMA HandlerMoves ==
  ASSUME CoreInv, NEW p \in Procs, HandlerStep(p)
  PROVE  Moves(p)
<1>0. pc \in [Procs -> Labels] /\ req[p].verb \in VerbsAt(pc[p])
  BY DEF CoreInv, CallOK, TypeOK
<1> USE <1>0 DEF Goto, Fail, Moves, locals, VerbsAt, Critical, Verbs, Fault
<1>1. CASE AddIpam(p)
  BY <1>1 DEF AddIpam
<1>2. CASE EnsureBridgeList(p)
  BY <1>2 DEF EnsureBridgeList, BridgeReady, AfterGateway, Listed, Served, Refused
<1>3. CASE EnsureBridgeCreate(p)
  BY <1>3 DEF EnsureBridgeCreate, BridgeReady, AfterGateway, Served, Refused
<1>4. CASE EnsureBridgeRelist(p)
  BY <1>4 DEF EnsureBridgeRelist, BridgeReady, AfterGateway, Listed, Served, Refused
<1>5. CASE AddGateway(p)
  BY <1>5, Zenon DEF AddGateway, AfterGateway, Served, Refused
<1>6. CASE AddPodPort(p)
  BY <1>6 DEF AddPodPort, Served, Refused
<1>7. CASE moveLinkToNamespace(p)
  BY <1>7 DEF moveLinkToNamespace, NetdevStep
<1>8. CASE configurePodInterface(p)
  BY <1>8 DEF configurePodInterface, NetdevStep
<1>9. CASE cleanupAfterAddFailure(p)
  BY <1>9 DEF cleanupAfterAddFailure, TryDel, Served, Refused
<1>10. CASE ipamDel(p)
  BY <1>10 DEF ipamDel
<1>11. CASE DelList(p)
  BY <1>11 DEF DelList, Listed, Served, Refused
<1>12. CASE DelPort(p)
  BY <1>12 DEF DelPort, TryDel, Served, Refused
<1>13. CASE DelSocket(p)
  BY <1>13 DEF DelSocket, removeVhostSocket
<1>14. CASE BridgeGCList(p)
  BY <1>14 DEF BridgeGCList, AfterBridgeGC, Listed, Served, Refused
<1>15. CASE BridgeGCFlush4(p)
  BY <1>15 DEF BridgeGCFlush4, Served, Refused
<1>16. CASE BridgeGCFlush6(p)
  BY <1>16 DEF BridgeGCFlush6, Served, Refused
<1>17. CASE BridgeGCDel(p)
  BY <1>17 DEF BridgeGCDel, AfterBridgeGC, TryDel, Served, Refused
<1>18. CASE CheckList(p)
  BY <1>18 DEF CheckList, Listed, Served, Refused
<1>19. CASE CheckPodSide(p)
  BY <1>19 DEF CheckPodSide
<1>20. CASE GCList(p)
  BY <1>20 DEF GCList, AfterReap, Listed, Served, Refused
<1>21. CASE GCReap(p)
  BY <1>21, Zenon DEF GCReap, AfterReap, Served, Refused
<1>22. CASE GCSocket(p)
  BY <1>22 DEF GCSocket, AfterReap, removeVhostSocket
<1>23. CASE gcIPAM(p)
  BY <1>23 DEF gcIPAM
<1> QED
  BY Zenon, <1>1, <1>2, <1>3, <1>4, <1>5, <1>6, <1>7, <1>8, <1>9, <1>10, <1>11, <1>12, <1>13, <1>14,
    <1>15, <1>16, <1>17, <1>18, <1>19, <1>20, <1>21, <1>22, <1>23 DEF HandlerStep, HandleAdd,
    HandleDel, gcBridgeIfEmpty, HandleCheck, HandleGC

\* A move keeps the lock with its holder and the label in step with the call.
LEMMA MovesControl ==
  ASSUME CoreInv, NEW p \in Procs, Moves(p)
  PROVE  /\ LockOwnership' /\ CallOK'
         /\ pc' \in [Procs -> Labels]
         /\ err' \in [Procs -> BOOLEAN]
         /\ faults' \in 0..MaxFaults
<1>1. LockOwnership' /\ CallOK' /\ pc' \in [Procs -> Labels]
  BY DEF CoreInv, TypeOK, LockOwnership, CallOK, Moves, Labels, procVars
<1>2. err' \in [Procs -> BOOLEAN]
  BY Zenon DEF CoreInv, TypeOK, Moves
<1>3. faults' \in 0..MaxFaults
  BY CNIAssumption DEF CoreInv, TypeOK, Moves
<1> QED
  BY <1>1, <1>2, <1>3

-----------------------------------------------------------------------------
\* What a request puts into the interface table is an interface.
LEMMA NewIfaceType ==
  ASSUME NEW n \in Names \union {None}, NEW t \in {"undef", "port", "bridge"},
         NEW d \in Ids \union {0}, NEW as \in SUBSET Addrs, NEW o \in {"none", "cni", "other"}
  PROVE  NewIface(n, t, d, as, o) \in Interfaces
BY Zenon DEF NewIface, Interfaces

\* The fields of an interface of the table.
LEMMA IfaceType ==
  ASSUME GroutTypeOK, NEW i \in Ids
  PROVE  /\ iface[i].type \in {"undef", "port", "bridge"}
         /\ iface[i].name \in Names \union {None}
         /\ iface[i].domain \in Ids \union {0}
         /\ iface[i].addrs \in SUBSET Addrs
         /\ iface[i].owner \in {"none", "cni", "other"}
BY DEF GroutTypeOK, Interfaces

\* The empty slot of a deleted interface.
LEMMA NoIfaceType == NoIface \in Interfaces
BY DEF NoIface, Interfaces

\* InterfaceAdd of a bridge keeps the types of grout's state.
LEMMA AddBridgeType ==
  ASSUME GroutTypeOK, NEW i \in Ids, NEW n \in Names, AddBridge(i, n), UNCHANGED groutUp
  PROVE  GroutTypeOK'
BY NewIfaceType DEF GroutTypeOK, AddBridge

\* So does InterfaceAdd of a port,
LEMMA AddPortType ==
  ASSUME GroutTypeOK, NEW i \in Ids, NEW n \in PortNames, NEW d \in Ids \union {0},
         NEW v \in BOOLEAN, AddPort(i, n, d, v), UNCHANGED groutUp
  PROVE  GroutTypeOK'
BY NewIfaceType, GroutAssumption DEF GroutTypeOK, AddPort, LinkStates

\* InterfaceDel,
LEMMA DelIfaceType ==
  ASSUME GroutTypeOK, NEW i, DelIface(i), UNCHANGED groutUp
  PROVE  GroutTypeOK'
BY NoIfaceType, Zenon DEF GroutTypeOK, DelIface, LinkStates

\* AddressAdd and AddressFlush,
LEMMA SetAddrsType ==
  ASSUME GroutTypeOK, NEW i, NEW as \in SUBSET Addrs, SetAddrs(i, as), UNCHANGED groutUp
  PROVE  GroutTypeOK'
<1>1. NewIface(iface[i].name, iface[i].type, iface[i].domain, as, iface[i].owner) \in Interfaces
  BY IfaceType, NewIfaceType, Zenon DEF SetAddrs, Exists
<1> QED
  BY <1>1, Zenon DEF GroutTypeOK, SetAddrs

\* and a request that is refused.
LEMMA SameGroutType ==
  ASSUME GroutTypeOK, UNCHANGED <<iface, link, socks, groutUp>>
  PROVE  GroutTypeOK'
BY DEF GroutTypeOK

\* A request that is refused, or a delete that may be, changes no type.
LEMMA TryDelType ==
  ASSUME GroutTypeOK, NEW p, NEW i, TryDel(p, i), UNCHANGED groutUp
  PROVE  GroutTypeOK'
BY DelIfaceType, SameGroutType DEF TryDel, Refused

\* The test of PluginConf.InterfaceType is a Boolean.
LEMMA VirtioBoolean == ASSUME NEW p PROVE Virtio(p) \in BOOLEAN
BY DEF Virtio

-----------------------------------------------------------------------------
\* The rest of the type invariant: the plugin's own data and the host's.
HostOK ==
  /\ ipam \subseteq Attachments
  /\ br \in [Procs -> Ids \union {0}]
  /\ port \in [Procs -> Ids \union {0}]
  /\ gws \in [Procs -> SUBSET Addrs]
  /\ todo \in [Procs -> SUBSET (Ids \X PortNames)]
  /\ rt \in [Attachments -> {"absent", "attached", "failed"}]
  /\ lost \subseteq Attachments

\* The arguments of a call that its handler uses.
LEMMA CallFacts ==
  ASSUME CoreInv, NEW p \in Procs
  PROVE  /\ req[p].att \in Attachments \union {None}
         /\ req[p].net \in Networks \union {None}
         /\ req[p].valid \in SUBSET Attachments
         /\ req[p].verb \in {"ADD", "DEL", "CHECK"} =>
               /\ req[p].att \in Attachments /\ req[p].net = NetOf[req[p].att]
               /\ req[p].net \in Networks /\ MyName(p) \in PortNames
         /\ req[p].verb = "GC" => req[p].att = None /\ req[p].net \in Networks
BY CNIAssumption DEF CoreInv, TypeOK, Requests, CallOK, RequestOK, MyName

\* A handler step keeps the types of the host's data and of its locals.
LEMMA HandlerHost ==
  ASSUME CoreInv, NEW p \in Procs, HandlerStep(p)
  PROVE  HostOK'
<1>0. /\ HostOK /\ req[p].verb \in VerbsAt(pc[p])
      /\ Gateways \in [Networks -> SUBSET Addrs]
  BY CNIAssumption DEF CoreInv, TypeOK, HostOK, CallOK
<1> USE <1>0 DEF Goto, Fail, HostOK, hostVars, locals
<1>1. CASE AddIpam(p)
  <2>1. req[p].verb = "ADD"
    BY <1>1 DEF AddIpam, VerbsAt
  <2>2. req[p].att \in Attachments /\ Gateways[req[p].net] \in SUBSET Addrs
    BY <2>1, CallFacts
  <2>3. UNCHANGED <<br, port, todo, rt, lost>>
    BY <1>1 DEF AddIpam
  <2>4. ipam' \subseteq Attachments
    BY <1>1, <2>2 DEF AddIpam
  <2>5. gws' \in [Procs -> SUBSET Addrs]
    BY <1>1, <2>2 DEF AddIpam
  <2> QED
    BY <2>3, <2>4, <2>5
<1>2. CASE EnsureBridgeList(p)
  <2>1. \A n : findBridgeID(n) \subseteq Ids
    BY DEF findBridgeID, Named
  <2>2. UNCHANGED <<ipam, port, gws, todo, rt, lost>>
    BY <1>2, Zenon DEF EnsureBridgeList
  <2>3. UNCHANGED br \/ \E b \in Ids : br' = [br EXCEPT ![p] = b]
    BY <1>2, <2>1, Zenon DEF EnsureBridgeList, BridgeReady
  <2> QED
    BY <2>2, <2>3
<1>3. CASE EnsureBridgeCreate(p)
  <2>1. CASE \E i \in Ids : BridgeReady(p, i)
    BY <1>3, <2>1, Zenon DEF EnsureBridgeCreate, BridgeReady
  <2>2. CASE UNCHANGED br
    BY <1>3, <2>2 DEF EnsureBridgeCreate
  <2> QED
    BY <1>3, <2>1, <2>2, Zenon DEF EnsureBridgeCreate
<1>4. CASE EnsureBridgeRelist(p)
  BY <1>4 DEF EnsureBridgeRelist, BridgeReady, Listed, Refused, findByName, Named
<1>5. CASE AddGateway(p)
  <2>1. CASE \E g \in gws[p] : gws' = [gws EXCEPT ![p] = gws[p] \ {g}]
    BY <1>5, <2>1 DEF AddGateway
  <2>2. CASE UNCHANGED gws
    BY <1>5, <2>2, Zenon DEF AddGateway, Refused
  <2> QED
    BY <1>5, <2>1, <2>2, Zenon DEF AddGateway
<1>6. CASE AddPodPort(p)
  BY <1>6 DEF AddPodPort, Refused
<1>7. CASE moveLinkToNamespace(p)
  BY <1>7 DEF moveLinkToNamespace, NetdevStep
<1>8. CASE configurePodInterface(p)
  BY <1>8 DEF configurePodInterface, NetdevStep
<1>9. CASE cleanupAfterAddFailure(p)
  BY <1>9 DEF cleanupAfterAddFailure, TryDel, Refused
<1>10. CASE ipamDel(p)
  BY <1>10, Zenon DEF ipamDel
<1>11. CASE DelList(p)
  <2>1. \A i \in findByName(MyName(p)) : i \in Ids /\ iface[i].domain \in Ids \union {0}
    BY IfaceType DEF findByName, Named, CoreInv, TypeOK
  <2>2. UNCHANGED <<ipam, gws, todo, rt, lost>>
    BY <1>11, Zenon DEF DelList
  <2>3. br' \in [Procs -> Ids \union {0}]
    BY <1>11, <2>1, Zenon DEF DelList, Refused
  <2>4. port' \in [Procs -> Ids \union {0}]
    BY <1>11, <2>1 DEF DelList, Refused
  <2> QED
    BY <2>2, <2>3, <2>4, Zenon
<1>12. CASE DelPort(p)
  BY <1>12 DEF DelPort, TryDel, Refused
<1>13. CASE DelSocket(p)
  BY <1>13 DEF DelSocket, removeVhostSocket
<1>14. CASE BridgeGCList(p)
  BY <1>14 DEF BridgeGCList, Listed, Refused
<1>15. CASE BridgeGCFlush4(p)
  BY <1>15 DEF BridgeGCFlush4, Refused
<1>16. CASE BridgeGCFlush6(p)
  BY <1>16 DEF BridgeGCFlush6, Refused
<1>17. CASE BridgeGCDel(p)
  BY <1>17 DEF BridgeGCDel, TryDel, Refused
<1>18. CASE CheckList(p)
  BY <1>18 DEF CheckList, Listed, Refused
<1>19. CASE CheckPodSide(p)
  BY <1>19 DEF CheckPodSide
<1>20. CASE GCList(p)
  <2>1. \A b : StalePorts(b, req[p].valid) \in SUBSET (Ids \X PortNames)
    BY DEF StalePorts
  <2>2. \A n : findBridgeID(n) \subseteq Ids
    BY DEF findBridgeID, Named
  <2>3. br' \in [Procs -> Ids \union {0}]
    <3>1. UNCHANGED br \/ \E b \in Ids : br' = [br EXCEPT ![p] = b]
      BY <1>20, <2>2, Zenon DEF GCList
    <3> QED
      BY <3>1
  <2>4. todo' \in [Procs -> SUBSET (Ids \X PortNames)]
    <3>1. \/ UNCHANGED todo
          \/ \E b : todo' = [todo EXCEPT ![p] = StalePorts(b, req[p].valid)]
      BY <1>20, Zenon DEF GCList
    <3> QED
      BY <2>1, <3>1
  <2>5. UNCHANGED <<ipam, port, gws, rt, lost>>
    BY <1>20, Zenon DEF GCList
  <2> QED
    BY <2>3, <2>4, <2>5, Zenon
<1>21. CASE GCReap(p)
  <2>1. UNCHANGED <<ipam, br, gws, rt, lost>>
    BY <1>21 DEF GCReap
  <2>2. port' \in [Procs -> Ids \union {0}]
    BY <1>21 DEF GCReap, Refused, AfterReap
  <2>3. todo' \in [Procs -> SUBSET (Ids \X PortNames)]
    BY <1>21 DEF GCReap, Refused, AfterReap
  <2> QED
    BY <2>1, <2>2, <2>3
<1>22. CASE GCSocket(p)
  BY <1>22 DEF GCSocket, removeVhostSocket
<1>23. CASE gcIPAM(p)
  BY <1>23 DEF gcIPAM
<1> QED
  BY Zenon, <1>1, <1>2, <1>3, <1>4, <1>5, <1>6, <1>7, <1>8, <1>9, <1>10, <1>11, <1>12, <1>13, <1>14,
    <1>15, <1>16, <1>17, <1>18, <1>19, <1>20, <1>21, <1>22, <1>23 DEF HandlerStep, HandleAdd,
    HandleDel, gcBridgeIfEmpty, HandleCheck, HandleGC

\* A handler step keeps the types of grout's state.
LEMMA HandlerGrout ==
  ASSUME CoreInv, NEW p \in Procs, HandlerStep(p)
  PROVE  GroutTypeOK'
<1>0. /\ GroutTypeOK /\ req[p].verb \in VerbsAt(pc[p])
      /\ Bridge \in [Networks -> Names] /\ PortNames \subseteq Names /\ V6 \subseteq Addrs
      /\ br[p] \in Ids \union {0} /\ gws[p] \in SUBSET Addrs
  BY CNIAssumption, GroutAssumption DEF CoreInv, TypeOK, CallOK
<1>z. /\ pc[p] \in {"a_ipam", "a_list", "a_mkbr", "a_relist", "a_addr", "a_port", "a_move",
                    "a_conf", "a_rollback", "d_list", "d_del", "d_sock", "ipamdel"}
           => req[p].net \in Networks /\ MyName(p) \in PortNames
  BY <1>0, CallFacts, Zenon DEF VerbsAt
<1> USE <1>0, <1>z
<1>1. CASE AddIpam(p)
  BY <1>1, SameGroutType DEF AddIpam, groutVars
<1>2. CASE EnsureBridgeList(p)
  BY <1>2, SameGroutType, Zenon DEF EnsureBridgeList, Listed, Refused
<1>3. CASE EnsureBridgeCreate(p)
  BY <1>3, SameGroutType, AddBridgeType DEF EnsureBridgeCreate, Refused
<1>4. CASE EnsureBridgeRelist(p)
  BY <1>4, SameGroutType, Zenon DEF EnsureBridgeRelist, Listed, Refused
<1>5. CASE AddGateway(p)
  <2>1. Exists(br[p]) => \A g \in gws[p] : iface[br[p]].addrs \union {g} \in SUBSET Addrs
    BY IfaceType DEF Exists
  <2>2. CASE UNCHANGED <<iface, link, socks>>
    BY <1>5, <2>2, SameGroutType, Zenon DEF AddGateway
  <2>3. CASE \E g \in gws[p] : SetAddrs(br[p], iface[br[p]].addrs \union {g})
    BY <1>5, <2>1, <2>3, SetAddrsType, Zenon DEF AddGateway, SetAddrs
  <2> QED
    BY <1>5, <2>2, <2>3, Zenon DEF AddGateway, Refused
<1>6. CASE AddPodPort(p)
  <2>1. Virtio(p) \in BOOLEAN
    BY VirtioBoolean
  <2>2. CASE UNCHANGED <<iface, link, socks>>
    BY <1>6, <2>2, SameGroutType, Zenon DEF AddPodPort
  <2>3. CASE \E i \in Ids : AddPort(i, MyName(p), br[p], Virtio(p))
    BY <1>6, <2>1, <2>3, AddPortType, Zenon DEF AddPodPort
  <2> QED
    BY <1>6, <2>2, <2>3, Zenon DEF AddPodPort, Refused
<1>7. CASE moveLinkToNamespace(p)
  BY <1>7 DEF moveLinkToNamespace, NetdevStep, GroutTypeOK, LinkStates
<1>8. CASE configurePodInterface(p)
  BY <1>8 DEF configurePodInterface, NetdevStep, GroutTypeOK, LinkStates
<1>9. CASE cleanupAfterAddFailure(p)
  BY <1>9, TryDelType, Zenon DEF cleanupAfterAddFailure
<1>10. CASE ipamDel(p)
  BY <1>10, SameGroutType, Zenon DEF ipamDel, groutVars
<1>11. CASE DelList(p)
  BY <1>11, SameGroutType DEF DelList, Listed, Refused
<1>12. CASE DelPort(p)
  BY <1>12, TryDelType, Zenon DEF DelPort
<1>13. CASE DelSocket(p)
  BY <1>13, Zenon DEF DelSocket, removeVhostSocket, GroutTypeOK
<1>14. CASE BridgeGCList(p)
  BY <1>14, SameGroutType, ZenonT(60) DEF BridgeGCList, Listed, Refused
<1>15. CASE BridgeGCFlush4(p)
  <2>1. Exists(br[p]) => iface[br[p]].addrs \intersect V6 \in SUBSET Addrs
    BY IfaceType DEF Exists
  <2>2. CASE UNCHANGED <<iface, link, socks>>
    BY <1>15, <2>2, SameGroutType, Zenon DEF BridgeGCFlush4
  <2>3. CASE SetAddrs(br[p], iface[br[p]].addrs \intersect V6)
    BY <1>15, <2>1, <2>3, SetAddrsType, Zenon DEF BridgeGCFlush4, SetAddrs
  <2> QED
    BY <1>15, <2>2, <2>3 DEF BridgeGCFlush4, Refused
<1>16. CASE BridgeGCFlush6(p)
  <2>1. Exists(br[p]) => iface[br[p]].addrs \ V6 \in SUBSET Addrs
    BY IfaceType, ZenonT(60) DEF Exists
  <2>2. CASE UNCHANGED <<iface, link, socks>>
    BY <1>16, <2>2, SameGroutType DEF BridgeGCFlush6
  <2>3. CASE SetAddrs(br[p], iface[br[p]].addrs \ V6)
    BY <1>16, <2>1, <2>3, SetAddrsType, Zenon DEF BridgeGCFlush6, SetAddrs
  <2> QED
    BY <1>16, <2>2, <2>3, Zenon DEF BridgeGCFlush6, Refused
<1>17. CASE BridgeGCDel(p)
  BY <1>17, TryDelType, Zenon DEF BridgeGCDel
<1>18. CASE CheckList(p)
  BY <1>18, SameGroutType, Zenon DEF CheckList, Listed, Refused
<1>19. CASE CheckPodSide(p)
  BY <1>19, SameGroutType, Zenon DEF CheckPodSide, groutVars
<1>20. CASE GCList(p)
  BY <1>20, SameGroutType, Zenon DEF GCList, Listed, Refused
<1>21. CASE GCReap(p)
  BY <1>21, DelIfaceType, SameGroutType DEF GCReap, Refused
<1>22. CASE GCSocket(p)
  BY <1>22, Zenon DEF GCSocket, removeVhostSocket, GroutTypeOK
<1>23. CASE gcIPAM(p)
  BY <1>23, SameGroutType, Zenon DEF gcIPAM, groutVars
<1> QED
  BY Zenon, <1>1, <1>2, <1>3, <1>4, <1>5, <1>6, <1>7, <1>8, <1>9, <1>10, <1>11, <1>12, <1>13, <1>14,
    <1>15, <1>16, <1>17, <1>18, <1>19, <1>20, <1>21, <1>22, <1>23 DEF HandlerStep, HandleAdd,
    HandleDel, gcBridgeIfEmpty, HandleCheck, HandleGC

-----------------------------------------------------------------------------
\* The rest of the type invariant with the two control invariants: what the
\* steps outside the handlers change.
ControlOK ==
  /\ lock \in Procs \union {None}
  /\ pc \in [Procs -> Labels]
  /\ req \in [Procs -> Requests]
  /\ conn \in [Procs -> {"closed", "open", "dead"}]
  /\ LockOwnership
  /\ CallOK

FaultOK == err \in [Procs -> BOOLEAN] /\ faults \in 0..MaxFaults

\* The core invariant, cut along what the steps change.
LEMMA CoreParts ==
  /\ CoreInv => GroutTypeOK /\ HostOK /\ ControlOK /\ FaultOK
  /\ GroutTypeOK' /\ HostOK' /\ ControlOK' /\ FaultOK' => CoreInv'
BY DEF CoreInv, TypeOK, HostOK, ControlOK, FaultOK

\* An error flag set or cleared and a failure injected within the bound.
LEMMA FaultType ==
  ASSUME FaultOK, NEW p \in Procs,
         \/ UNCHANGED err \/ err' = [err EXCEPT ![p] = TRUE] \/ err' = [err EXCEPT ![p] = FALSE],
         UNCHANGED faults \/ (faults < MaxFaults /\ faults' = faults + 1)
  PROVE  FaultOK'
<1>1. err' \in [Procs -> BOOLEAN]
  BY Zenon DEF FaultOK
<1>2. faults' \in 0..MaxFaults
  BY CNIAssumption DEF FaultOK
<1> QED
  BY <1>1, <1>2 DEF FaultOK

\* The label a handler starts at.
LEMMA HandlerLabel ==
  ASSUME NEW v \in {"ADD", "DEL", "CHECK", "GC"}
  PROVE  Handler[v] \in {"a_ipam", "d_list", "c_list", "g_list"} /\ v \in VerbsAt(Handler[v])
<1>1. CASE v = "ADD"
  BY <1>1 DEF Handler, VerbsAt
<1>2. CASE v = "DEL"
  BY <1>2 DEF Handler, VerbsAt
<1>3. CASE v = "CHECK"
  BY <1>3 DEF Handler, VerbsAt
<1>4. CASE v = "GC"
  BY <1>4 DEF Handler, VerbsAt
<1> QED
  BY <1>1, <1>2, <1>3, <1>4

\* Every handler step keeps the core invariant.
LEMMA HandlerCore ==
  ASSUME CoreInv, NEW p \in Procs, HandlerStep(p)
  PROVE  CoreInv'
<1>1. Moves(p)
  BY HandlerMoves
<1>2. ControlOK' /\ FaultOK'
  BY <1>1, MovesControl, Zenon DEF CoreInv, TypeOK, ControlOK, FaultOK, Moves, procVars
<1> QED
  BY <1>2, HandlerHost, HandlerGrout, CoreParts

\* Dial, the lock and the return keep the invariant.
LEMMA CallCore ==
  ASSUME CoreInv, NEW p \in Procs, Dial(p) \/ Acquire(p) \/ LockFails(p) \/ Unlock(p)
  PROVE  CoreInv'
<1>0. /\ ControlOK /\ FaultOK /\ GroutTypeOK /\ HostOK /\ MaxFaults \in Nat /\ None \notin Procs
      /\ req[p].verb \in VerbsAt(pc[p])
  BY CoreParts, CNIAssumption DEF ControlOK, CallOK
<1>1. GroutTypeOK'
  BY <1>0, SameGroutType, Zenon DEF Dial, Acquire, LockFails, Unlock, groutVars
<1>2. HostOK'
  <2>1. UNCHANGED <<ipam, rt, lost, br, port, gws, todo>>
    BY DEF Dial, Acquire, LockFails, Unlock, hostVars, locals
  <2> QED
    BY <1>0, <2>1 DEF HostOK
<1>3. FaultOK'
  <2>1. UNCHANGED err \/ err' = [err EXCEPT ![p] = TRUE]
    BY DEF Dial, Acquire, LockFails, Unlock, Fail
  <2>2. UNCHANGED faults \/ (faults < MaxFaults /\ faults' = faults + 1)
    BY DEF Dial, Acquire, LockFails, Unlock, Fault
  <2> QED
    BY <1>0, <2>1, <2>2, FaultType, Zenon
<1>4. ControlOK'
  <2> USE <1>0 DEF ControlOK, LockOwnership, CallOK, VerbsAt, Labels, Critical, Verbs, Goto
  <2>1. CASE Dial(p)
    <3>1. /\ {"dial", "lock", "exit"} \intersect Critical = {} /\ {"lock", "exit"} \subseteq Labels
          /\ req[p].verb \in VerbsAt("exit")
          /\ req[p].verb # "STATUS" => req[p].verb \in VerbsAt("lock")
      BY <2>1 DEF Dial
    <3> HIDE DEF VerbsAt, Labels, Critical, Verbs
    <3> QED
      BY <2>1, <3>1, ZenonT(60) DEF Dial, Fail
  <2>2. CASE Acquire(p)
    <3>1. req[p].verb \in {"ADD", "DEL", "CHECK", "GC"}
      BY <2>2, Zenon DEF Acquire
    <3>2. /\ Handler[req[p].verb] \in Critical
          /\ req[p].verb \in VerbsAt(Handler[req[p].verb])
      BY <3>1, HandlerLabel
    <3> QED
      <4> HIDE DEF VerbsAt, Labels, Critical, Verbs
      <4>1. Critical \subseteq Labels
        BY Zenon DEF Labels
      <4>2. pc[p] \notin Critical
        BY <2>2 DEF Acquire, Critical
      <4> QED
        BY <2>2, <3>2, <4>1, <4>2, Zenon DEF Acquire
  <2>3. CASE LockFails(p)
    <3>1. /\ pc[p] \notin Critical /\ "exit" \notin Critical /\ "exit" \in Labels
          /\ req[p].verb \in VerbsAt("exit")
      BY <2>3 DEF LockFails
    <3> HIDE DEF VerbsAt, Labels, Critical, Verbs
    <3> QED
      BY <2>3, <3>1, Zenon DEF LockFails, Fail, procVars
  <2>4. CASE Unlock(p)
    <3>1. /\ pc[p] \in Critical /\ "exit" \notin Critical /\ "exit" \in Labels
          /\ req[p].verb \in VerbsAt("exit")
      BY <2>4 DEF Unlock
    <3> HIDE DEF VerbsAt, Labels, Critical, Verbs
    <3> QED
      BY <2>4, <3>1, Zenon DEF Unlock
  <2> QED
    BY <2>1, <2>2, <2>3, <2>4, Zenon
<1> QED
  BY <1>1, <1>2, <1>3, <1>4, CoreParts

\* So do the end of a call, by its return or by the death of the process,
LEMMA GoneCore ==
  ASSUME CoreInv, NEW p \in Procs, Exit(p) \/ Kill(p)
  PROVE  CoreInv'
<1>0. /\ ControlOK /\ FaultOK /\ GroutTypeOK /\ HostOK /\ MaxFaults \in Nat /\ None \notin Procs
      /\ NoRequest \in Requests /\ RequestOK(NoRequest) /\ NoRequest.verb = "none"
  BY CoreParts, CNIAssumption, Zenon DEF NoRequest, Request, Requests, RequestOK
<1>1. GroutTypeOK'
  BY <1>0, SameGroutType DEF Exit, Kill, groutVars
<1>2. HostOK'
  <2>1. rt' \in [Attachments -> {"absent", "attached", "failed"}]
    BY <1>0 DEF Exit, Kill, hostVars, HostOK
  <2> QED
    BY <1>0, <2>1 DEF Exit, Kill, Gone, hostVars, HostOK
<1>3. FaultOK'
  <2>1. err' = [err EXCEPT ![p] = FALSE]
    BY DEF Exit, Kill, Gone
  <2>2. UNCHANGED faults \/ (faults < MaxFaults /\ faults' = faults + 1)
    BY DEF Exit, Kill, Fault
  <2> QED
    BY <1>0, <2>1, <2>2, FaultType, Zenon
<1>4. ControlOK'
  <2>0. "idle" \in Labels /\ {"idle", "exit"} \intersect Critical = {} /\ "none" \in VerbsAt("idle")
    BY DEF Labels, Critical, VerbsAt
  <2> USE <1>0, <2>0 DEF ControlOK, LockOwnership, CallOK, Goto, Gone
  <2>1. CASE Exit(p)
    BY <2>1 DEF Exit
  <2>2. CASE Kill(p)
    BY <2>2 DEF Kill
  <2> QED
    BY <2>1, <2>2
<1> QED
  BY <1>1, <1>2, <1>3, <1>4, CoreParts

\* the calls of the runtime,
LEMMA RuntimeCore ==
  ASSUME CoreInv, NEW p \in Procs, Runtime(p)
  PROVE  CoreInv'
<1>0. /\ ControlOK /\ FaultOK /\ GroutTypeOK /\ HostOK
  BY CoreParts
<1>1. /\ pc[p] = "idle" /\ pc' = [pc EXCEPT ![p] = "dial"]
      /\ UNCHANGED <<groutVars, ipam, lock, conn, locals, err, faults>>
  BY Zenon DEF Runtime, InvokeAdd, InvokeDel, InvokeCheck, InvokeGC, InvokeStatus, Invoke, Goto
<1>2. PICK r \in Requests :
        /\ req' = [req EXCEPT ![p] = r] /\ RequestOK(r) /\ r.verb \in Verbs
        /\ lost' \subseteq Attachments
        /\ rt' \in [Attachments -> {"absent", "attached", "failed"}]
  <2>1. ASSUME NEW a \in Attachments, InvokeAdd(p, a) \/ InvokeDel(p, a) \/ InvokeCheck(p, a)
        PROVE  /\ \E v \in {"ADD", "DEL", "CHECK"} :
                    req' = [req EXCEPT ![p] = Request(v, a, NetOf[a], {})]
               /\ lost' \subseteq Attachments
               /\ rt' \in [Attachments -> {"absent", "attached", "failed"}]
    BY <1>0, <2>1 DEF InvokeAdd, InvokeDel, InvokeCheck, Invoke, HostOK
  <2>2. ASSUME NEW n \in Networks, InvokeGC(p, n) \/ InvokeStatus(p, n)
        PROVE  /\ \E v \in {"GC", "STATUS"}, valid \in SUBSET Attachments :
                    req' = [req EXCEPT ![p] = Request(v, None, n, valid)]
               /\ lost' \subseteq Attachments
               /\ rt' \in [Attachments -> {"absent", "attached", "failed"}]
    <3>1. /\ \E v \in {"GC", "STATUS"}, valid \in SUBSET Attachments :
               req' = [req EXCEPT ![p] = Request(v, None, n, valid)]
          /\ UNCHANGED <<rt, lost>>
      BY <2>2, Zenon DEF InvokeGC, InvokeStatus, Invoke
    <3> QED
      BY <1>0, <3>1, Zenon DEF HostOK
  <2>3. ASSUME NEW a \in Attachments, NEW v \in {"ADD", "DEL", "CHECK"}
        PROVE  LET r == Request(v, a, NetOf[a], {})
               IN  r \in Requests /\ RequestOK(r) /\ r.verb \in Verbs
    BY CNIAssumption, Zenon DEF Request, Requests, RequestOK, Verbs
  <2>4. ASSUME NEW n \in Networks, NEW v \in {"GC", "STATUS"}, NEW valid \in SUBSET Attachments
        PROVE  LET r == Request(v, None, n, valid)
               IN  r \in Requests /\ RequestOK(r) /\ r.verb \in Verbs
    BY Zenon DEF Request, Requests, RequestOK, Verbs
  <2>5. CASE \E a \in Attachments : InvokeAdd(p, a) \/ InvokeDel(p, a) \/ InvokeCheck(p, a)
    BY <2>1, <2>3, <2>5
  <2>6. CASE \E n \in Networks : InvokeGC(p, n) \/ InvokeStatus(p, n)
    BY <2>2, <2>4, <2>6, Zenon
  <2> QED
    BY <2>5, <2>6 DEF Runtime
<1>3. GroutTypeOK'
  BY <1>0, <1>1, SameGroutType DEF groutVars
<1>4. HostOK'
  BY <1>0, <1>1, <1>2 DEF HostOK, locals
<1>5. FaultOK'
  BY <1>0, <1>1 DEF FaultOK
<1>6. ControlOK'
  <2>1. /\ VerbsAt("dial") = Verbs /\ "dial" \in Labels
        /\ "idle" \notin Critical /\ "dial" \notin Critical
    BY DEF VerbsAt, Labels, Critical
  <2> QED
    BY <1>0, <1>1, <1>2, <2>1 DEF ControlOK, LockOwnership, CallOK
<1> QED
  BY <1>3, <1>4, <1>5, <1>6, CoreParts

\* and what happens around the plugin.
LEMMA EnvironmentCore ==
  ASSUME CoreInv,
         GroutCrash \/ GroutRestart \/ ForeignStep \/ \E a \in Attachments : NetdevDrift(a)
  PROVE  CoreInv'
<1>0. ControlOK /\ FaultOK /\ GroutTypeOK /\ HostOK /\ MaxFaults \in Nat
  BY CoreParts, CNIAssumption
<1>1. GroutTypeOK'
  <2>1. CASE GroutCrash
    BY <1>0, <2>1, NoIfaceType, Zenon DEF GroutCrash, Crash, GroutTypeOK, LinkStates
  <2>2. CASE GroutRestart
    BY <1>0, <2>2 DEF GroutRestart, Restart, GroutTypeOK
  <2>3. CASE \E i \in Ids : ForeignDel(i)
    BY <1>0, <2>3, NoIfaceType DEF ForeignDel, GroutTypeOK
  <2>4. CASE \E i \in Ids, f \in Foreign : ForeignAdd(f, i)
    BY <1>0, <2>4, NewIfaceType, GroutAssumption DEF ForeignAdd, GroutTypeOK
  <2>5. CASE \E a \in Attachments : NetdevDrift(a)
    BY <1>0, <2>5, Zenon DEF NetdevDrift, GroutTypeOK, LinkStates
  <2> QED
    BY <2>1, <2>2, <2>3, <2>4, <2>5 DEF ForeignStep
<1>2. HostOK'
  BY <1>0 DEF GroutCrash, GroutRestart, ForeignStep, NetdevDrift, HostOK, hostVars, locals
<1>3. FaultOK'
  <2>1. err' = err
    BY Zenon DEF GroutCrash, GroutRestart, ForeignStep, NetdevDrift
  <2>2. faults' = faults \/ (faults < MaxFaults /\ faults' = faults + 1)
    BY Zenon DEF GroutCrash, GroutRestart, ForeignStep, NetdevDrift, Fault
  <2> QED
    BY <1>0, <2>1, <2>2 DEF FaultOK
<1>4. ControlOK'
  BY <1>0 DEF GroutCrash, GroutRestart, ForeignStep, NetdevDrift, ControlOK, LockOwnership,
    CallOK,
    procVars
<1> QED
  BY <1>1, <1>2, <1>3, <1>4, CoreParts

\* A reply that is lost: the request has its effect, the handler its error.
LEMMA ReplyLostCore ==
  ASSUME CoreInv, NEW p \in Procs, ReplyLost(p)
  PROVE  CoreInv'
<1>0. /\ ControlOK /\ FaultOK /\ GroutTypeOK /\ HostOK
      /\ req[p].verb \in VerbsAt(pc[p])
      /\ Bridge \in [Networks -> Names \ PortNames]
  BY CoreParts, CNIAssumption DEF ControlOK, CallOK
<1>1. /\ pc[p] \in Critical
      /\ pc' = [pc EXCEPT ![p] = pc'[p]]
      /\ pc'[p] \in Critical
      /\ req[p].verb \in VerbsAt(pc'[p])
      /\ UNCHANGED err \/ err' = [err EXCEPT ![p] = TRUE]
  <2>0. pc \in [Procs -> Labels]
    BY <1>0, Zenon DEF ControlOK
  <2> USE <1>0, <2>0 DEF Goto, Fail, VerbsAt, Critical, Verbs
  <2>1. CASE BridgeUnheard(p)
    BY <2>1, Zenon DEF BridgeUnheard
  <2>2. CASE GatewayUnheard(p)
    BY <2>2, Zenon DEF GatewayUnheard
  <2>3. CASE PortUnheard(p)
    BY <2>3, Zenon DEF PortUnheard
  <2>4. CASE DelUnheard(p)
    BY <2>4, Zenon DEF DelUnheard
  <2>5. CASE FlushUnheard(p)
    BY <2>5, Zenon DEF FlushUnheard
  <2>6. CASE BridgeDelUnheard(p)
    BY <2>6, Zenon DEF BridgeDelUnheard, AfterBridgeGC
  <2>7. CASE ReapUnheard(p)
    BY <2>7 DEF ReapUnheard, AfterReap
  <2> QED
    BY <2>1, <2>2, <2>3, <2>4, <2>5, <2>6, <2>7, Zenon DEF ReplyLost
<1>2. GroutTypeOK'
  <2>0. /\ UNCHANGED groutUp
        /\ br[p] \in Ids \union {0} /\ gws[p] \in SUBSET Addrs
        /\ pc[p] \in {"a_mkbr", "a_port"} => Bridge[req[p].net] \in Names /\ MyName(p) \in PortNames
    BY <1>0, CallFacts, Zenon DEF ReplyLost, HostOK, VerbsAt
  <2>1. CASE BridgeUnheard(p)
    BY <1>0, <2>0, <2>1, AddBridgeType, Zenon DEF BridgeUnheard
  <2>2. CASE GatewayUnheard(p)
    <3>1. PICK g \in gws[p] : SetAddrs(br[p], iface[br[p]].addrs \union {g})
      BY <2>2, Zenon DEF GatewayUnheard
    <3>2. iface[br[p]].addrs \union {g} \in SUBSET Addrs
      BY <1>0, <2>0, <3>1, IfaceType, Zenon DEF SetAddrs, Exists
    <3> QED
      BY <1>0, <2>0, <3>1, <3>2, SetAddrsType, Zenon
  <2>3. CASE PortUnheard(p)
    BY <1>0, <2>0, <2>3, AddPortType, VirtioBoolean, Zenon DEF PortUnheard
  <2>4. CASE DelUnheard(p)
    BY <1>0, <2>0, <2>4, DelIfaceType, Zenon DEF DelUnheard
  <2>5. CASE FlushUnheard(p)
    <3>1. PICK as : SetAddrs(br[p], as) /\ as \subseteq iface[br[p]].addrs
      BY <2>5, Zenon DEF FlushUnheard
    <3>2. as \in SUBSET Addrs
      BY <1>0, <2>0, <3>1, IfaceType, Zenon DEF SetAddrs, Exists
    <3> QED
      BY <1>0, <2>0, <3>1, <3>2, SetAddrsType, Zenon
  <2>6. CASE BridgeDelUnheard(p)
    BY <1>0, <2>0, <2>6, DelIfaceType, Zenon DEF BridgeDelUnheard
  <2>7. CASE ReapUnheard(p)
    BY <1>0, <2>0, <2>7, DelIfaceType, Zenon DEF ReapUnheard
  <2> QED
    BY <2>1, <2>2, <2>3, <2>4, <2>5, <2>6, <2>7, Zenon DEF ReplyLost
<1>3. HostOK'
  <2>1. todo' \in [Procs -> SUBSET (Ids \X PortNames)]
    <3>1. UNCHANGED todo \/ \E t : todo' = [todo EXCEPT ![p] = todo[p] \ {t}]
      BY Zenon DEF ReplyLost, BridgeUnheard, GatewayUnheard, PortUnheard, DelUnheard, FlushUnheard,
        BridgeDelUnheard, ReapUnheard
    <3>2. ASSUME NEW t, todo' = [todo EXCEPT ![p] = todo[p] \ {t}]
          PROVE  todo' \in [Procs -> SUBSET (Ids \X PortNames)]
      <4>1. todo \in [Procs -> SUBSET (Ids \X PortNames)]
        BY <1>0, Zenon DEF HostOK
      <4> QED
        BY <3>2, <4>1
    <3>3. UNCHANGED todo => todo' \in [Procs -> SUBSET (Ids \X PortNames)]
      BY <1>0 DEF HostOK
    <3> QED
      BY <3>1, <3>2, <3>3, Zenon
  <2> QED
    BY <1>0, <2>1, Zenon DEF ReplyLost, HostOK, hostVars
<1>4. FaultOK'
  BY <1>0, <1>1, FaultType, Zenon DEF ReplyLost, Fault
<1>5. ControlOK'
  <2>1. /\ UNCHANGED <<lock, req>>
        /\ conn' \in [Procs -> {"closed", "open", "dead"}]
    BY <1>0, Zenon DEF ReplyLost, ControlOK
  <2>2. pc' \in [Procs -> Labels] /\ LockOwnership' /\ CallOK'
    BY <1>0, <1>1, <2>1, Zenon DEF ControlOK, LockOwnership, CallOK, Labels
  <2> QED
    BY <1>0, <2>1, <2>2 DEF ControlOK
<1> QED
  BY <1>2, <1>3, <1>4, <1>5, CoreParts

\* A step that changes nothing keeps the core invariant.
LEMMA StutterCore == CoreInv /\ UNCHANGED vars => CoreInv'
BY DEF CoreInv, TypeOK, GroutTypeOK, LockOwnership, CallOK, vars

\* The core invariant is inductive.
LEMMA NextCore == CoreInv /\ [Next]_vars => CoreInv'
<1> SUFFICES ASSUME CoreInv, [Next]_vars PROVE CoreInv'
  OBVIOUS
<1>1. ASSUME NEW p \in Procs, Step(p) PROVE CoreInv'
  BY <1>1, HandlerCore, CallCore, GoneCore DEF Step, HandlerStep
<1>2. ASSUME NEW p \in Procs, Runtime(p) PROVE CoreInv'
  BY <1>2, RuntimeCore
<1>3. CASE Environment
  BY <1>3, GoneCore, ReplyLostCore, EnvironmentCore DEF Environment
<1>4. CASE UNCHANGED vars
  BY <1>4, StutterCore
<1> QED
  BY <1>1, <1>2, <1>3, <1>4 DEF Next

\* The core invariant holds always.
THEOREM CoreInvariant == Spec => []CoreInv
BY InitCore, NextCore, PTL DEF Spec

\* Every variable of the plugin, the runtime and grout keeps its type, whatever
\* is killed, refused or lost on the way.
THEOREM TypeCorrect == Spec => []TypeOK
<1>1. CoreInv => TypeOK
  BY DEF CoreInv
<1> QED
  BY <1>1, CoreInvariant, PTL

\* The file lock serialises the handlers (HandleAdd, HandleDel, HandleCheck and
\* HandleGC between Lock and the deferred Unlock): a process is in its handler
\* exactly when it holds the lock.
THEOREM HandlersSerialised == Spec => []LockOwnership
<1>1. CoreInv => LockOwnership
  BY DEF CoreInv
<1> QED
  BY <1>1, CoreInvariant, PTL

-----------------------------------------------------------------------------
(* Whoever holds the lock is alone with the plugin's state.  That another  *)
(* user of grout cannot be given the slot of one of the plugin's           *)
(* interfaces needs that a free slot is nobody's.                          *)

FreeSlots == \A i \in Ids : iface[i].type = "undef" => iface[i].owner # "cni"

SlotInv == CoreInv /\ FreeSlots

\* No netdev appears.
NoNewNetdev == \A n \in PortNames : link'[n] # "none" => link[n] # "none"

\* What a request can do to grout's interface table, and to the netdevs.
TableStep ==
  \/ UNCHANGED iface /\ NoNewNetdev
  \/ \E i \in Ids : \/ \E n : AddBridge(i, n)
                    \/ \E n, d, v : AddPort(i, n, d, v)
                    \/ DelIface(i)
                    \/ \E as : SetAddrs(i, as)

\* A request leaves free slots free of an owner.
LEMMA TableSlots == ASSUME GroutTypeOK, FreeSlots, TableStep PROVE FreeSlots'
<1>1. ASSUME NEW i \in Ids, NEW n, AddBridge(i, n) PROVE FreeSlots'
  BY <1>1 DEF GroutTypeOK, FreeSlots, AddBridge, NewIface
<1>2. ASSUME NEW i \in Ids, NEW n, NEW d, NEW v, AddPort(i, n, d, v) PROVE FreeSlots'
  BY <1>2 DEF GroutTypeOK, FreeSlots, AddPort, NewIface
<1>3. ASSUME NEW i \in Ids, DelIface(i) PROVE FreeSlots'
  BY <1>3 DEF GroutTypeOK, FreeSlots, DelIface, NoIface
<1>4. ASSUME NEW i \in Ids, NEW as, SetAddrs(i, as) PROVE FreeSlots'
  BY <1>4 DEF GroutTypeOK, FreeSlots, SetAddrs, NewIface
<1> QED
  BY <1>1, <1>2, <1>3, <1>4, Zenon DEF TableStep, FreeSlots

\* Every handler step is such a request, and a sign of it is left in the process:
\* it goes on, or its list of gateways or of stale ports gets shorter.
LEMMA HandlerTableStep ==
  ASSUME CoreInv, NEW p \in Procs, HandlerStep(p)
  PROVE  TableStep /\ (pc'[p] # pc[p] \/ gws'[p] # gws[p] \/ todo'[p] # todo[p])
<1>0. /\ pc \in [Procs -> Labels] /\ gws \in [Procs -> SUBSET Addrs]
      /\ todo \in [Procs -> SUBSET (Ids \X PortNames)] /\ req[p].verb \in VerbsAt(pc[p])
  BY DEF CoreInv, TypeOK, CallOK
<1>1. TableStep
  <2>0. UNCHANGED link => NoNewNetdev
    BY DEF NoNewNetdev
  <2>1. CASE moveLinkToNamespace(p) \/ configurePodInterface(p)
    <3>1. NoNewNetdev
      BY <2>1 DEF moveLinkToNamespace, configurePodInterface, NetdevStep, NoNewNetdev, CoreInv,
        TypeOK, GroutTypeOK
    <3> QED
      BY <2>1, <3>1, Zenon DEF moveLinkToNamespace, configurePodInterface, NetdevStep, TableStep
  <2>2. CASE HandleAdd(p)
    BY <2>0, <2>1, <2>2, Zenon DEF HandleAdd, AddIpam, EnsureBridgeList, EnsureBridgeCreate,
      EnsureBridgeRelist, AddGateway, AddPodPort, cleanupAfterAddFailure, TryDel, ipamDel, Listed, Refused, groutVars, TableStep,
      SetAddrs, DelIface, CanDel, Exists
  <2>3. CASE HandleDel(p) \/ gcBridgeIfEmpty(p)
    BY <2>0, <2>3, Zenon DEF HandleDel, DelList, DelPort, DelSocket, removeVhostSocket, gcBridgeIfEmpty,
      BridgeGCList, BridgeGCFlush4, BridgeGCFlush6, BridgeGCDel, TryDel, Listed, Refused,
      TableStep, SetAddrs, DelIface, CanDel, Exists
  <2>4. CASE HandleCheck(p) \/ HandleGC(p)
    BY <2>0, <2>4, ZenonT(60) DEF HandleCheck, CheckList, CheckPodSide, HandleGC, GCList, GCReap, GCSocket,
      removeVhostSocket, gcIPAM, Listed, Refused, groutVars, TableStep, DelIface, CanDel, Exists
  <2> QED
    BY <2>2, <2>3, <2>4 DEF HandlerStep
<1>2. CASE AddGateway(p)
  <2>1. pc'[p] = "ipamdel" \/ \E g \in gws[p] : gws'[p] = gws[p] \ {g}
    BY <1>0, <1>2, Zenon DEF AddGateway, Fail, Goto
  <2> QED
    BY <1>1, <1>2, <2>1, Zenon DEF AddGateway
<1>3. CASE GCReap(p)
  <2>1. pc'[p] = "g_sock" \/ \E t \in todo[p] : todo'[p] = todo[p] \ {t}
    BY <1>0, <1>3, Zenon DEF GCReap, Goto
  <2> QED
    BY <1>1, <1>3, <2>1, Zenon DEF GCReap
<1>4. CASE GCSocket(p)
  <2>1. \E t \in todo[p] : todo'[p] = todo[p] \ {t}
    BY <1>0, <1>4, Zenon DEF GCSocket
  <2> QED
    BY <1>1, <2>1
<1>5. CASE HandleAdd(p) /\ ~AddGateway(p)
  BY <1>0, <1>1, <1>5, ZenonT(60) DEF HandleAdd, AddIpam, EnsureBridgeList, EnsureBridgeCreate,
    EnsureBridgeRelist, AddPodPort, moveLinkToNamespace, configurePodInterface, NetdevStep,
    cleanupAfterAddFailure, ipamDel, BridgeReady, AfterGateway, Fail, Goto
<1>6. CASE HandleDel(p) \/ gcBridgeIfEmpty(p)
  BY <1>0, <1>1, <1>6, ZenonT(60) DEF HandleDel, DelList, DelPort, DelSocket, gcBridgeIfEmpty,
    BridgeGCList, BridgeGCFlush4, BridgeGCFlush6, BridgeGCDel, AfterBridgeGC, Fail, Goto
<1>7. CASE HandleCheck(p) \/ GCList(p) \/ gcIPAM(p)
  BY <1>0, <1>1, <1>7, ZenonT(60) DEF HandleCheck, CheckList, CheckPodSide, GCList, AfterReap,
    gcIPAM, Fail, Goto
<1> QED
  BY <1>2, <1>3, <1>4, <1>5, <1>6, <1>7, Zenon DEF HandlerStep, HandleGC

\* A request whose reply is lost does what it would have done.
LEMMA ReplyLostTable ==
  ASSUME CoreInv, NEW p \in Procs, ReplyLost(p)
  PROVE  TableStep /\ pc[p] \in Critical /\ (pc'[p] # pc[p] \/ todo'[p] # todo[p])
<1>0. pc \in [Procs -> Labels] /\ todo \in [Procs -> SUBSET (Ids \X PortNames)]
  BY DEF CoreInv, TypeOK
<1>1. TableStep /\ pc[p] \in Critical
  BY Zenon DEF ReplyLost, BridgeUnheard, GatewayUnheard, PortUnheard, DelUnheard, FlushUnheard,
    BridgeDelUnheard, ReapUnheard, TableStep, SetAddrs, DelIface, CanDel, Exists, Critical
<1>2. CASE ReapUnheard(p)
  <2>1. \E t \in todo[p] : todo'[p] = todo[p] \ {t}
    BY <1>0, <1>2, Zenon DEF ReapUnheard
  <2> QED
    BY <1>1, <2>1
<1>3. CASE ~ReapUnheard(p)
  BY <1>0, <1>1, <1>3, ZenonT(60) DEF ReplyLost, BridgeUnheard, GatewayUnheard, PortUnheard,
    DelUnheard, FlushUnheard, BridgeDelUnheard, AfterBridgeGC, Fail, Goto
<1> QED
  BY <1>2, <1>3

\* The steps of a call outside its handler touch neither grout nor reservations.
LEMMA OutsideHandler ==
  ASSUME NEW p \in Procs,
         \/ Dial(p) \/ Acquire(p) \/ LockFails(p) \/ Unlock(p) \/ Exit(p) \/ Kill(p) \/ Runtime(p)
  PROVE  UNCHANGED <<iface, socks, ipam>>
BY Zenon DEF Dial, Acquire, LockFails, Unlock, Exit, Kill, Runtime, InvokeAdd, InvokeDel,
  InvokeCheck, InvokeGC, InvokeStatus, Invoke, hostVars, groutVars

\* Another user of grout changes no interface of the plugin.
LEMMA ForeignSlots ==
  ASSUME GroutTypeOK, FreeSlots, ForeignStep
  PROVE  /\ FreeSlots' /\ UNCHANGED <<socks, ipam>>
         /\ \A i \in Ids : "cni" \in {iface[i].owner, iface'[i].owner} => iface'[i] = iface[i]
<1>1. UNCHANGED <<socks, ipam>>
  BY Zenon DEF ForeignStep, ForeignDel, ForeignAdd, hostVars
<1>2. ASSUME NEW j \in Ids, ForeignDel(j)
      PROVE  \A i \in Ids : /\ "cni" \in {iface[i].owner, iface'[i].owner} => iface'[i] = iface[i]
                            /\ iface'[i] = iface[i] \/ iface'[i].owner # "cni"
  BY <1>2 DEF GroutTypeOK, ForeignDel, NoIface
<1>3. ASSUME NEW j \in Ids, NEW f \in Foreign, ForeignAdd(f, j)
      PROVE  \A i \in Ids : /\ "cni" \in {iface[i].owner, iface'[i].owner} => iface'[i] = iface[i]
                            /\ iface'[i] = iface[i] \/ iface'[i].owner # "cni"
  BY <1>3 DEF GroutTypeOK, FreeSlots, ForeignAdd, CanAdd, Exists, NewIface
<1> QED
  BY <1>1, <1>2, <1>3, Zenon DEF ForeignStep, FreeSlots

\* The invariant is inductive.
LEMMA NextSlots == SlotInv /\ [Next]_vars => SlotInv'
<1> SUFFICES ASSUME SlotInv, [Next]_vars PROVE FreeSlots'
  BY NextCore DEF SlotInv
<1>0. CoreInv /\ GroutTypeOK /\ FreeSlots
  BY DEF SlotInv, CoreInv, TypeOK
<1>1. ASSUME TableStep PROVE FreeSlots'
  BY <1>0, <1>1, TableSlots
<1>2. ASSUME UNCHANGED iface PROVE FreeSlots'
  BY <1>0, <1>2 DEF FreeSlots
<1>3. CASE GroutCrash
  BY <1>3 DEF GroutCrash, Crash, FreeSlots, NoIface
<1>4. CASE GroutRestart \/ (\E a \in Attachments : NetdevDrift(a)) \/ UNCHANGED vars
  BY <1>2, <1>4, Zenon DEF GroutRestart, Restart, NetdevDrift, vars
<1>5. CASE ForeignStep
  BY <1>0, <1>5, ForeignSlots
<1> QED
  BY <1>0, <1>1, <1>2, <1>3, <1>4, <1>5, HandlerTableStep, ReplyLostTable, OutsideHandler, Zenon
  DEF Next, Step, Environment, HandlerStep

\* A handler that holds the lock is alone: between two of its requests no other
\* call, no death of a process and no other user of grout changes an interface of
\* the plugin, a reservation or a socket file, as long as grout itself lives.
THEOREM HandlerUndisturbed == Spec => NoInterference
<1>1. Init => SlotInv
  BY InitCore DEF Init, GroutInit, SlotInv, FreeSlots, NoIface
<1>2. ASSUME SlotInv, [Next]_vars, NEW p \in Procs, lock = p, groutUp' = groutUp,
             pc'[p] = pc[p], gws'[p] = gws[p], todo'[p] = todo[p]
      PROVE  /\ ipam' = ipam /\ socks' = socks
             /\ \A i \in Ids : "cni" \in {iface[i].owner, iface'[i].owner} => iface'[i] = iface[i]
  <2>0. CoreInv /\ GroutTypeOK /\ FreeSlots
    BY <1>2 DEF SlotInv, CoreInv, TypeOK
  <2>1. ASSUME NEW q \in Procs, HandlerStep(q) \/ ReplyLost(q) PROVE FALSE
    <3>1. pc[q] \in Critical /\ (pc'[q] # pc[q] \/ gws'[q] # gws[q] \/ todo'[q] # todo[q])
      BY <2>0, <2>1, HandlerMoves, HandlerTableStep, ReplyLostTable DEF Moves
    <3>2. q = p
      BY <1>2, <2>0, <3>1 DEF CoreInv, LockOwnership
    <3> QED
      BY <1>2, <3>1, <3>2, SMTT(60)
  <2>2. CASE UNCHANGED <<iface, socks, ipam>>
    BY <2>2
  <2>3. CASE GroutCrash \/ GroutRestart
    BY <1>2, <2>3 DEF GroutCrash, Crash, GroutRestart, Restart
  <2>4. CASE (\E a \in Attachments : NetdevDrift(a)) \/ UNCHANGED vars
    BY <2>2, <2>4, Zenon DEF NetdevDrift, vars
  <2>5. CASE ForeignStep
    BY <2>0, <2>5, ForeignSlots
  <2> QED
    BY <1>2, <2>1, <2>2, <2>3, <2>4, <2>5, OutsideHandler, Zenon
    DEF Next, Step, Environment, HandlerStep
<1>3. SlotInv /\ [Next]_vars =>
        [\A p \in Procs :
           lock = p /\ groutUp' = groutUp
             /\ pc'[p] = pc[p] /\ gws'[p] = gws[p] /\ todo'[p] = todo[p]
           => /\ ipam' = ipam /\ socks' = socks
              /\ \A i \in Ids : "cni" \in {iface[i].owner, iface'[i].owner} => iface'[i] = iface[i]]_vars
  BY <1>2, Zenon
<1> QED
  BY <1>1, <1>3, NextSlots, PTL DEF Spec, NoInterference

-----------------------------------------------------------------------------
(* No port of the plugin is ever left in the domain of an interface that   *)
(* is not a bridge.  The handlers delete by an id they learned some        *)
(* requests earlier; Learned says what is still true of that id, because   *)
(* the handler runs alone, other users of grout leave the plugin's ports   *)
(* alone, and a crash of grout leaves the handler with a dead connection.  *)

\* An interface with the prefix of the plugin's ports is a port it created.
PortsOK ==
  /\ NoStrandedPort
  /\ \A i \in Ids : iface[i].name \in PortNames => iface[i].type = "port" /\ iface[i].owner = "cni"

\* No port of the plugin is in the domain of interface i.
NotADomain(i) == \A j \in Ids : iface[j].owner = "cni" => iface[j].domain # i

\* What a handler has learned from grout earlier and relies on when it sends a
\* delete, as long as its connection is the live one: the id it got for a port
\* is still a port of the plugin, the bridge it found empty still is.
Learned(p) ==
  /\ conn[p] = "open" =>
       /\ pc[p] \in {"a_move", "a_conf", "a_rollback", "d_del"} =>
            port[p] \in Ids /\ iface[port[p]].name \in PortNames
       /\ pc[p] \in {"b_flush4", "b_flush6", "b_del"} => NotADomain(br[p])
       /\ pc[p] = "g_reap" => \A t \in todo[p] : iface[t[1]].name \in PortNames
       /\ pc[p] = "g_sock" =>
            \A t \in todo[p] : t[1] # port[p] => iface[t[1]].name \in PortNames
  /\ pc[p] \in {"g_reap", "g_sock"} => \A t, u \in todo[p] : t[1] = u[1] => t = u

PortInv == CoreInv /\ PortsOK /\ \A p \in Procs : Learned(p)

\* What GC has on its list are interface ids with port names.
LEMMA StaleIds ==
  ASSUME NEW p \in Procs, todo \in [Procs -> SUBSET (Ids \X PortNames)]
  PROVE  \A t \in todo[p] : t[1] \in Ids /\ t[2] \in PortNames
OBVIOUS

\* The initial state, with an empty interface table, strands nothing.
LEMMA InitPort == Init => PortInv
<1> SUFFICES ASSUME Init PROVE PortInv
  BY Zenon
<1>1. PortsOK
  BY GroutAssumption DEF Init, GroutInit, PortsOK, NoStrandedPort, NoIface
<1>2. \A p \in Procs : Learned(p)
  BY Zenon DEF Init, Learned
<1> QED
  BY <1>1, <1>2, InitCore DEF PortInv

\* ensureBridge creates a bridge that strands nothing,
LEMMA AddBridgePorts ==
  ASSUME GroutTypeOK, PortsOK, NEW i \in Ids, NEW n \in Names \ PortNames, AddBridge(i, n)
  PROVE  PortsOK'
BY GroutAssumption, Zenon DEF GroutTypeOK, PortsOK, NoStrandedPort, AddBridge, CanAdd, Exists,
  NewIface, IsBridge

\* HandleAdd a port in a bridge that is there.
LEMMA AddPortPorts ==
  ASSUME GroutTypeOK, PortsOK, NEW i \in Ids, NEW n \in PortNames, NEW d, NEW v, AddPort(i, n, d, v)
  PROVE  PortsOK' /\ iface'[i].name = n
BY GroutAssumption, Zenon DEF GroutTypeOK, PortsOK, NoStrandedPort, AddPort, CanAdd, Exists, NewIface,
  IsBridge

\* A delete strands nothing if no port of the plugin is in that domain,
LEMMA DelPorts ==
  ASSUME GroutTypeOK, PortsOK, NEW i, NotADomain(i), DelIface(i)
  PROVE  PortsOK' /\ \A j \in Ids : j # i => iface'[j] = iface[j]
BY GroutAssumption, Zenon
DEF GroutTypeOK, PortsOK, NoStrandedPort, DelIface, CanDel, Exists, NoIface, IsBridge, NotADomain

\* which is so for a port of the plugin.
LEMMA PortIsNoDomain ==
  ASSUME GroutTypeOK, PortsOK, NEW i \in Ids, iface[i].name \in PortNames
  PROVE  NotADomain(i)
BY GroutAssumption, ZenonT(60) DEF PortsOK, NoStrandedPort, NotADomain, IsBridge

\* Adding or flushing addresses moves no interface.
LEMMA SetAddrsPorts ==
  ASSUME GroutTypeOK, PortsOK, NEW i, NEW as, SetAddrs(i, as)
  PROVE  /\ PortsOK'
         /\ \A j \in Ids : /\ iface'[j].name = iface[j].name /\ iface'[j].owner = iface[j].owner
                           /\ iface'[j].domain = iface[j].domain
<1>1. \A j \in Ids : /\ iface'[j].name = iface[j].name /\ iface'[j].owner = iface[j].owner
                     /\ iface'[j].domain = iface[j].domain /\ iface'[j].type = iface[j].type
  BY DEF GroutTypeOK, SetAddrs, NewIface
<1> QED
  BY <1>1 DEF PortsOK, NoStrandedPort, IsBridge

\* Nothing is stranded while the interface table stays.
LEMMA SamePorts == ASSUME PortsOK, UNCHANGED iface PROVE PortsOK'
BY DEF PortsOK, NoStrandedPort, IsBridge

\* InterfaceDel as the handlers use it: refused, or of no domain of a port.
LEMMA TryDelPorts ==
  ASSUME GroutTypeOK, PortsOK, NEW p, NEW i, conn[p] = "open" => NotADomain(i), TryDel(p, i)
  PROVE  PortsOK'
BY DelPorts, SamePorts DEF TryDel, Served, Refused

\* Where a handler has nothing to rely on.
LEMMA NothingLearned ==
  ASSUME NEW p \in Procs,
         pc'[p] \notin {"a_move", "a_conf", "a_rollback", "d_del", "b_flush4", "b_flush6", "b_del",
                       "g_reap", "g_sock"}
  PROVE  Learned(p)'
BY DEF Learned

\* No handler step strands a port, and what the handler relies on next is so.
LEMMA HandlerPorts ==
  ASSUME PortInv, NEW p \in Procs, HandlerStep(p)
  PROVE  PortsOK' /\ Learned(p)'
<1>0. /\ GroutTypeOK /\ PortsOK /\ Learned(p) /\ pc \in [Procs -> Labels]
      /\ br \in [Procs -> Ids \union {0}] /\ port \in [Procs -> Ids \union {0}]
      /\ todo \in [Procs -> SUBSET (Ids \X PortNames)]
  BY DEF PortInv, CoreInv, TypeOK
<1>z. pc[p] \in {"a_mkbr", "a_port", "d_list"} =>
        Bridge[req[p].net] \in Names \ PortNames /\ MyName(p) \in PortNames
  BY CallFacts, CNIAssumption, ZenonT(60) DEF PortInv, CoreInv, CallOK, VerbsAt
<1> USE <1>0, <1>z DEF Goto, Fail
<1>1. CASE AddIpam(p)
  BY <1>1, SamePorts, NothingLearned DEF AddIpam, groutVars
<1>2. CASE EnsureBridgeList(p)
  BY <1>2, SamePorts, NothingLearned, Zenon DEF EnsureBridgeList, Listed, Refused, BridgeReady,
    AfterGateway
<1>3. CASE EnsureBridgeRelist(p)
  BY <1>3, SamePorts, NothingLearned, Zenon DEF EnsureBridgeRelist, Listed, Refused, BridgeReady,
    AfterGateway
<1>4. CASE ipamDel(p)
  BY <1>4, SamePorts, NothingLearned, Zenon DEF ipamDel, groutVars
<1>5. CASE DelSocket(p)
  BY <1>5, SamePorts, NothingLearned, Zenon DEF DelSocket, removeVhostSocket
<1>6. CASE CheckList(p)
  BY <1>6, SamePorts, NothingLearned, Zenon DEF CheckList, Listed, Refused
<1>7. CASE CheckPodSide(p)
  BY <1>7, SamePorts, NothingLearned, ZenonT(60) DEF CheckPodSide, groutVars
<1>8. CASE gcIPAM(p)
  BY <1>8, SamePorts, NothingLearned, Zenon DEF gcIPAM, groutVars
<1>9. CASE EnsureBridgeCreate(p)
  <2>1. PortsOK'
    BY <1>9, SamePorts, AddBridgePorts, Zenon DEF EnsureBridgeCreate, Refused
  <2> QED
    BY <1>9, <2>1, NothingLearned, Zenon DEF EnsureBridgeCreate, BridgeReady, AfterGateway
<1>10. CASE AddGateway(p)
  <2>1. PortsOK'
    BY <1>10, SamePorts, SetAddrsPorts, Zenon DEF AddGateway, Refused
  <2> QED
    BY <1>10, <2>1, NothingLearned, Zenon DEF AddGateway, AfterGateway
<1>11. CASE AddPodPort(p)
  <2>1. CASE UNCHANGED iface /\ pc' = [pc EXCEPT ![p] = "ipamdel"]
    BY <2>1, SamePorts, NothingLearned
  <2>2. ASSUME NEW i \in Ids, AddPort(i, MyName(p), br[p], Virtio(p)),
               port' = [port EXCEPT ![p] = i],
               pc' = [pc EXCEPT ![p] = "ret"] \/ pc' = [pc EXCEPT ![p] = "a_move"]
        PROVE  PortsOK' /\ Learned(p)'
    <3>0. MyName(p) \in PortNames
      BY <1>11, Zenon DEF AddPodPort
    <3>1. PortsOK'
      BY <2>2, <3>0, AddPortPorts, Zenon
    <3>2. iface'[i].name \in PortNames /\ port'[p] = i /\ pc'[p] \in {"ret", "a_move"}
      BY <2>2, <3>0, Zenon DEF AddPort, NewIface, GroutTypeOK
    <3> QED
      BY <3>1, <3>2, Zenon DEF Learned
  <2> QED
    BY <1>11, <2>1, <2>2, ZenonT(60) DEF AddPodPort, Refused
<1>12. CASE moveLinkToNamespace(p)
  BY <1>12, SamePorts, Zenon DEF moveLinkToNamespace, NetdevStep, procVars, locals, Learned
<1>13. CASE configurePodInterface(p)
  BY <1>13, SamePorts, Zenon DEF configurePodInterface, NetdevStep, procVars, locals, Learned
<1>14. CASE cleanupAfterAddFailure(p)
  <2>1. conn[p] = "open" => NotADomain(port[p])
    BY <1>14, PortIsNoDomain, ZenonT(60) DEF cleanupAfterAddFailure, Learned
  <2> QED
    BY <1>14, <2>1, TryDelPorts, NothingLearned, Zenon DEF cleanupAfterAddFailure
<1>15. CASE DelList(p)
  <2>1. PortsOK'
    BY <1>15, SamePorts, Zenon DEF DelList, Listed, Refused
  <2>2. Learned(p)'
    BY <1>15, Zenon DEF DelList, Listed, Refused, Learned, findByName, Named
  <2> QED
    BY <2>1, <2>2
<1>16. CASE DelPort(p)
  <2>1. conn[p] = "open" => NotADomain(port[p])
    BY <1>16, PortIsNoDomain, Zenon DEF DelPort, Learned
  <2> QED
    BY <1>16, <2>1, TryDelPorts, NothingLearned, Zenon DEF DelPort
<1>17. CASE BridgeGCList(p)
  <2>1. PortsOK'
    BY <1>17, SamePorts, Zenon DEF BridgeGCList, Listed, Refused
  <2>2. Learned(p)'
    BY <1>17, ZenonT(60) DEF BridgeGCList, AfterBridgeGC, BridgeEmpty, Members, Listed, Refused, Learned,
      NotADomain, locals
  <2> QED
    BY <2>1, <2>2
<1>18. CASE BridgeGCFlush4(p)
  <2>1. CASE UNCHANGED iface
    BY <1>18, <2>1, SamePorts, Zenon DEF BridgeGCFlush4, Learned, NotADomain, locals, procVars
  <2>2. ASSUME NEW as, SetAddrs(br[p], as)
        PROVE  PortsOK' /\ Learned(p)'
    BY <1>18, <2>2, SetAddrsPorts, ZenonT(60) DEF BridgeGCFlush4, Learned, NotADomain, locals, procVars
  <2> QED
    BY <1>18, <2>1, <2>2, Zenon DEF BridgeGCFlush4, Refused
<1>19. CASE BridgeGCFlush6(p)
  <2>1. CASE UNCHANGED iface
    BY <1>19, <2>1, SamePorts, Zenon DEF BridgeGCFlush6, Learned, NotADomain, locals, procVars
  <2>2. ASSUME NEW as, SetAddrs(br[p], as)
        PROVE  PortsOK' /\ Learned(p)'
    BY <1>19, <2>2, SetAddrsPorts, Zenon DEF BridgeGCFlush6, Learned, NotADomain, locals, procVars
  <2> QED
    BY <1>19, <2>1, <2>2, Zenon DEF BridgeGCFlush6, Refused
<1>20. CASE BridgeGCDel(p)
  <2>1. conn[p] = "open" => NotADomain(br[p])
    BY <1>20, Zenon DEF BridgeGCDel, Learned
  <2> QED
    BY <1>20, <2>1, TryDelPorts, NothingLearned, Zenon DEF BridgeGCDel, AfterBridgeGC
<1>21. CASE GCList(p)
  <2>1. PortsOK'
    BY <1>21, SamePorts, Zenon DEF GCList, Listed, Refused, AfterReap
  <2>2. Learned(p)'
    <3>1. ASSUME NEW b, NEW t \in StalePorts(b, req[p].valid), NEW u \in StalePorts(b, req[p].valid)
          PROVE  iface[t[1]].name \in PortNames /\ (t[1] = u[1] => t = u)
      BY DEF StalePorts
    <3>2. CASE \E b : /\ todo' = [todo EXCEPT ![p] = StalePorts(b, req[p].valid)]
                      /\ UNCHANGED iface
                      /\ pc'[p] \in {"g_reap", "g_ipam"}
      <4>1. PICK b : todo'[p] = StalePorts(b, req[p].valid)
        BY <3>2, ZenonT(60)
      <4>2. ASSUME NEW t \in todo'[p], NEW u \in todo'[p]
            PROVE  iface'[t[1]].name \in PortNames /\ (t[1] = u[1] => t = u)
        <5>1. t \in StalePorts(b, req[p].valid) /\ u \in StalePorts(b, req[p].valid)
          BY <4>1, Zenon
        <5>2. iface' = iface
          BY <3>2, Zenon
        <5>3. iface[t[1]].name \in PortNames /\ (t[1] = u[1] => t = u)
          BY <3>1, <5>1, Zenon
        <5> QED
          BY <5>2, <5>3, Zenon
      <4> QED
        BY <3>2, <4>2, Zenon DEF Learned
    <3>3. CASE pc'[p] \in {"g_ipam", "ret"}
      BY <3>3, NothingLearned
    <3> QED
      BY <1>21, <3>2, <3>3, Zenon DEF GCList, Listed, Refused, AfterReap
  <2> QED
    BY <2>1, <2>2
<1>22. CASE GCReap(p)
  <2>1. PICK t \in todo[p] :
          \/ /\ Served(p) /\ DelIface(t[1])
             /\ port' = [port EXCEPT ![p] = t[1]]
             /\ pc' = [pc EXCEPT ![p] = "g_sock"]
             /\ UNCHANGED todo
          \/ /\ UNCHANGED <<iface, port>>
             /\ todo' = [todo EXCEPT ![p] = todo[p] \ {t}]
             /\ pc' = [pc EXCEPT ![p] = pc'[p]]
             /\ pc'[p] \in {"g_reap", "b_list", "g_ipam"}
    BY <1>22, Zenon DEF GCReap, Refused, AfterReap
  <2>2. CASE DelIface(t[1]) /\ Served(p) /\ UNCHANGED todo
    <3>1. NotADomain(t[1])
      <4>1. t[1] \in Ids
        BY StaleIds
      <4>2. iface[t[1]].name \in PortNames
        BY <1>22, <2>2, Zenon DEF GCReap, Learned, Served
      <4> QED
        BY <4>1, <4>2, PortIsNoDomain, Zenon
    <3>2. PortsOK' /\ \A j \in Ids : j # t[1] => iface'[j] = iface[j]
      <4>1. GroutTypeOK /\ PortsOK /\ DelIface(t[1])
        BY <2>2, Zenon DEF PortInv, CoreInv, TypeOK
      <4> QED
        BY <3>1, <4>1, DelPorts
    <3>3. pc'[p] = "g_sock" /\ port'[p] = t[1] /\ todo'[p] = todo[p]
      BY <2>1, <2>2
    <3> QED
      <4>1. \A u \in todo[p] : u[1] \in Ids
        OBVIOUS
      <4>2. conn' = conn /\ pc[p] = "g_reap"
        BY <1>22, Zenon DEF GCReap, procVars
      <4> QED
        BY <3>2, <3>3, <4>1, <4>2, Zenon DEF Learned
  <2>3. CASE UNCHANGED <<iface, port>> /\ todo' = [todo EXCEPT ![p] = todo[p] \ {t}]
    BY <1>22, <2>1, <2>3, SamePorts, ZenonT(60) DEF GCReap, Learned, procVars
  <2> QED
    BY <2>1, <2>2, <2>3, Zenon
<1>23. CASE GCSocket(p)
  <2>1. PICK t \in todo[p] :
          /\ t[1] = port[p]
          /\ UNCHANGED <<iface, port, conn>>
          /\ todo' = [todo EXCEPT ![p] = todo[p] \ {t}]
          /\ pc' = [pc EXCEPT ![p] = pc'[p]]
          /\ pc'[p] \in {"g_reap", "b_list"}
    BY <1>23, Zenon DEF GCSocket, removeVhostSocket, AfterReap, procVars
  <2>2. PortsOK'
    BY <2>1, SamePorts, Zenon
  <2>3. Learned(p)'
    <3>1. /\ pc[p] = "g_sock"
          /\ \A u \in todo[p] : u[1] = port[p] => u = t
          /\ conn[p] = "open" =>
               \A u \in todo[p] : u[1] # port[p] => iface[u[1]].name \in PortNames
      BY <1>23, <2>1, Zenon DEF GCSocket, Learned
    <3>2. todo'[p] = todo[p] \ {t} /\ pc'[p] \in {"g_reap", "b_list"}
      BY <2>1, Zenon
    <3>3. CASE pc'[p] = "b_list"
      BY <3>3, NothingLearned
    <3>4. CASE pc'[p] = "g_reap"
      BY <2>1, <3>1, <3>2, <3>4, Zenon DEF Learned
    <3> QED
      BY <3>2, <3>3, <3>4, Zenon
  <2> QED
    BY <2>2, <2>3, Zenon
<1> QED
  BY <1>1, <1>2, <1>3, <1>4, <1>5, <1>6, <1>7, <1>8, <1>9, <1>10, <1>11, <1>12, <1>13, <1>14,
    <1>15, <1>16, <1>17, <1>18, <1>19, <1>20, <1>21, <1>22, <1>23, Zenon
  DEF HandlerStep, HandleAdd, HandleDel, gcBridgeIfEmpty, HandleCheck, HandleGC

\* A handler runs alone, so nothing another process relies on changes.
LEMMA HandlerOthers ==
  ASSUME CoreInv, NEW p \in Procs, Moves(p), NEW q \in Procs, q # p
  PROVE  Learned(q)'
<1>1. pc'[q] \notin Critical
  BY DEF CoreInv, TypeOK, LockOwnership, Moves
<1> QED
  BY <1>1, NothingLearned, Zenon DEF Critical

\* A step that leaves the interface table, a process's connection and locals
\* alone leaves what it relies on alone.
LEMMA SameLearned ==
  ASSUME NEW q \in Procs, Learned(q), UNCHANGED iface, conn'[q] = conn[q], pc'[q] = pc[q],
         port'[q] = port[q], br'[q] = br[q], todo'[q] = todo[q]
  PROVE  Learned(q)'
BY Zenon DEF Learned, NotADomain

\* Every handler step keeps the invariant.
LEMMA HandlerPort ==
  ASSUME PortInv, NEW p \in Procs, HandlerStep(p)
  PROVE  PortInv'
<1>1. CoreInv' /\ Moves(p)
  BY HandlerCore, HandlerMoves DEF PortInv
<1>2. PortsOK' /\ Learned(p)'
  BY HandlerPorts
<1>3. \A q \in Procs : Learned(q)'
  BY <1>1, <1>2, HandlerOthers DEF PortInv
<1> QED
  BY <1>1, <1>2, <1>3 DEF PortInv

\* The calls of the runtime and the steps around the handlers keep it.
LEMMA CallPort ==
  ASSUME PortInv, NEW p \in Procs,
         \/ Dial(p) \/ Acquire(p) \/ LockFails(p) \/ Unlock(p) \/ Exit(p) \/ Kill(p) \/ Runtime(p)
  PROVE  PortInv'
<1>0. /\ pc \in [Procs -> Labels] /\ conn \in [Procs -> {"closed", "open", "dead"}]
      /\ br \in [Procs -> Ids \union {0}] /\ port \in [Procs -> Ids \union {0}]
      /\ todo \in [Procs -> SUBSET (Ids \X PortNames)]
      /\ pc[p] = "lock" => req[p].verb \in {"ADD", "DEL", "CHECK", "GC"}
  BY DEF PortInv, CoreInv, TypeOK, CallOK, VerbsAt, Verbs
<1>1. CoreInv'
  BY CallCore, GoneCore, RuntimeCore DEF PortInv
<1>2. UNCHANGED iface
  BY Zenon
  DEF Dial, Acquire, LockFails, Unlock, Exit, Kill, Runtime, InvokeAdd, InvokeDel, InvokeCheck,
    InvokeGC, InvokeStatus, Invoke, groutVars
<1>3. pc'[p] \in {"exit", "lock", "a_ipam", "d_list", "c_list", "g_list", "idle", "dial"}
  <2>1. CASE Dial(p) \/ LockFails(p) \/ Unlock(p)
    BY <1>0, <2>1, Zenon DEF Dial, LockFails, Unlock, Goto, Fail
  <2>2. CASE Acquire(p)
    BY <1>0, <2>2, HandlerLabel, Zenon DEF Acquire, Goto
  <2>3. CASE Exit(p) \/ Kill(p)
    BY <1>0, <2>3 DEF Exit, Kill, Gone, Goto
  <2>4. CASE Runtime(p)
    BY <1>0, <2>4, Zenon DEF Runtime, InvokeAdd, InvokeDel, InvokeCheck, InvokeGC, InvokeStatus,
      Invoke, Goto
  <2> QED
    BY <2>1, <2>2, <2>3, <2>4, ZenonT(60)
<1>4. ASSUME NEW q \in Procs, q # p
      PROVE  /\ conn'[q] = conn[q] /\ pc'[q] = pc[q] /\ port'[q] = port[q]
             /\ br'[q] = br[q] /\ todo'[q] = todo[q]
  BY <1>0, <1>4, Zenon DEF Dial, Acquire, LockFails, Unlock, Exit, Kill, Gone, Runtime, InvokeAdd,
    InvokeDel,
    InvokeCheck, InvokeGC, InvokeStatus, Invoke, Goto, Fail, locals, procVars
<1>5. \A q \in Procs : Learned(q)'
  BY <1>2, <1>3, <1>4, SameLearned, NothingLearned, Zenon DEF PortInv
<1> QED
  BY <1>1, <1>2, <1>5, SamePorts, Zenon DEF PortInv

\* Nor does another user of grout, which neither deletes a port of the plugin
\* nor puts one into a bridge.
LEMMA ForeignPort ==
  ASSUME PortInv, ForeignStep
  PROVE  PortInv'
<1>0. GroutTypeOK /\ PortsOK
  BY Zenon DEF PortInv, CoreInv, TypeOK
<1>1. PICK i, x :
        /\ i \in Ids
        /\ iface' = [iface EXCEPT ![i] = x]
        /\ x.owner # "cni" /\ x.name \notin PortNames
        /\ iface[i].name \notin PortNames
        /\ \A j \in Ids : iface[j].owner = "cni" => iface[j].domain # i
  <2>1. ASSUME NEW i \in Ids, ForeignDel(i)
        PROVE  /\ iface' = [iface EXCEPT ![i] = NoIface]
               /\ NoIface.owner # "cni" /\ NoIface.name \notin PortNames
               /\ iface[i].name \notin PortNames
               /\ \A j \in Ids : iface[j].owner = "cni" => iface[j].domain # i
    BY <1>0, <2>1, GroutAssumption DEF ForeignDel, NoIface, PortsOK, Members
  <2>2. ASSUME NEW i \in Ids, NEW f \in Foreign, ForeignAdd(f, i)
        PROVE  \E d : LET x == NewIface(f.name, f.type, d, f.addrs, "other") IN
                      /\ iface' = [iface EXCEPT ![i] = x]
                      /\ x.owner # "cni" /\ x.name \notin PortNames
    BY <2>2, GroutAssumption, Zenon DEF ForeignAdd, NewIface
  <2>3. ASSUME NEW i \in Ids, NEW f \in Foreign, ForeignAdd(f, i)
        PROVE  /\ iface[i].name \notin PortNames
               /\ \A j \in Ids : iface[j].owner = "cni" => iface[j].domain # i
    BY <1>0, <2>3, GroutAssumption, ZenonT(60)
    DEF ForeignAdd, CanAdd, Exists, PortsOK, NoStrandedPort, IsBridge
  <2> QED
    <3>1. CASE \E i \in Ids : ForeignDel(i)
      BY <2>1, <3>1, Zenon
    <3>2. CASE \E i \in Ids, f \in Foreign : ForeignAdd(f, i)
      BY <2>2, <2>3, <3>2, Zenon
    <3> QED
      BY <3>1, <3>2, Zenon DEF ForeignStep
<1>2. PortsOK'
  BY <1>0, <1>1, Zenon DEF PortsOK, NoStrandedPort, IsBridge, GroutTypeOK
<1>3. \A q \in Procs : Learned(q)'
  <2> SUFFICES ASSUME NEW q \in Procs PROVE Learned(q)'
    BY Zenon
  <2>1. /\ Learned(q) /\ todo[q] \in SUBSET (Ids \X PortNames) /\ UNCHANGED <<pc, conn, locals>>
    BY DEF PortInv, CoreInv, TypeOK, ForeignStep, procVars
  <2>2. \A j \in Ids : iface[j].name \in PortNames => iface'[j] = iface[j]
    BY <1>0, <1>1 DEF GroutTypeOK
  <2>3. \A b : NotADomain(b) => NotADomain(b)'
    BY <1>0, <1>1 DEF GroutTypeOK, NotADomain
  <2> QED
    BY <2>1, <2>2, <2>3, Zenon DEF Learned, locals
<1>4. CoreInv'
  BY EnvironmentCore DEF PortInv
<1> QED
  BY <1>2, <1>3, <1>4 DEF PortInv

\* A crash of grout empties the table and leaves only dead connections.
LEMMA EnvironmentPort ==
  ASSUME PortInv, GroutCrash \/ GroutRestart \/ \E a \in Attachments : NetdevDrift(a)
  PROVE  PortInv'
<1>1. CoreInv'
  BY EnvironmentCore DEF PortInv
<1>2. CASE GroutCrash
  <2>1. PortsOK'
    BY <1>2, GroutAssumption, Zenon DEF GroutCrash, Crash, PortsOK, NoStrandedPort, NoIface
  <2>2. \A q \in Procs : Learned(q)'
    BY <1>2, Zenon DEF PortInv, CoreInv, TypeOK, GroutCrash, Learned, locals
  <2> QED
    BY <1>1, <2>1, <2>2 DEF PortInv
<1>3. CASE GroutRestart \/ \E a \in Attachments : NetdevDrift(a)
  <2>1. UNCHANGED <<iface, conn, pc, port, br, todo>>
    BY <1>3 DEF GroutRestart, Restart, NetdevDrift, procVars, locals
  <2> QED
    BY <1>1, <2>1, SamePorts, SameLearned, Zenon DEF PortInv
<1> QED
  BY <1>2, <1>3

\* A lost reply: what the request did to the table is what it does when it is
\* answered, and the handler relies on nothing over a dead connection.
LEMMA ReplyLostPort ==
  ASSUME PortInv, NEW p \in Procs, ReplyLost(p)
  PROVE  PortInv'
<1>0. /\ GroutTypeOK /\ PortsOK /\ Learned(p) /\ CoreInv' /\ conn[p] = "open"
      /\ pc \in [Procs -> Labels] /\ conn \in [Procs -> {"closed", "open", "dead"}]
      /\ todo \in [Procs -> SUBSET (Ids \X PortNames)]
  BY ReplyLostCore, Zenon DEF PortInv, CoreInv, TypeOK, ReplyLost
<1>1. PortsOK'
  <2>0. pc[p] \in {"a_mkbr", "a_port"} =>
          Bridge[req[p].net] \in Names \ PortNames /\ MyName(p) \in PortNames
    BY CallFacts, CNIAssumption, Zenon DEF PortInv, CoreInv, CallOK, VerbsAt
  <2>1. CASE BridgeUnheard(p)
    BY <1>0, <2>0, <2>1, AddBridgePorts, ZenonT(60) DEF BridgeUnheard
  <2>2. CASE PortUnheard(p)
    BY <1>0, <2>0, <2>2, AddPortPorts, Zenon DEF PortUnheard
  <2>3. CASE GatewayUnheard(p) \/ FlushUnheard(p)
    BY <1>0, <2>3, SetAddrsPorts, Zenon DEF GatewayUnheard, FlushUnheard
  <2>4. CASE DelUnheard(p)
    BY <1>0, <2>4, PortIsNoDomain, DelPorts, Zenon DEF DelUnheard, Learned
  <2>5. CASE BridgeDelUnheard(p)
    BY <1>0, <2>5, DelPorts, Zenon DEF BridgeDelUnheard, Learned
  <2>6. CASE ReapUnheard(p)
    <3>1. PICK t \in todo[p] : DelIface(t[1])
      BY <2>6 DEF ReapUnheard
    <3>2. t[1] \in Ids
      BY <1>0, StaleIds, Zenon
    <3>3. pc[p] = "g_reap"
      BY <2>6, Zenon DEF ReapUnheard
    <3>4. iface[t[1]].name \in PortNames
      BY <1>0, <3>3, Zenon DEF Learned
    <3>5. NotADomain(t[1])
      BY <1>0, <3>2, <3>4, PortIsNoDomain
    <3> QED
      BY <1>0, <3>1, <3>5, DelPorts, Zenon
  <2> QED
    BY <2>1, <2>2, <2>3, <2>4, <2>5, <2>6, Zenon DEF ReplyLost
<1>2. Learned(p)'
  <2>1. conn'[p] = "dead"
    BY <1>0, Zenon DEF ReplyLost
  <2>2. pc'[p] \notin {"g_reap", "g_sock"} \/ (pc[p] = "g_reap" /\ todo'[p] \subseteq todo[p])
    <3>1. CASE ReapUnheard(p)
      BY <1>0, <3>1, Zenon DEF ReapUnheard
    <3>2. CASE ~ReapUnheard(p)
      BY <1>0, <3>2, Zenon DEF ReplyLost, BridgeUnheard, GatewayUnheard, PortUnheard, DelUnheard,
        FlushUnheard, BridgeDelUnheard, AfterBridgeGC, Goto, Fail
    <3> QED
      BY <3>1, <3>2
  <2> QED
    BY <1>0, <2>1, <2>2, Zenon DEF Learned
<1>3. ASSUME NEW q \in Procs, q # p PROVE Learned(q)'
  <2>1. pc[p] \in Critical /\ pc'[q] = pc[q]
    BY <1>0, <1>3, Zenon DEF ReplyLost, BridgeUnheard, GatewayUnheard, PortUnheard, DelUnheard,
      FlushUnheard, BridgeDelUnheard, ReapUnheard, Goto, Fail, Critical
  <2>2. pc'[q] \notin Critical
    BY <1>3, <2>1 DEF PortInv, CoreInv, TypeOK, LockOwnership
  <2> QED
    BY <2>2, NothingLearned DEF Critical
<1> QED
  BY <1>0, <1>1, <1>2, <1>3, Zenon DEF PortInv

\* The invariant is inductive.
LEMMA NextPort == PortInv /\ [Next]_vars => PortInv'
<1> SUFFICES ASSUME PortInv, [Next]_vars PROVE PortInv'
  BY Zenon
<1>1. ASSUME NEW p \in Procs, Step(p) \/ Runtime(p) PROVE PortInv'
  BY <1>1, HandlerPort, CallPort DEF Step, HandlerStep
<1>2. CASE Environment
  BY <1>2, CallPort, ReplyLostPort, ForeignPort, EnvironmentPort, ZenonT(60) DEF Environment
<1>3. CASE UNCHANGED vars
  BY <1>3, StutterCore, SamePorts, SameLearned, Zenon DEF PortInv, vars
<1> QED
  BY <1>1, <1>2, <1>3 DEF Next

\* No port of the plugin is ever left in the domain of an interface that is not
\* a bridge, although gcBridgeIfEmpty lists, flushes and deletes in separate
\* requests and grout reuses ids, whatever other users of grout do, whichever
\* process is killed, whichever reply is lost and whenever grout crashes.
THEOREM PortsNeverStranded == Spec => []NoStrandedPort
<1>1. PortInv => NoStrandedPort
  BY Zenon DEF PortInv, PortsOK
<1> QED
  BY <1>1, InitPort, NextPort, PTL DEF Spec

-----------------------------------------------------------------------------
(* CHECK answers truthfully although it looks at grout in one request and  *)
(* at the pod in a later step: what it has seen of the port still holds    *)
(* when it answers, because the handlers are serialised and other users of *)
(* grout leave the plugin's ports alone.                                   *)

\* No call starts with an error, and a CHECK that has gone on to the pod has
\* seen the port.
Checking(p) ==
  /\ pc[p] \in {"idle", "dial", "lock", "c_list", "c_pod"} => ~err[p]
  /\ pc[p] = "c_pod" =>
       /\ Virtio(p) \/ req[p].att \notin NoNetns
       /\ conn[p] # "closed"
       /\ conn[p] = "open" => Named(MyName(p)) # {}

CheckInv == PortInv /\ \A p \in Procs : Checking(p)

\* In the initial state no process runs.
LEMMA InitCheck == Init => CheckInv
BY InitPort, Zenon DEF CheckInv, Checking, Init

\* The types that the lemmas below need.
LEMMA CheckFacts ==
  ASSUME CheckInv
  PROVE  /\ PortInv /\ CoreInv /\ GroutTypeOK /\ PortsOK /\ pc \in [Procs -> Labels]
         /\ err \in [Procs -> BOOLEAN] /\ conn \in [Procs -> {"closed", "open", "dead"}]
         /\ req \in [Procs -> Requests]
         /\ \A p \in Procs : Checking(p) /\ req[p].verb \in VerbsAt(pc[p])
BY DEF CheckInv, PortInv, CoreInv, TypeOK, CallOK

\* Of the handlers only CHECK gets to its second look, when the first went well.
LEMMA HandlerCheck ==
  ASSUME CheckInv, NEW p \in Procs, HandlerStep(p)
  PROVE  CheckInv'
<1>0. /\ PortInv' /\ CoreInv /\ Moves(p) /\ Checking(p) /\ pc \in [Procs -> Labels]
      /\ err \in [Procs -> BOOLEAN] /\ req[p].verb \in VerbsAt(pc[p])
  BY CheckFacts, HandlerPort, HandlerMoves
<1>1. Checking(p)'
  <2>1. CASE CheckList(p)
    <3>1. CASE Fail(p, "ret")
      BY <1>0, <3>1, ZenonT(60) DEF Fail, Goto, Checking
    <3>2. CASE /\ Listed(p) /\ findByName(MyName(p)) # {} /\ UNCHANGED err
               /\ Goto(p, IF ~Virtio(p) /\ req[p].att \in NoNetns THEN "ret" ELSE "c_pod")
      <4>1. /\ pc'[p] = IF ~Virtio(p) /\ req[p].att \in NoNetns THEN "ret" ELSE "c_pod"
            /\ pc[p] = "c_list" /\ err'[p] = err[p] /\ conn[p] = "open"
        BY <1>0, <2>1, <3>2, Zenon DEF CheckList, Goto, Listed, Served
      <4>2. req' = req /\ conn' = conn /\ iface' = iface
        BY <2>1, <3>2, Zenon DEF CheckList, Listed, procVars, hostVars, groutVars
      <4>3. ~err'[p]
        BY <1>0, <4>1, Zenon DEF Checking
      <4>4. Virtio(p)' = Virtio(p) /\ Named(MyName(p))' = Named(MyName(p))
        BY <4>2, Zenon DEF Virtio, Named, MyName
      <4>5. Named(MyName(p)) # {}
        BY <3>2, Zenon DEF findByName
      <4> QED
        BY <4>1, <4>2, <4>3, <4>4, <4>5, Zenon DEF Checking
    <3> QED
      BY <2>1, <3>1, <3>2, ZenonT(60) DEF CheckList
  <2>2. CASE ~CheckList(p)
    <3>1. pc'[p] \notin {"idle", "dial", "lock", "c_list", "c_pod"}
      <4>1. CASE CheckPodSide(p)
        BY <1>0, <4>1, Zenon DEF CheckPodSide, Goto, Fail
      <4>2. CASE ~HandleCheck(p)
        <5>1. req[p].verb # "CHECK" \/ pc'[p] = "ret"
          BY <1>0, <4>2, Zenon DEF HandlerStep, HandleAdd, HandleDel, gcBridgeIfEmpty, HandleGC,
            AddIpam, EnsureBridgeList, EnsureBridgeCreate, EnsureBridgeRelist, AddGateway,
            AddPodPort, moveLinkToNamespace, configurePodInterface, cleanupAfterAddFailure, ipamDel,
            DelList, DelPort, DelSocket, BridgeGCList, BridgeGCFlush4, BridgeGCFlush6, BridgeGCDel,
            GCList, GCReap, GCSocket, gcIPAM, VerbsAt
        <5> QED
          BY <1>0, <5>1, Zenon DEF Moves, VerbsAt, Critical
      <4> QED
        BY <2>2, <4>1, <4>2 DEF HandleCheck
    <3> QED
      BY <3>1, Zenon DEF Checking
  <2> QED
    BY <2>1, <2>2
<1>2. ASSUME NEW q \in Procs, q # p PROVE Checking(q)'
  <2>1. pc'[q] = pc[q] /\ pc'[q] \notin Critical
    BY <1>0, <1>2, Zenon DEF CoreInv, LockOwnership, Moves
  <2>2. err'[q] = err[q]
    BY <1>0, <1>2, Zenon DEF Moves
  <2> QED
    BY <2>1, <2>2, CheckFacts, Zenon DEF Checking, Critical
<1> QED
  BY <1>0, <1>1, <1>2, Zenon DEF CheckInv

\* The steps of a call outside its handler, where an error leads to the exit.
LEMMA CallCheck ==
  ASSUME CheckInv, NEW p \in Procs,
         \/ Dial(p) \/ Acquire(p) \/ LockFails(p) \/ Unlock(p) \/ Exit(p) \/ Kill(p) \/ Runtime(p)
  PROVE  CheckInv'
<1>0. /\ PortInv /\ Checking(p) /\ pc \in [Procs -> Labels] /\ err \in [Procs -> BOOLEAN]
      /\ conn \in [Procs -> {"closed", "open", "dead"}] /\ req \in [Procs -> Requests]
      /\ pc[p] = "lock" => req[p].verb \in {"ADD", "DEL", "CHECK", "GC"}
  BY CheckFacts, Zenon DEF VerbsAt, Verbs
<1>1. PortInv'
  BY <1>0, CallPort
<1>2. UNCHANGED iface
  BY Zenon
  DEF Dial, Acquire, LockFails, Unlock, Exit, Kill, Runtime, InvokeAdd, InvokeDel, InvokeCheck,
    InvokeGC, InvokeStatus, Invoke, groutVars
<1>3. Checking(p)'
  <2>1. pc'[p] \in {"exit", "lock", "a_ipam", "d_list", "c_list", "g_list", "idle", "dial"}
        /\ (pc'[p] \in {"lock", "c_list", "idle", "dial"} => ~err'[p])
    <3>1. CASE Dial(p) \/ LockFails(p) \/ Unlock(p)
      BY <1>0, <3>1, Zenon DEF Dial, LockFails, Unlock, Goto, Fail, Checking
    <3>2. CASE Acquire(p)
      BY <1>0, <3>2, HandlerLabel DEF Acquire, Goto, Checking
    <3>3. CASE Exit(p) \/ Kill(p)
      BY <1>0, <3>3, Zenon DEF Exit, Kill, Gone, Goto
    <3>4. CASE Runtime(p)
      <4>1. pc[p] = "idle" /\ pc'[p] = "dial" /\ UNCHANGED err
        BY <1>0, <3>4, Zenon DEF Runtime, InvokeAdd, InvokeDel, InvokeCheck, InvokeGC,
          InvokeStatus, Invoke, Goto
      <4> QED
        BY <1>0, <4>1 DEF Checking
    <3> QED
      BY <3>1, <3>2, <3>3, <3>4, Zenon
  <2> QED
    BY <2>1, Zenon DEF Checking
<1>4. ASSUME NEW q \in Procs, q # p PROVE Checking(q)'
  <2>1. conn'[q] = conn[q] /\ pc'[q] = pc[q] /\ err'[q] = err[q] /\ req'[q] = req[q]
    BY <1>0, <1>4, Zenon DEF Dial, Acquire, LockFails, Unlock, Exit, Kill, Gone, Runtime,
      InvokeAdd, InvokeDel, InvokeCheck, InvokeGC, InvokeStatus, Invoke, Goto, Fail, procVars
  <2> QED
    BY <1>2, <2>1, CheckFacts, Zenon DEF Checking, Named, MyName, Virtio
<1> QED
  BY <1>1, <1>3, <1>4, Zenon DEF CheckInv

\* A crash of grout takes the port but also the connection; other users of grout
\* and the pod do not take the port.
LEMMA EnvironmentCheck ==
  ASSUME CheckInv,
         GroutCrash \/ GroutRestart \/ ForeignStep \/ \E a \in Attachments : NetdevDrift(a)
  PROVE  CheckInv'
<1>1. PortInv'
  BY CheckFacts, EnvironmentPort, ForeignPort, Zenon
<1>2. UNCHANGED <<pc, req, err>>
  BY Zenon DEF GroutCrash, GroutRestart, ForeignStep, NetdevDrift, procVars
<1>c. \A q \in Procs : conn[q] # "closed" => conn'[q] # "closed"
  BY CheckFacts, Zenon DEF GroutCrash, GroutRestart, ForeignStep, NetdevDrift, procVars
<1>3. ASSUME NEW q \in Procs, conn'[q] = "open", pc[q] = "c_pod"
      PROVE  conn[q] = "open" /\ (Named(MyName(q)) # {} => Named(MyName(q))' # {})
  <2>0. MyName(q) \in PortNames /\ UNCHANGED MyName(q)
    BY <1>2, <1>3, CheckFacts, CallFacts, Zenon DEF VerbsAt, MyName
  <2>1. CASE GroutCrash
    BY <1>3, <2>1, CheckFacts DEF GroutCrash
  <2>2. CASE GroutRestart \/ \E a \in Attachments : NetdevDrift(a)
    BY <1>2, <1>3, <2>2, Zenon DEF GroutRestart, Restart, NetdevDrift, procVars, Named, MyName
  <2>3. CASE ForeignStep
    <3>1. UNCHANGED conn
      BY <2>3, Zenon DEF ForeignStep, procVars
    <3>2. \A j \in Ids : iface[j].name \in PortNames => iface'[j] = iface[j]
      <4>1. ASSUME NEW i \in Ids, NEW j \in Ids, iface[j].name \in PortNames, ForeignDel(i)
            PROVE  iface'[j] = iface[j]
        BY <4>1, CheckFacts, Zenon DEF ForeignDel, PortsOK, GroutTypeOK
      <4>2. ASSUME NEW i \in Ids, NEW j \in Ids, iface[j].name \in PortNames,
                   NEW f \in Foreign, ForeignAdd(f, i)
            PROVE  iface'[j] = iface[j]
        BY <4>2, CheckFacts, Zenon DEF ForeignAdd, CanAdd, Exists, PortsOK, GroutTypeOK
      <4> QED
        BY <2>3, <4>1, <4>2, Zenon DEF ForeignStep
    <3> QED
      BY <1>3, <2>0, <3>1, <3>2, Zenon DEF Named
  <2> QED
    BY <2>1, <2>2, <2>3
<1>4. \A q \in Procs : Checking(q)'
  BY <1>2, <1>3, <1>c, CheckFacts, Zenon DEF Checking, Virtio
<1> QED
  BY <1>1, <1>4 DEF CheckInv

\* No request of CHECK changes grout, so no reply it loses concerns it.
LEMMA ReplyLostCheck ==
  ASSUME CheckInv, NEW p \in Procs, ReplyLost(p)
  PROVE  CheckInv'
<1>0. /\ PortInv /\ CoreInv /\ pc \in [Procs -> Labels] /\ err \in [Procs -> BOOLEAN]
  BY CheckFacts
<1>1. /\ pc[p] \in Critical /\ pc' = [pc EXCEPT ![p] = pc'[p]]
      /\ pc'[p] \notin {"idle", "dial", "lock", "c_list", "c_pod"}
      /\ UNCHANGED err \/ err' = [err EXCEPT ![p] = TRUE]
  BY <1>0, ZenonT(60) DEF ReplyLost, BridgeUnheard, GatewayUnheard, PortUnheard, DelUnheard,
    FlushUnheard, BridgeDelUnheard, ReapUnheard, AfterBridgeGC, AfterReap, Goto, Fail, Critical
<1>2. Checking(p)'
  BY <1>1, Zenon DEF Checking
<1>3. ASSUME NEW q \in Procs, q # p PROVE Checking(q)'
  <2>1. pc'[q] = pc[q] /\ pc'[q] \notin Critical
    BY <1>0, <1>1, <1>3 DEF CoreInv, LockOwnership
  <2>2. err'[q] = err[q]
    BY <1>0, <1>1, <1>3, Zenon
  <2> QED
    BY <2>1, <2>2, CheckFacts, Zenon DEF Checking, Critical
<1> QED
  BY <1>0, <1>2, <1>3, ReplyLostPort DEF CheckInv

\* The invariant is inductive.
LEMMA NextCheck == CheckInv /\ [Next]_vars => CheckInv'
<1> SUFFICES ASSUME CheckInv, [Next]_vars PROVE CheckInv'
  BY Zenon
<1>1. ASSUME NEW p \in Procs, Step(p) \/ Runtime(p) PROVE CheckInv'
  BY <1>1, HandlerCheck, CallCheck DEF Step, HandlerStep
<1>2. CASE Environment
  BY <1>2, CallCheck, ReplyLostCheck, EnvironmentCheck, ZenonT(60) DEF Environment
<1>3. CASE UNCHANGED vars
  BY <1>3, NextPort, Zenon DEF CheckInv, Checking, vars, Named, MyName, Virtio
<1> QED
  BY <1>1, <1>2, <1>3 DEF Next

\* A netdev goes with its port, so that one that is up says that grout lives.
NetdevsOK == \A n \in PortNames : link[n] # "none" => Named(n) # {}

\* No request leaves a netdev behind.
LEMMA TableNetdevs == ASSUME PortInv, NetdevsOK, TableStep PROVE NetdevsOK'
<1>0. GroutTypeOK
  BY DEF PortInv, CoreInv, TypeOK
<1>1. CASE UNCHANGED iface /\ NoNewNetdev
  BY <1>1, Zenon DEF NetdevsOK, NoNewNetdev, Named
<1>2. ASSUME NEW i \in Ids, NEW m, AddBridge(i, m) PROVE NetdevsOK'
  <2>1. ASSUME NEW n \in PortNames, NEW j \in Named(n) PROVE j \in Named(n)'
    BY <1>0, <1>2, <2>1, GroutAssumption
    DEF AddBridge, CanAdd, Exists, Named, GroutTypeOK, PortInv, PortsOK
  <2> QED
    BY <1>2, <2>1, Zenon DEF NetdevsOK, AddBridge
<1>3. ASSUME NEW i \in Ids, NEW m, NEW d, NEW v, AddPort(i, m, d, v) PROVE NetdevsOK'
  <2>1. ASSUME NEW n \in PortNames, NEW j \in Named(n) PROVE j \in Named(n)'
    BY <1>0, <1>3, <2>1, GroutAssumption
    DEF AddPort, CanAdd, Exists, Named, GroutTypeOK, PortInv, PortsOK
  <2>2. i \in Named(m)' /\ \A n \in PortNames : n # m => link'[n] = link[n]
    BY <1>0, <1>3 DEF AddPort, NewIface, Named, GroutTypeOK
  <2> QED
    BY <2>1, <2>2, Zenon DEF NetdevsOK
<1>4. ASSUME NEW i \in Ids, DelIface(i) PROVE NetdevsOK'
  <2>1. ASSUME NEW n \in PortNames, n # iface[i].name
        PROVE  link'[n] = link[n] /\ \A j \in Named(n) : j \in Named(n)'
    BY <1>0, <1>4, <2>1 DEF DelIface, Named, GroutTypeOK
  <2>2. \A n \in PortNames : n = iface[i].name => link'[n] = "none"
    BY <1>4, Zenon DEF DelIface
  <2> QED
    BY <2>1, <2>2, Zenon DEF NetdevsOK
<1>5. ASSUME NEW i \in Ids, NEW as, SetAddrs(i, as) PROVE NetdevsOK'
  <2>1. \A j \in Ids : iface'[j].name = iface[j].name
    BY <1>0, <1>5 DEF SetAddrs, NewIface, GroutTypeOK
  <2> QED
    BY <1>5, <2>1, Zenon DEF NetdevsOK, SetAddrs, Named
<1> QED
  BY <1>1, <1>2, <1>3, <1>4, <1>5, Zenon DEF TableStep

AnswerInv == CheckInv /\ NetdevsOK

\* The invariant is inductive.
LEMMA NextAnswer == AnswerInv /\ [Next]_vars => AnswerInv'
<1> SUFFICES ASSUME AnswerInv, [Next]_vars PROVE NetdevsOK'
  BY NextCheck DEF AnswerInv
<1>0. PortInv /\ CoreInv /\ GroutTypeOK /\ PortsOK /\ NetdevsOK
  BY CheckFacts DEF AnswerInv
<1>1. ASSUME TableStep PROVE NetdevsOK'
  BY <1>0, <1>1, TableNetdevs
<1>2. ASSUME UNCHANGED <<iface, link>> PROVE NetdevsOK'
  BY <1>0, <1>2 DEF NetdevsOK, Named
<1>3. ASSUME NEW p \in Procs,
             \/ Dial(p) \/ Acquire(p) \/ LockFails(p) \/ Unlock(p) \/ Exit(p) \/ Kill(p) \/ Runtime(p)
      PROVE  NetdevsOK'
  BY <1>2, <1>3, Zenon DEF Dial, Acquire, LockFails, Unlock, Exit, Kill, Runtime, InvokeAdd,
    InvokeDel, InvokeCheck, InvokeGC, InvokeStatus, Invoke, groutVars
<1>4. CASE GroutCrash
  BY <1>4, Zenon DEF GroutCrash, Crash, NetdevsOK
<1>5. CASE GroutRestart \/ UNCHANGED vars
  BY <1>2, <1>5, Zenon DEF GroutRestart, Restart, vars
<1>6. ASSUME NEW a \in Attachments, NetdevDrift(a) PROVE NetdevsOK'
  <2>1. UNCHANGED iface /\ NoNewNetdev
    BY <1>0, <1>6 DEF NetdevDrift, NoNewNetdev, GroutTypeOK
  <2> QED
    BY <1>0, <2>1, Zenon DEF NetdevsOK, NoNewNetdev, Named
<1>7. CASE ForeignStep
  <2>1. \A j \in Ids : iface[j].name \in PortNames => iface'[j] = iface[j]
    <3>1. ASSUME NEW i \in Ids, NEW j \in Ids, iface[j].name \in PortNames, ForeignDel(i)
          PROVE  iface'[j] = iface[j]
      BY <1>0, <3>1, Zenon DEF ForeignDel, PortsOK, GroutTypeOK
    <3>2. ASSUME NEW i \in Ids, NEW j \in Ids, iface[j].name \in PortNames,
                 NEW f \in Foreign, ForeignAdd(f, i)
          PROVE  iface'[j] = iface[j]
      BY <1>0, <3>2, Zenon DEF ForeignAdd, CanAdd, Exists, PortsOK, GroutTypeOK
    <3> QED
      BY <1>7, <3>1, <3>2, Zenon DEF ForeignStep
  <2>2. UNCHANGED link
    BY <1>7, Zenon DEF ForeignStep, ForeignDel, ForeignAdd
  <2> QED
    BY <1>0, <2>1, <2>2, Zenon DEF NetdevsOK, Named
<1> QED
  BY <1>0, <1>1, <1>3, <1>4, <1>5, <1>6, <1>7, HandlerTableStep, ReplyLostTable, Zenon
  DEF Next, Step, Environment, HandlerStep

\* What an answer of CHECK is to say.
Truthful(p) ==
  LET podSide == PodSideOK(p) \/ (~Virtio(p) /\ req[p].att \in NoNetns)
      portThere == Named(MyName(p)) # {}
  IN /\ ~err'[p] => podSide /\ (portThere \/ (Virtio(p) /\ conn[p] = "dead"))
     /\ err'[p] /\ faults' = faults => ~podSide \/ ~portThere \/ conn[p] = "dead"

\* CHECK looks at grout and at the pod in two steps, and what it answers holds when
\* it answers, whatever other calls, other users of grout and changes in the pod
\* came between.  Success: the pod side is there, and the port too, also when grout
\* has died since; only a virtio socket file outlives its port then.  An error that
\* is no failed request: something is missing, or grout died during the call.
THEOREM CheckAnswersTruthfully == Spec => CheckTruthful
<1>1. ASSUME AnswerInv, [Next]_vars, NEW p \in Procs, req[p].verb = "CHECK",
             pc[p] \in {"c_list", "c_pod"}, pc'[p] = "ret"
      PROVE  Truthful(p)
  <2>0. /\ CoreInv /\ pc \in [Procs -> Labels] /\ err \in [Procs -> BOOLEAN] /\ Checking(p)
        /\ faults \in Nat /\ conn[p] \in {"closed", "open", "dead"} /\ err[p] \in BOOLEAN
        /\ MyName(p) \in PortNames
    <3>1. CheckInv /\ MyName(p) \in PortNames
      BY <1>1, CheckFacts, CallFacts, Zenon DEF VerbsAt, MyName, AnswerInv
    <3>2. /\ CoreInv /\ pc \in [Procs -> Labels] /\ err \in [Procs -> BOOLEAN] /\ Checking(p)
          /\ conn \in [Procs -> {"closed", "open", "dead"}]
      BY <3>1, CheckFacts, Zenon
    <3>3. faults \in Nat
      <4>1. faults \in 0..MaxFaults
        BY <3>2, Zenon DEF CoreInv, TypeOK
      <4> QED
        BY <4>1, CNIAssumption
    <3>4. conn[p] \in {"closed", "open", "dead"} /\ err[p] \in BOOLEAN
      BY <3>2
    <3> QED
      BY <3>1, <3>2, <3>3, <3>4, Zenon
  <2>1. CheckList(p) \/ CheckPodSide(p)
    <3>1. ASSUME NEW q \in Procs, HandlerStep(q) PROVE CheckList(p) \/ CheckPodSide(p)
      <4>1. p = q
        BY <1>1, <2>0, <3>1, HandlerMoves, Zenon DEF Moves
      <4> QED
        BY <1>1, <3>1, <4>1, ZenonT(60) DEF HandlerStep, HandleAdd, HandleDel, gcBridgeIfEmpty,
          HandleCheck, HandleGC, AddIpam, EnsureBridgeList, EnsureBridgeCreate,
          EnsureBridgeRelist, AddGateway, AddPodPort, moveLinkToNamespace, configurePodInterface,
          cleanupAfterAddFailure, ipamDel, DelList, DelPort, DelSocket, BridgeGCList,
          BridgeGCFlush4, BridgeGCFlush6, BridgeGCDel, GCList, GCReap, GCSocket, gcIPAM
    <3>2. ASSUME NEW q \in Procs, Dial(q) \/ Acquire(q) \/ LockFails(q) \/ Unlock(q) \/ Exit(q)
                                  \/ Kill(q) \/ Runtime(q)
          PROVE  FALSE
      <4>1. pc[q] \notin {"c_list", "c_pod"} \/ pc'[q] = "idle"
        BY <2>0, <3>2, Zenon DEF Dial, Acquire, LockFails, Unlock, Exit, Kill, Gone, Runtime,
          InvokeAdd, InvokeDel, InvokeCheck, InvokeGC, InvokeStatus, Invoke, Goto
      <4>2. p # q => pc'[p] = pc[p]
        BY <2>0, <3>2, ZenonT(60) DEF Dial, Acquire, LockFails, Unlock, Exit, Kill, Gone, Runtime,
          InvokeAdd, InvokeDel, InvokeCheck, InvokeGC, InvokeStatus, Invoke, Goto, Fail
      <4> QED
        BY <1>1, <4>1, <4>2, Zenon
    <3>3. ASSUME NEW q \in Procs, ReplyLost(q) PROVE FALSE
      <4>1. pc[q] \notin {"c_list", "c_pod"} /\ (p # q => pc'[p] = pc[p])
        BY <2>0, <3>3, Zenon DEF ReplyLost, BridgeUnheard, GatewayUnheard, PortUnheard,
          DelUnheard, FlushUnheard, BridgeDelUnheard, ReapUnheard, Goto, Fail
      <4> QED
        BY <1>1, <4>1, Zenon
    <3>4. CASE GroutCrash \/ GroutRestart \/ ForeignStep \/ (\E a \in Attachments : NetdevDrift(a))
               \/ UNCHANGED vars
      BY <1>1, <3>4, Zenon DEF GroutCrash, GroutRestart, ForeignStep, NetdevDrift, vars
    <3> QED
      BY <1>1, <3>1, <3>2, <3>3, <3>4, Zenon DEF Next, Step, Environment, HandlerStep
  <2>f. ASSUME NEW k, Fault(k), faults' = faults PROVE FALSE
    BY <2>0, <2>f DEF Fault
  <2>2. CASE CheckList(p)
    <3>1. CASE /\ Listed(p) /\ findByName(MyName(p)) # {} /\ UNCHANGED err
               /\ Goto(p, IF ~Virtio(p) /\ req[p].att \in NoNetns THEN "ret" ELSE "c_pod")
      <4>1. Named(MyName(p)) # {} /\ ~Virtio(p) /\ req[p].att \in NoNetns
        BY <1>1, <2>0, <3>1, Zenon DEF findByName, Goto
      <4>2. ~err'[p]
        BY <2>0, <2>2, <3>1, Zenon DEF CheckList, Checking
      <4> QED
        BY <4>1, <4>2, Zenon DEF Truthful
    <3>2. CASE Fail(p, "ret")
      <4>1. err'[p]
        BY <2>0, <3>2, Zenon DEF Fail
      <4>2. faults' = faults => Named(MyName(p)) = {} \/ conn[p] = "dead"
        BY <2>0, <2>2, <2>f, <3>2, <4>1, ZenonT(60) DEF CheckList, Listed, Refused, findByName, Checking
      <4> QED
        BY <4>1, <4>2, Zenon DEF Truthful
    <3> QED
      BY <2>2, <3>1, <3>2, ZenonT(60) DEF CheckList
  <2>3. CASE CheckPodSide(p)
    <3>0. pc[p] = "c_pod"
      BY <2>3, Zenon DEF CheckPodSide
    <3>1. CASE PodSideOK(p) /\ Goto(p, "ret") /\ UNCHANGED <<err, faults>>
      <4>1. ~err'[p]
        BY <2>0, <3>0, <3>1, ZenonT(60) DEF Checking
      <4>2. ~Virtio(p) => Named(MyName(p)) # {}
        BY <1>1, <2>0, <3>1, ZenonT(60) DEF PodSideOK, AnswerInv, NetdevsOK
      <4>3. conn[p] = "dead" \/ Named(MyName(p)) # {}
        BY <2>0, <3>0, Zenon DEF Checking
      <4> QED
        BY <3>1, <4>1, <4>2, <4>3, Zenon DEF Truthful
    <3>2. CASE Fail(p, "ret") /\ (~PodSideOK(p) \/ \E k : Fault(k))
      <4>1. err'[p]
        BY <2>0, <3>2, Zenon DEF Fail
      <4>2. Virtio(p) \/ req[p].att \notin NoNetns
        BY <2>0, <3>0, Zenon DEF Checking
      <4> QED
        BY <2>f, <3>2, <4>1, <4>2, Zenon DEF Truthful
    <3> QED
      BY <2>3, <3>1, <3>2, Zenon DEF CheckPodSide
  <2> QED
    BY <2>1, <2>2, <2>3, ZenonT(60)
<1>2. Init => AnswerInv
  BY InitCheck DEF Init, GroutInit, AnswerInv, NetdevsOK
<1>3. AnswerInv /\ [Next]_vars =>
        [\A p \in Procs :
           req[p].verb = "CHECK" /\ pc[p] \in {"c_list", "c_pod"} /\ pc'[p] = "ret"
           => LET podSide == PodSideOK(p) \/ (~Virtio(p) /\ req[p].att \in NoNetns)
                  portThere == Named(MyName(p)) # {}
              IN /\ ~err'[p] => podSide /\ (portThere \/ (Virtio(p) /\ conn[p] = "dead"))
                 /\ err'[p] /\ faults' = faults => ~podSide \/ ~portThere \/ conn[p] = "dead"]_vars
  BY <1>1, Zenon DEF Truthful
<1> QED
  BY <1>2, <1>3, NextAnswer, PTL DEF Spec, CheckTruthful

-----------------------------------------------------------------------------
(* What ADD set up for an attachment stays until its DEL, and GC stays     *)
(* within its network, whatever the other processes do, provided that      *)
(* networks have bridges of their own and nobody else makes bridges.  The  *)
(* strengthening says of every port of the plugin that it hangs off the    *)
(* right bridge, of a call what it has achieved so far, and of a handler   *)
(* that deletes something that it deletes nothing of a live attachment.    *)

\* The configurations the theorems are about.
BridgesApart == \A m, n \in Networks : Bridge[m] = Bridge[n] => m = n

ForeignPortsOnly == \A f \in Foreign : f.type = "port"

OwnBridges == BridgesApart /\ ForeignPortsOnly

\* Interface d is the bridge of network n, with its gateways.
Root(d, n) == IsBridge(d) /\ iface[d].name = Bridge[n] /\ Gateways[n] \subseteq iface[d].addrs

Rooted ==
  \A i \in Ids, a \in Attachments : iface[i].name = PortName[a] => Root(iface[i].domain, NetOf[a])

\* Every bridge is one of the plugin.
BridgesOurs == \A i \in Ids : IsBridge(i) => iface[i].owner = "cni"

\* The runtime's discipline: one call per attachment, no GC during ADD or DEL,
\* and a GC that lists every attachment of its network that is live.
CallsApart ==
  /\ \A p, q \in Procs : p # q /\ req[p].att # None => req[p].att # req[q].att
  /\ \A p \in Procs : req[p].verb \in {"ADD", "DEL"} => rt[req[p].att] = "failed"
  /\ \A p, q \in Procs : req[p].verb = "GC" => req[q].verb \notin {"ADD", "DEL"}
  /\ \A p \in Procs : req[p].verb = "GC" =>
       \A a \in Attachments : NetOf[a] = req[p].net /\ rt[a] = "attached" => a \in req[p].valid

\* What an attachment has besides its bridge.
Done(a) ==
  /\ Named(PortName[a]) # {}
  /\ a \in ipam
  /\ IF NetOf[a] \in VirtioNets THEN PortName[a] \in socks
     ELSE link[PortName[a]] = IF a \in NoNetns THEN "host" ELSE "up"

\* The runtime has been told that a is attached, or is about to be.
Claimed(a) ==
  \/ rt[a] = "attached"
  \/ \E p \in Procs : /\ req[p].verb = "ADD" /\ req[p].att = a
                      /\ pc[p] \in {"ret", "exit"} /\ ~err[p]

Live == \A a \in Attachments : Claimed(a) /\ a \notin lost => Done(a)

\* How far an ADD has come.
Progress(p) ==
  /\ pc[p] \in {"a_list", "a_mkbr", "a_relist", "a_addr", "a_port", "a_move", "a_conf"} =>
       req[p].att \in ipam
  /\ pc[p] \in {"ipamdel", "a_rollback"} /\ req[p].verb = "ADD" => err[p]
  /\ pc[p] \in {"a_list", "a_mkbr", "a_relist"} => gws[p] = Gateways[req[p].net]
  /\ pc[p] = "a_port" => gws[p] = {}
  /\ pc[p] \in {"a_addr", "a_port"} =>
       /\ br[p] \in Ids
       /\ conn[p] = "open" /\ IsBridge(br[p]) =>
            /\ iface[br[p]].name = Bridge[req[p].net]
            /\ Gateways[req[p].net] \subseteq iface[br[p]].addrs \union gws[p]
  /\ pc[p] \in {"a_move", "a_conf"} =>
       /\ ~Virtio(p) /\ req[p].att \notin NoNetns
       /\ \/ req[p].att \in lost
          \/ /\ Named(MyName(p)) # {}
             /\ link[MyName(p)] = IF pc[p] = "a_move" THEN "host" ELSE "pod"

\* The ids a handler deletes by still carry the names it found them by, or are
\* still a bridge's.
Precise(p) ==
  conn[p] = "open" =>
    /\ pc[p] \in {"a_move", "a_conf", "a_rollback", "d_del"} => iface[port[p]].name = MyName(p)
    /\ pc[p] \in {"b_flush4", "b_flush6", "b_del"} => IsBridge(br[p])
    /\ pc[p] = "g_reap" => \A t \in todo[p] : iface[t[1]].name = t[2]
    /\ pc[p] = "g_sock" => \A t \in todo[p] : t[1] # port[p] => iface[t[1]].name = t[2]

\* GC has only ports of dead attachments of its own network on its list.
Reapable(p) ==
  \A t \in todo[p] :
    /\ req[p].verb = "GC"
    /\ \A a \in Attachments : PortName[a] = t[2] => NetOf[a] = req[p].net /\ rt[a] # "attached"

IntactInv ==
  /\ PortInv /\ OwnBridges
  /\ Rooted /\ BridgesOurs /\ CallsApart /\ Live
  /\ \A p \in Procs : Progress(p) /\ Precise(p) /\ Reapable(p)

-----------------------------------------------------------------------------
\* The initial state, without interfaces and calls, satisfies it.
LEMMA InitIntact == OwnBridges /\ Init => IntactInv
<1> SUFFICES ASSUME OwnBridges, Init PROVE IntactInv
  BY Zenon
<1>1. Rooted /\ BridgesOurs
  BY GroutAssumption, CNIAssumption DEF Init, GroutInit, NoIface, Rooted, BridgesOurs, IsBridge
<1>2. CallsApart /\ Live
  BY CNIAssumption, ZenonT(60) DEF Init, NoRequest, Request, CallsApart, Live, Claimed
<1>3. \A p \in Procs : Progress(p) /\ Precise(p) /\ Reapable(p)
  BY ZenonT(60) DEF Init, Progress, Precise, Reapable
<1> QED
  BY <1>1, <1>2, <1>3, InitPort DEF IntactInv

-----------------------------------------------------------------------------
\* A port's name is not that of an empty slot, nor of a bridge.
LEMMA PortFacts ==
  ASSUME PortsOK, NEW a \in Attachments
  PROVE  /\ PortName[a] \in PortNames
         /\ \A i \in Ids : iface[i].name = PortName[a] =>
              Exists(i) /\ ~IsBridge(i) /\ iface[i].owner = "cni"
BY CNIAssumption, Zenon DEF PortsOK, Exists, IsBridge

\* Ports stay at their bridges while the interface table stays,
LEMMA RootedSame == ASSUME Rooted, UNCHANGED iface PROVE Rooted'
BY ZenonT(60) DEF Rooted, Root, IsBridge

\* when a bridge is created,
LEMMA RootedAddBridge ==
  ASSUME GroutTypeOK, Rooted, NEW i \in Ids, NEW n \in Names \ PortNames, AddBridge(i, n)
  PROVE  Rooted'
<1>1. /\ \A j \in Ids : iface'[j] = IF j = i THEN NewIface(n, "bridge", 0, {}, "cni") ELSE iface[j]
      /\ ~Exists(i)
  BY Zenon DEF GroutTypeOK, AddBridge, CanAdd
<1>2. iface'[i].name = n /\ \A a \in Attachments : PortName[a] # n
  <2>1. NewIface(n, "bridge", 0, {}, "cni").name = n
    BY Zenon DEF NewIface
  <2>2. iface'[i].name = n
    BY <1>1, <2>1, ZenonT(60)
  <2>3. \A a \in Attachments : PortName[a] \in PortNames
    BY CNIAssumption, ZenonT(60)
  <2> QED
    BY <2>2, <2>3, ZenonT(60)
<1>3. \A e : IsBridge(e) => e # i
  BY <1>1, Zenon DEF Exists, IsBridge
<1> SUFFICES ASSUME NEW j \in Ids, NEW b \in Attachments, iface'[j].name = PortName[b]
             PROVE  Root(iface[j].domain, NetOf[b])'
  BY ZenonT(60) DEF Rooted
<1>4. j # i /\ iface'[j] = iface[j]
  BY <1>1, <1>2, Zenon
<1>5. Root(iface[j].domain, NetOf[b])
  BY <1>4, ZenonT(60) DEF Rooted
<1> QED
  BY <1>1, <1>3, <1>4, <1>5, ZenonT(60) DEF Root, IsBridge

\* when a port is created at its own,
LEMMA RootedAddPort ==
  ASSUME GroutTypeOK, Rooted, NEW i \in Ids, NEW a \in Attachments, NEW d \in Ids, NEW v,
         Root(d, NetOf[a]), AddPort(i, PortName[a], d, v)
  PROVE  Rooted'
<1>1. /\ \A j \in Ids : iface'[j] = IF j = i THEN NewIface(PortName[a], "port", d, {}, "cni") ELSE iface[j]
      /\ ~Exists(i)
  BY Zenon DEF GroutTypeOK, AddPort, CanAdd
<1>2. ASSUME NEW e, NEW n \in Networks, Root(e, n) PROVE Root(e, n)'
  <2>1. e \in Ids /\ e # i
    BY <1>1, <1>2 DEF Root, IsBridge, Exists
  <2> QED
    BY <1>1, <1>2, <2>1, ZenonT(60) DEF Root, IsBridge
<1> SUFFICES ASSUME NEW j \in Ids, NEW b \in Attachments, iface'[j].name = PortName[b]
             PROVE  Root(iface[j].domain, NetOf[b])'
  BY ZenonT(60) DEF Rooted
<1>3. CASE j = i
  <2>1. \A n : NewIface(n, "port", d, {}, "cni").name = n /\ NewIface(n, "port", d, {}, "cni").domain = d
    BY Zenon DEF NewIface
  <2>2. iface'[j].name = PortName[a] /\ iface'[j].domain = d
    BY <1>1, <1>3, <2>1, Zenon
  <2>3. b = a
    BY <2>2, PortNamesDistinct, Zenon
  <2> QED
    BY <1>2, <2>2, <2>3, CNIAssumption, ZenonT(60)
<1>4. CASE j # i
  BY <1>1, <1>2, <1>4, CNIAssumption, ZenonT(60) DEF Rooted
<1> QED
  BY <1>3, <1>4, Zenon

\* when an interface is deleted that is no bridge of a port,
LEMMA RootedDel ==
  ASSUME GroutTypeOK, PortsOK, Rooted, NEW i, NotADomain(i), DelIface(i)
  PROVE  Rooted'
<1>1. \A j \in Ids : iface'[j] = IF j = i THEN NoIface ELSE iface[j]
  BY ZenonT(60) DEF GroutTypeOK, DelIface
<1> SUFFICES ASSUME NEW j \in Ids, NEW a \in Attachments, iface'[j].name = PortName[a]
             PROVE  Root(iface[j].domain, NetOf[a])' /\ iface'[j] = iface[j]
  BY ZenonT(60) DEF Rooted
<1>2. iface'[j] = iface[j]
  <2>1. NoIface.name = None
    BY Zenon DEF NoIface
  <2>2. PortName[a] # None
    BY CNIAssumption, GroutAssumption, ZenonT(60)
  <2> QED
    BY <1>1, <2>1, <2>2, ZenonT(60)
<1>3. iface[j].domain # i /\ Root(iface[j].domain, NetOf[a])
  BY <1>2, PortFacts, Zenon DEF NotADomain, Rooted
<1> QED
  BY <1>1, <1>2, <1>3, Zenon DEF Root, IsBridge

\* and when addresses are added, or taken from such an interface.
LEMMA RootedSetAddrs ==
  ASSUME GroutTypeOK, PortsOK, Rooted, NEW i, NEW as, SetAddrs(i, as),
         NotADomain(i) \/ iface[i].addrs \subseteq as
  PROVE  Rooted'
<1>1. \A j \in Ids : /\ iface'[j].name = iface[j].name /\ iface'[j].type = iface[j].type
                     /\ iface'[j].domain = iface[j].domain
                     /\ j # i \/ iface[i].addrs \subseteq as => iface[j].addrs \subseteq iface'[j].addrs
  BY ZenonT(60) DEF GroutTypeOK, SetAddrs, NewIface
<1> SUFFICES ASSUME NEW j \in Ids, NEW a \in Attachments, iface'[j].name = PortName[a]
             PROVE  Root(iface[j].domain, NetOf[a])'
  BY Zenon DEF Rooted
<1>2. iface[j].domain = iface'[j].domain /\ Root(iface[j].domain, NetOf[a])
  BY <1>1, Zenon DEF Rooted
<1>3. iface[j].domain # i \/ iface[i].addrs \subseteq as
  BY <1>1, PortFacts, ZenonT(60) DEF NotADomain
<1> QED
  BY <1>1, <1>2, <1>3, Zenon DEF Root, IsBridge

-----------------------------------------------------------------------------
\* Bridges are the plugin's while the interface table stays,
LEMMA SameBridges ==
  ASSUME UNCHANGED iface
  PROVE  (BridgesOurs => BridgesOurs') /\ \A i : IsBridge(i) => IsBridge(i)'
BY ZenonT(60) DEF BridgesOurs, IsBridge

\* when the plugin creates, deletes
LEMMA NewBridges ==
  ASSUME GroutTypeOK, BridgesOurs, NEW i,
         (\E n : AddBridge(i, n)) \/ (\E n, d, v : AddPort(i, n, d, v)) \/ DelIface(i)
  PROVE  BridgesOurs'
<1>1. ASSUME NEW x, iface' = [iface EXCEPT ![i] = x], x.type = "bridge" => x.owner = "cni"
      PROVE  BridgesOurs'
  <2>1. \A j \in Ids : iface'[j] = IF j = i THEN x ELSE iface[j]
    BY <1>1, Zenon DEF GroutTypeOK
  <2> QED
    BY <1>1, <2>1, Zenon DEF BridgesOurs, IsBridge
<1>2. \A n, t, d, as : NewIface(n, t, d, as, "cni").owner = "cni"
  BY DEF NewIface
<1>3. NoIface.type # "bridge"
  BY DEF NoIface
<1>4. CASE \E n : AddBridge(i, n)
  BY <1>1, <1>2, <1>4, Zenon DEF AddBridge
<1>5. CASE \E n, d, v : AddPort(i, n, d, v)
  <2>1. PICK n, d : iface' = [iface EXCEPT ![i] = NewIface(n, "port", d, {}, "cni")]
    BY <1>5, Zenon DEF AddPort
  <2> QED
    BY <1>1, <1>2, <2>1, Zenon
<1>6. CASE DelIface(i)
  <2>1. iface' = [iface EXCEPT ![i] = NoIface]
    BY <1>6, Zenon DEF DelIface
  <2> QED
    BY <1>1, <1>3, <2>1, Zenon
<1> QED
  BY <1>4, <1>5, <1>6

\* or readdresses an interface.
LEMMA SetAddrsBridges ==
  ASSUME GroutTypeOK, NEW i, NEW as, SetAddrs(i, as)
  PROVE  (BridgesOurs => BridgesOurs') /\ \A j : IsBridge(j) => IsBridge(j)'
<1>1. \A j \in Ids : iface'[j].type = iface[j].type /\ iface'[j].owner = iface[j].owner
  BY ZenonT(60) DEF GroutTypeOK, SetAddrs, NewIface
<1> QED
  BY <1>1 DEF BridgesOurs, IsBridge

-----------------------------------------------------------------------------
\* A step takes neither the port called n nor its netdev or socket away.
SparesPort(n) ==
  /\ Named(n) # {} => Named(n)' # {}
  /\ link'[n] = link[n]
  /\ n \in socks => n \in socks'

\* Nor the reservation of a.
Spares(a) == SparesPort(PortName[a]) /\ (a \in ipam => a \in ipam')

\* What is spared stays done.
LEMMA SparedDone ==
  ASSUME NEW a \in Attachments, Done(a), Spares(a)
  PROVE  Done(a)'
BY DEF Done, Spares, SparesPort

\* Everything is spared while grout's state stays,
LEMMA SameSpares ==
  ASSUME UNCHANGED <<iface, link, socks>>, NEW n
  PROVE  SparesPort(n)
BY Zenon DEF SparesPort, Named

\* by the creation of a bridge,
LEMMA AddBridgeSpares ==
  ASSUME GroutTypeOK, PortsOK, NEW i \in Ids, NEW m, AddBridge(i, m), NEW n \in PortNames
  PROVE  SparesPort(n)
<1>1. \A j \in Named(n) : iface'[j] = iface[j]
  BY ZenonT(60) DEF Named, GroutTypeOK, PortsOK, AddBridge, CanAdd, Exists
<1> QED
  BY <1>1 DEF SparesPort, Named, AddBridge

\* or of another port,
LEMMA AddPortSpares ==
  ASSUME GroutTypeOK, PortsOK, NEW i \in Ids, NEW m, NEW d, NEW v, AddPort(i, m, d, v),
         NEW n \in PortNames, n # m
  PROVE  SparesPort(n)
<1>1. \A j \in Named(n) : iface'[j] = iface[j]
  BY DEF Named, GroutTypeOK, PortsOK, AddPort, CanAdd, Exists
<1>2. Named(n) # {} => Named(n)' # {}
  BY <1>1 DEF Named
<1>3. link'[n] = link[n]
  BY DEF AddPort, GroutTypeOK
<1>4. n \in socks => n \in socks'
  BY DEF AddPort
<1> QED
  BY <1>2, <1>3, <1>4 DEF SparesPort

\* by the delete of an interface of another name,
LEMMA DelSpares ==
  ASSUME GroutTypeOK, NEW i, DelIface(i), NEW n \in PortNames, n # iface[i].name
  PROVE  SparesPort(n)
<1>1. \A j \in Named(n) : iface'[j] = iface[j]
  BY DEF Named, GroutTypeOK, DelIface
<1>2. Named(n) # {} => Named(n)' # {}
  BY <1>1 DEF Named
<1>3. link'[n] = link[n]
  BY DEF DelIface, GroutTypeOK
<1>4. n \in socks => n \in socks'
  BY DEF DelIface
<1> QED
  BY <1>2, <1>3, <1>4 DEF SparesPort

\* and by changes of addresses.
LEMMA SetAddrsSpares ==
  ASSUME GroutTypeOK, NEW i, NEW as, SetAddrs(i, as), NEW n
  PROVE  SparesPort(n)
<1>1. \A j \in Ids : iface'[j].name = iface[j].name
  BY DEF GroutTypeOK, SetAddrs, NewIface
<1> QED
  BY <1>1, Zenon DEF SparesPort, Named, SetAddrs

\* A delete that may be refused.
LEMMA TryDelSpares ==
  ASSUME GroutTypeOK, NEW p, NEW i, TryDel(p, i), NEW n \in PortNames,
         conn[p] = "open" => n # iface[i].name
  PROVE  SparesPort(n)
BY DelSpares, SameSpares DEF TryDel, Served, Refused

\* A call that is not about to return has not claimed its attachment, and
\* nobody else has.
LEMMA NotMine ==
  ASSUME CoreInv, CallsApart, NEW p \in Procs, req[p].verb \in {"ADD", "DEL"},
         pc[p] \notin {"ret", "exit"}, NEW a \in Attachments, Claimed(a)
  PROVE  a # req[p].att /\ PortName[a] # MyName(p)
<1>1. req[p].att \in Attachments
  BY CallFacts, ZenonT(60)
<1>2. a # req[p].att
  BY <1>1, CNIAssumption, Zenon DEF Claimed, CallsApart
<1> QED
  BY <1>1, <1>2, PortNamesDistinct, ZenonT(60) DEF MyName

\* During a GC nothing is claimed but what is attached.
LEMMA ClaimedInGC ==
  ASSUME CallsApart, NEW p \in Procs, req[p].verb = "GC", NEW a \in Attachments, Claimed(a)
  PROVE  /\ rt[a] = "attached"
         /\ NetOf[a] = req[p].net => a \in req[p].valid
BY ZenonT(60) DEF Claimed, CallsApart

-----------------------------------------------------------------------------
\* The facts about the acting process that the lemmas below use.
LEMMA ActorFacts ==
  ASSUME IntactInv, NEW p \in Procs
  PROVE  /\ CoreInv /\ GroutTypeOK /\ PortsOK /\ Rooted /\ BridgesOurs /\ CallsApart /\ Live
         /\ Learned(p) /\ Progress(p) /\ Precise(p) /\ Reapable(p)
         /\ pc \in [Procs -> Labels] /\ err \in [Procs -> BOOLEAN]
         /\ br \in [Procs -> Ids \union {0}] /\ port \in [Procs -> Ids \union {0}]
         /\ gws \in [Procs -> SUBSET Addrs]
         /\ todo \in [Procs -> SUBSET (Ids \X PortNames)]
         /\ req[p].verb \in VerbsAt(pc[p])
BY DEF IntactInv, PortInv, CoreInv, TypeOK, CallOK

\* A handler does not change its request, nor what the runtime knows.
LEMMA HandlerKeeps ==
  ASSUME CoreInv, NEW p \in Procs, HandlerStep(p)
  PROVE  UNCHANGED <<req, rt, lost>>
BY HandlerMoves, Zenon DEF Moves, procVars, HandlerStep, HandleAdd, HandleDel,
  gcBridgeIfEmpty, HandleCheck, HandleGC, AddIpam, EnsureBridgeList, EnsureBridgeCreate,
  EnsureBridgeRelist, AddGateway, AddPodPort, moveLinkToNamespace, configurePodInterface,
  NetdevStep, cleanupAfterAddFailure, ipamDel, DelList, DelPort, DelSocket, BridgeGCList,
  BridgeGCFlush4, BridgeGCFlush6, BridgeGCDel, CheckList, CheckPodSide, GCList, GCReap,
  GCSocket, gcIPAM, hostVars

\* The handler steps that leave grout's interface table alone.
LooksOnly(p) ==
  \/ AddIpam(p) \/ EnsureBridgeList(p) \/ EnsureBridgeRelist(p) \/ moveLinkToNamespace(p)
  \/ configurePodInterface(p) \/ ipamDel(p) \/ DelList(p) \/ DelSocket(p) \/ BridgeGCList(p)
  \/ HandleCheck(p) \/ GCList(p) \/ GCSocket(p) \/ gcIPAM(p)

\* They list it, or work on the host.
LEMMA LooksOnlyKeeps == ASSUME NEW p, LooksOnly(p) PROVE UNCHANGED iface
BY ZenonT(60) DEF LooksOnly, AddIpam, EnsureBridgeList, EnsureBridgeRelist, moveLinkToNamespace,
  configurePodInterface, NetdevStep, ipamDel, DelList, DelSocket, removeVhostSocket, BridgeGCList,
  HandleCheck, CheckList, CheckPodSide, GCList, GCSocket, gcIPAM, Listed, Refused, groutVars

\* No handler step takes away anything that belongs to a claimed attachment.
LEMMA HandlerSpares ==
  ASSUME IntactInv, NEW p \in Procs, HandlerStep(p), NEW a \in Attachments, Claimed(a)
  PROVE  Spares(a)
<1>0. /\ CoreInv /\ GroutTypeOK /\ PortsOK /\ CallsApart
      /\ Learned(p) /\ Precise(p) /\ Reapable(p)
      /\ todo \in [Procs -> SUBSET (Ids \X PortNames)]
      /\ req[p].verb \in VerbsAt(pc[p]) /\ PortName[a] \in PortNames
  BY ActorFacts, CNIAssumption, ZenonT(60)
<1>m. req[p].verb \in {"ADD", "DEL"} /\ pc[p] \notin {"ret", "exit"} =>
        a # req[p].att /\ PortName[a] # MyName(p)
  BY <1>0, NotMine, ZenonT(60)
<1>g. req[p].verb = "GC" => rt[a] = "attached" /\ (NetOf[a] = req[p].net => a \in req[p].valid)
  BY <1>0, ClaimedInGC, ZenonT(60)
<1> USE <1>0 DEF Spares
<1>1. CASE AddIpam(p)
  BY <1>1, SameSpares, Zenon DEF AddIpam, groutVars
<1>2. CASE EnsureBridgeList(p)
  BY <1>2, SameSpares, Zenon DEF EnsureBridgeList, Listed, Refused, hostVars
<1>3. CASE EnsureBridgeRelist(p)
  BY <1>3, SameSpares, Zenon DEF EnsureBridgeRelist, Listed, Refused, hostVars
<1>4. CASE EnsureBridgeCreate(p)
  BY <1>4, SameSpares, AddBridgeSpares, Zenon DEF EnsureBridgeCreate, Refused, hostVars
<1>5. CASE AddGateway(p)
  BY <1>5, SameSpares, SetAddrsSpares, Zenon DEF AddGateway, Refused, hostVars
<1>6. CASE AddPodPort(p)
  <2>1. PortName[a] # MyName(p)
    BY <1>6, <1>m, ZenonT(60) DEF AddPodPort, VerbsAt
  <2> QED
    BY <1>6, <2>1, SameSpares, AddPortSpares, ZenonT(60) DEF AddPodPort, Refused, hostVars
<1>7. CASE moveLinkToNamespace(p) \/ configurePodInterface(p)
  <2>1. PortName[a] # MyName(p)
    BY <1>7, <1>m, ZenonT(60) DEF moveLinkToNamespace, configurePodInterface, VerbsAt
  <2>2. link'[PortName[a]] = link[PortName[a]] /\ UNCHANGED <<iface, socks, ipam>>
    BY <1>7, <2>1, Zenon DEF moveLinkToNamespace, configurePodInterface, NetdevStep, hostVars, GroutTypeOK
  <2> QED
    BY <2>2, Zenon DEF SparesPort, Named
<1>8. CASE cleanupAfterAddFailure(p)
  <2>1. conn[p] = "open" => PortName[a] # iface[port[p]].name
    BY <1>8, <1>m, Zenon DEF cleanupAfterAddFailure, VerbsAt, Precise
  <2> QED
    BY <1>8, <2>1, TryDelSpares, Zenon DEF cleanupAfterAddFailure, hostVars
<1>9. CASE ipamDel(p)
  <2>1. a # req[p].att
    BY <1>9, <1>m DEF ipamDel, VerbsAt
  <2> QED
    BY <1>9, <2>1, SameSpares, ZenonT(60) DEF ipamDel, groutVars
<1>10. CASE DelList(p)
  BY <1>10, SameSpares, Zenon DEF DelList, Listed, Refused, hostVars
<1>11. CASE DelPort(p)
  <2>1. conn[p] = "open" => PortName[a] # iface[port[p]].name
    BY <1>11, <1>m, ZenonT(60) DEF DelPort, VerbsAt, Precise
  <2> QED
    BY <1>11, <2>1, TryDelSpares, Zenon DEF DelPort, hostVars
<1>12. CASE DelSocket(p)
  <2>1. PortName[a] # MyName(p)
    BY <1>12, <1>m, Zenon DEF DelSocket, VerbsAt
  <2> QED
    BY <1>12, <2>1, ZenonT(60) DEF DelSocket, removeVhostSocket, hostVars, SparesPort, Named
<1>13. CASE BridgeGCList(p)
  BY <1>13, SameSpares, Zenon DEF BridgeGCList, Listed, Refused, hostVars
<1>14. CASE BridgeGCFlush4(p) \/ BridgeGCFlush6(p)
  BY <1>14, SameSpares, SetAddrsSpares, Zenon DEF BridgeGCFlush4, BridgeGCFlush6, Refused, hostVars
<1>15. CASE BridgeGCDel(p)
  <2>1. conn[p] = "open" => PortName[a] # iface[br[p]].name
    BY <1>15, Zenon DEF BridgeGCDel, Precise, IsBridge, PortsOK
  <2> QED
    BY <1>15, <2>1, TryDelSpares, ZenonT(60) DEF BridgeGCDel, hostVars
<1>16. CASE CheckList(p)
  BY <1>16, SameSpares, ZenonT(60) DEF CheckList, Listed, Refused, hostVars
<1>17. CASE CheckPodSide(p)
  BY <1>17, SameSpares, Zenon DEF CheckPodSide, groutVars, hostVars
<1>18. CASE GCList(p)
  BY <1>18, SameSpares, Zenon DEF GCList, Listed, Refused, hostVars
<1>19. CASE GCReap(p)
  <2>1. PICK t \in todo[p] :
          (Served(p) /\ DelIface(t[1])) \/ UNCHANGED <<iface, link, socks>>
    BY <1>19, Zenon DEF GCReap, Refused
  <2>2. PortName[a] # t[2] /\ (conn[p] = "open" => iface[t[1]].name = t[2])
    BY <1>19, <1>g, Zenon DEF GCReap, Reapable, Precise
  <2> QED
    BY <1>19, <2>1, <2>2, DelSpares, SameSpares, Zenon DEF GCReap, Served, hostVars
<1>20. CASE GCSocket(p)
  <2>1. PICK t \in todo[p] : removeVhostSocket(t[2])
    BY <1>20, ZenonT(60) DEF GCSocket
  <2>2. PortName[a] # t[2]
    BY <1>20, <1>g, <2>1, ZenonT(60) DEF GCSocket, Reapable
  <2> QED
    BY <1>20, <2>1, <2>2, Zenon DEF GCSocket, removeVhostSocket, hostVars, SparesPort, Named
<1>21. CASE gcIPAM(p)
  BY <1>21, <1>g, SameSpares, Zenon DEF gcIPAM, groutVars, VerbsAt
<1> QED
  BY <1>1, <1>2, <1>3, <1>4, <1>5, <1>6, <1>7, <1>8, <1>9, <1>10, <1>11, <1>12, <1>13, <1>14,
    <1>15, <1>16, <1>17, <1>18, <1>19, <1>20, <1>21, Zenon
  DEF HandlerStep, HandleAdd, HandleDel, gcBridgeIfEmpty, HandleCheck, HandleGC

\* Every handler step leaves the ports of the plugin at their bridges.
LEMMA HandlerRooted ==
  ASSUME IntactInv, NEW p \in Procs, HandlerStep(p)
  PROVE  Rooted'
<1>0. /\ CoreInv /\ GroutTypeOK /\ PortsOK /\ Rooted
      /\ Learned(p) /\ Progress(p) /\ req[p].verb \in VerbsAt(pc[p])
      /\ todo \in [Procs -> SUBSET (Ids \X PortNames)]
  BY ActorFacts, ZenonT(60)
<1>z. pc[p] = "a_mkbr" => Bridge[req[p].net] \in Names \ PortNames
  BY <1>0, CallFacts, CNIAssumption, Zenon DEF VerbsAt
<1> USE <1>0
<1>1. CASE UNCHANGED iface
  BY <1>1, RootedSame, ZenonT(60)
<1>2. CASE EnsureBridgeCreate(p)
  BY <1>2, <1>z, RootedSame, RootedAddBridge, Zenon DEF EnsureBridgeCreate, Refused
<1>3. CASE AddGateway(p)
  <2>1. CASE \E g : SetAddrs(br[p], iface[br[p]].addrs \union {g})
    BY <2>1, RootedSetAddrs, Zenon
  <2> QED
    BY <1>1, <1>3, <2>1, ZenonT(60) DEF AddGateway, Refused
<1>4. CASE AddPodPort(p)
  <2>1. ASSUME NEW i \in Ids, Served(p), AddPort(i, MyName(p), br[p], Virtio(p))
        PROVE  Rooted'
    <3>1. req[p].att \in Attachments /\ req[p].net = NetOf[req[p].att]
      BY <1>4, CallFacts, Zenon DEF AddPodPort, VerbsAt
    <3>2. br[p] \in Ids /\ IsBridge(br[p])
      BY <1>4, <2>1, GroutAssumption, Zenon DEF AddPodPort, Progress, AddPort, CanAdd
    <3>3. Root(br[p], req[p].net)
      BY <1>4, <2>1, <3>2, Zenon DEF AddPodPort, Progress, Served, Root
    <3> QED
      BY <2>1, <3>1, <3>2, <3>3, RootedAddPort, ZenonT(60) DEF MyName
  <2> QED
    BY <1>1, <1>4, <2>1, ZenonT(60) DEF AddPodPort, Refused
<1>5. CASE cleanupAfterAddFailure(p) \/ DelPort(p)
  <2>1. conn[p] = "open" => NotADomain(port[p])
    BY <1>5, PortIsNoDomain, Zenon DEF cleanupAfterAddFailure, DelPort, Learned
  <2> QED
    BY <1>1, <1>5, <2>1, RootedDel, Zenon DEF cleanupAfterAddFailure, DelPort, TryDel, Served, Refused
<1>6. CASE BridgeGCFlush4(p) \/ BridgeGCFlush6(p)
  <2>1. conn[p] = "open" => NotADomain(br[p])
    BY <1>6, Zenon DEF BridgeGCFlush4, BridgeGCFlush6, Learned
  <2> QED
    BY <1>1, <1>6, <2>1, RootedSetAddrs, Zenon DEF BridgeGCFlush4, BridgeGCFlush6, Served, Refused
<1>7. CASE BridgeGCDel(p)
  <2>1. conn[p] = "open" => NotADomain(br[p])
    BY <1>7, ZenonT(60) DEF BridgeGCDel, Learned
  <2> QED
    BY <1>1, <1>7, <2>1, RootedDel, Zenon DEF BridgeGCDel, TryDel, Served, Refused
<1>8. CASE GCReap(p)
  <2>1. PICK t \in todo[p] : (Served(p) /\ DelIface(t[1])) \/ UNCHANGED iface
    BY <1>8, Zenon DEF GCReap, Refused
  <2>2. conn[p] = "open" => t[1] \in Ids /\ iface[t[1]].name \in PortNames
    BY <1>8, StaleIds, ZenonT(60) DEF GCReap, Learned
  <2>3. conn[p] = "open" => NotADomain(t[1])
    BY <2>2, PortIsNoDomain, Zenon
  <2> QED
    BY <1>1, <2>1, <2>3, RootedDel DEF Served
<1>9. CASE LooksOnly(p)
  BY <1>1, <1>9, LooksOnlyKeeps
<1> QED
  BY <1>2, <1>3, <1>4, <1>5, <1>6, <1>7, <1>8, <1>9, Zenon
  DEF LooksOnly, HandlerStep, HandleAdd, HandleDel, gcBridgeIfEmpty, HandleGC

\* No handler step makes a bridge of somebody else.
LEMMA HandlerBridges ==
  ASSUME IntactInv, NEW p \in Procs, HandlerStep(p)
  PROVE  BridgesOurs'
<1>0. GroutTypeOK /\ BridgesOurs
  BY ActorFacts
<1>1. CASE UNCHANGED iface
  BY <1>0, <1>1, SameBridges
<1>2. CASE EnsureBridgeCreate(p)
  BY <1>0, <1>1, <1>2, NewBridges, Zenon DEF EnsureBridgeCreate, Refused
<1>3. CASE AddGateway(p) \/ BridgeGCFlush4(p) \/ BridgeGCFlush6(p)
  BY <1>0, <1>1, <1>3, SetAddrsBridges, Zenon DEF AddGateway, BridgeGCFlush4, BridgeGCFlush6, Refused
<1>4. CASE AddPodPort(p)
  BY <1>0, <1>1, <1>4, NewBridges, Zenon DEF AddPodPort, Refused
<1>5. CASE cleanupAfterAddFailure(p) \/ DelPort(p) \/ BridgeGCDel(p) \/ GCReap(p)
  BY <1>0, <1>1, <1>5, NewBridges, Zenon
  DEF cleanupAfterAddFailure, DelPort, BridgeGCDel, GCReap, TryDel, Refused
<1>6. CASE LooksOnly(p)
  BY <1>1, <1>6, LooksOnlyKeeps, Zenon
<1> QED
  BY <1>2, <1>3, <1>4, <1>5, <1>6, Zenon
  DEF LooksOnly, HandlerStep, HandleAdd, HandleDel, gcBridgeIfEmpty, HandleGC

\* A process that is elsewhere has nothing to show.
LEMMA NoProgress ==
  ASSUME NEW p,
         \/ pc'[p] \notin {"a_list", "a_mkbr", "a_relist", "a_addr", "a_port", "a_move", "a_conf",
                          "ipamdel", "a_rollback"}
         \/ pc'[p] \in {"ipamdel", "a_rollback"} /\ (err'[p] \/ req'[p].verb # "ADD")
  PROVE  Progress(p)'
BY Zenon DEF Progress

\* Nor has it anything to delete by.
LEMMA NothingPrecise ==
  ASSUME NEW p,
         pc'[p] \notin {"a_move", "a_conf", "a_rollback", "d_del", "b_flush4", "b_flush6", "b_del",
                       "g_reap", "g_sock"}
  PROVE  Precise(p)'
BY ZenonT(60) DEF Precise

\* ensureBridge hands a bridge of the right name, whose missing gateways are
\* still to be added, to the rest of HandleAdd.
LEMMA BridgeReadyProgress ==
  ASSUME NEW p \in Procs, pc \in [Procs -> Labels], br \in [Procs -> Ids \union {0}],
         NEW b \in Ids, BridgeReady(p, b), iface'[b].name = Bridge[req[p].net],
         gws[p] = Gateways[req[p].net], req[p].att \in ipam, UNCHANGED <<gws, ipam, req>>
  PROVE  Progress(p)'
<1>1. /\ br'[p] = b /\ gws'[p] = Gateways[req'[p].net] /\ req'[p].att \in ipam'
      /\ iface'[b].name = Bridge[req'[p].net]
      /\ pc'[p] = IF gws[p] = {} THEN "a_port" ELSE "a_addr"
  BY Zenon DEF BridgeReady, AfterGateway, Goto
<1> QED
  BY <1>1, Zenon DEF Progress

\* Every handler step achieves what the next label promises.
LEMMA HandlerProgress ==
  ASSUME IntactInv, NEW p \in Procs, HandlerStep(p)
  PROVE  Progress(p)'
<1>0. /\ CoreInv /\ GroutTypeOK /\ Progress(p) /\ req[p].verb \in VerbsAt(pc[p])
      /\ pc \in [Procs -> Labels] /\ err \in [Procs -> BOOLEAN]
      /\ br \in [Procs -> Ids \union {0}] /\ gws \in [Procs -> SUBSET Addrs]
  BY ActorFacts, ZenonT(60)
<1>f. ASSUME Fail(p, "ipamdel") \/ Fail(p, "a_rollback") \/ Fail(p, "ret") PROVE Progress(p)'
  BY <1>0, <1>f, NoProgress, Zenon DEF Fail, Goto
<1> USE <1>0
<1>1. CASE AddIpam(p)
  <2>1. CASE ipam' = ipam \union {req[p].att} /\ gws' = [gws EXCEPT ![p] = Gateways[req[p].net]]
             /\ Goto(p, "a_list")
    BY <1>1, <2>1, Zenon DEF AddIpam, Goto, procVars, Progress
  <2> QED
    BY <1>1, <1>f, <2>1, Zenon DEF AddIpam
<1>2. CASE EnsureBridgeList(p)
  <2>0. /\ gws[p] = Gateways[req[p].net] /\ req[p].att \in ipam /\ UNCHANGED <<gws, ipam, req>>
    BY <1>2, Zenon DEF EnsureBridgeList, Progress, hostVars, procVars
  <2>1. CASE Listed(p) /\ \E b \in findBridgeID(Bridge[req[p].net]) : BridgeReady(p, b)
    BY <2>0, <2>1, BridgeReadyProgress, Zenon DEF Listed, findBridgeID, Named
  <2>2. CASE Goto(p, "a_mkbr")
    BY <2>0, <2>2, Zenon DEF Goto, Progress
  <2> QED
    BY <1>2, <1>f, <2>1, <2>2, Zenon DEF EnsureBridgeList
<1>3. CASE EnsureBridgeCreate(p)
  <2>0. /\ gws[p] = Gateways[req[p].net] /\ req[p].att \in ipam /\ UNCHANGED <<gws, ipam, req>>
    BY <1>3, Zenon DEF EnsureBridgeCreate, Progress, hostVars, procVars
  <2>1. ASSUME NEW i \in Ids, AddBridge(i, Bridge[req[p].net]), BridgeReady(p, i)
        PROVE  Progress(p)'
    <3>1. iface'[i].name = Bridge[req[p].net]
      BY <2>1, Zenon DEF AddBridge, NewIface, GroutTypeOK
    <3> QED
      BY <2>0, <2>1, <3>1, BridgeReadyProgress, Zenon
  <2>2. CASE Goto(p, "a_relist")
    BY <2>0, <2>2, Zenon DEF Goto, Progress
  <2> QED
    BY <1>3, <2>1, <2>2, Zenon DEF EnsureBridgeCreate
<1>4. CASE EnsureBridgeRelist(p)
  <2>0. /\ gws[p] = Gateways[req[p].net] /\ req[p].att \in ipam /\ UNCHANGED <<gws, ipam, req>>
    BY <1>4, Zenon DEF EnsureBridgeRelist, Progress, hostVars, procVars
  <2>1. CASE Listed(p) /\ \E b \in findByName(Bridge[req[p].net]) : BridgeReady(p, b)
    BY <2>0, <2>1, BridgeReadyProgress, Zenon DEF Listed, findByName, Named
  <2> QED
    BY <1>4, <1>f, <2>1, Zenon DEF EnsureBridgeRelist
<1>5. CASE AddGateway(p)
  <2>1. ASSUME NEW g \in gws[p], Served(p), SetAddrs(br[p], iface[br[p]].addrs \union {g}),
               gws' = [gws EXCEPT ![p] = gws[p] \ {g}], Goto(p, AfterGateway(gws[p] \ {g}))
        PROVE  Progress(p)'
    <3>1. /\ br[p] \in Ids /\ req[p].att \in ipam /\ UNCHANGED <<br, ipam, req, conn>>
          /\ IsBridge(br[p]) => /\ iface[br[p]].name = Bridge[req[p].net]
                                /\ Gateways[req[p].net] \subseteq iface[br[p]].addrs \union gws[p]
      BY <1>5, <2>1, Zenon DEF AddGateway, Progress, Served, hostVars, procVars
    <3>2. /\ iface'[br[p]].name = iface[br[p]].name /\ iface'[br[p]].type = iface[br[p]].type
          /\ iface'[br[p]].addrs = iface[br[p]].addrs \union {g}
      BY <2>1, <3>1, ZenonT(60) DEF SetAddrs, NewIface, GroutTypeOK
    <3>3. gws'[p] = gws[p] \ {g} /\ pc'[p] = IF gws[p] \ {g} = {} THEN "a_port" ELSE "a_addr"
      BY <2>1, Zenon DEF Goto, AfterGateway
    <3> QED
      BY <3>1, <3>2, <3>3, Zenon DEF Progress, IsBridge
  <2> QED
    BY <1>5, <1>f, <2>1, ZenonT(60) DEF AddGateway
<1>6. CASE AddPodPort(p)
  <2>0. req[p].att \in ipam /\ UNCHANGED <<ipam, req>> /\ MyName(p) \in PortNames
    BY <1>6, CallFacts, Zenon DEF AddPodPort, Progress, hostVars, procVars, VerbsAt
  <2>1. ASSUME NEW i \in Ids, AddPort(i, MyName(p), br[p], Virtio(p)),
               Goto(p, IF Virtio(p) \/ req[p].att \in NoNetns THEN "ret" ELSE "a_move")
        PROVE  Progress(p)'
    <3>1. iface'[i].name = MyName(p) /\ (~Virtio(p) => link'[MyName(p)] = "host")
      BY <2>0, <2>1, Zenon DEF AddPort, NewIface, GroutTypeOK
    <3>2. CASE Virtio(p) \/ req[p].att \in NoNetns
      BY <2>1, <3>2, NoProgress, ZenonT(60) DEF Goto
    <3>3. CASE ~Virtio(p) /\ req[p].att \notin NoNetns
      BY <2>0, <2>1, <3>1, <3>3, Zenon DEF Goto, Progress, Named, MyName, Virtio
    <3> QED
      BY <3>2, <3>3
  <2> QED
    BY <1>6, <1>f, <2>1, Zenon DEF AddPodPort
<1>7. CASE moveLinkToNamespace(p)
  <2>0. MyName(p) \in PortNames
    BY <1>7, CallFacts, Zenon DEF moveLinkToNamespace, VerbsAt
  <2>1. CASE Goto(p, "a_conf") /\ link' = [link EXCEPT ![MyName(p)] = "pod"]
    BY <1>7, <2>0, <2>1, ZenonT(60) DEF moveLinkToNamespace, NetdevStep, Goto, Progress, hostVars, procVars,
      MyName, Virtio, Named, GroutTypeOK
  <2> QED
    BY <1>7, <1>f, <2>1, ZenonT(60) DEF moveLinkToNamespace, NetdevStep
<1>8. CASE configurePodInterface(p)
  BY <1>8, <1>f, NoProgress, Zenon DEF configurePodInterface, NetdevStep, Goto
<1>9. CASE cleanupAfterAddFailure(p)
  <2>1. err[p] /\ UNCHANGED err
    BY <1>9, Zenon DEF cleanupAfterAddFailure, Progress, VerbsAt
  <2> QED
    BY <1>9, <2>1, NoProgress, Zenon DEF cleanupAfterAddFailure, Goto
<1>10. CASE ipamDel(p)
  BY <1>10, NoProgress, ZenonT(60) DEF ipamDel, Goto
<1>11. CASE ~HandleAdd(p)
  <2>1. UNCHANGED req /\ req[p].verb # "ADD"
    BY <1>11, Zenon DEF HandlerStep, HandleDel, gcBridgeIfEmpty, HandleCheck, HandleGC, DelList,
      DelPort, DelSocket, BridgeGCList, BridgeGCFlush4, BridgeGCFlush6, BridgeGCDel, CheckList,
      CheckPodSide, GCList, GCReap, GCSocket, gcIPAM, procVars, VerbsAt
  <2>2. req[p].verb \in VerbsAt(pc'[p])
    BY HandlerMoves DEF Moves
  <2> QED
    BY <2>1, <2>2, NoProgress DEF VerbsAt
<1> QED
  BY <1>1, <1>2, <1>3, <1>4, <1>5, <1>6, <1>7, <1>8, <1>9, <1>10, <1>11, Zenon DEF HandleAdd

\* What a handler deletes by next still has the name it went by.
LEMMA HandlerPrecise ==
  ASSUME IntactInv, NEW p \in Procs, HandlerStep(p)
  PROVE  Precise(p)'
<1>0. /\ CoreInv /\ GroutTypeOK /\ PortsOK /\ Learned(p) /\ Precise(p)
      /\ req[p].verb \in VerbsAt(pc[p])
      /\ pc \in [Procs -> Labels] /\ port \in [Procs -> Ids \union {0}]
      /\ br \in [Procs -> Ids \union {0}]
      /\ todo \in [Procs -> SUBSET (Ids \X PortNames)]
  BY ActorFacts
<1>m. Moves(p)
  BY <1>0, HandlerMoves, ZenonT(60)
<1> USE <1>0 DEF Goto, Fail
<1>1. CASE AddIpam(p) \/ EnsureBridgeList(p) \/ EnsureBridgeCreate(p) \/ EnsureBridgeRelist(p)
           \/ AddGateway(p)
  <2>1. pc'[p] \in {"a_list", "a_mkbr", "a_relist", "a_addr", "a_port", "ipamdel", "ret"}
    BY <1>1, Zenon DEF AddIpam, EnsureBridgeList, EnsureBridgeCreate, EnsureBridgeRelist, AddGateway,
      BridgeReady, AfterGateway
  <2> QED
    BY <2>1, NothingPrecise
<1>2. CASE AddPodPort(p)
  <2>1. ASSUME NEW i \in Ids, AddPort(i, MyName(p), br[p], Virtio(p)),
               port' = [port EXCEPT ![p] = i], pc'[p] \in {"ret", "a_move"}
        PROVE  Precise(p)'
    <3>1. iface'[i].name = MyName(p) /\ port'[p] = i /\ UNCHANGED req
      BY <1>2, <2>1, Zenon DEF AddPodPort, AddPort, NewIface, GroutTypeOK, procVars
    <3> QED
      BY <2>1, <3>1, Zenon DEF Precise, MyName
  <2>2. CASE pc'[p] = "ipamdel"
    BY <2>2, NothingPrecise
  <2> QED
    BY <1>2, <2>1, <2>2, Zenon DEF AddPodPort
<1>3. CASE moveLinkToNamespace(p) \/ configurePodInterface(p)
  BY <1>3, Zenon DEF moveLinkToNamespace, configurePodInterface, NetdevStep, procVars, locals, Precise,
    MyName
<1>4. CASE cleanupAfterAddFailure(p) \/ ipamDel(p) \/ DelPort(p) \/ DelSocket(p) \/ HandleCheck(p)
           \/ gcIPAM(p) \/ BridgeGCDel(p)
  <2>1. pc'[p] \in {"ipamdel", "ret", "d_sock", "b_list", "c_pod", "g_ipam"}
    BY <1>4, ZenonT(60) DEF cleanupAfterAddFailure, ipamDel, DelPort, DelSocket, HandleCheck, CheckList,
      CheckPodSide, gcIPAM, BridgeGCDel, AfterBridgeGC
  <2> QED
    BY <2>1, NothingPrecise
<1>5. CASE DelList(p)
  BY <1>5, Zenon DEF DelList, Listed, Refused, Precise, findByName, Named, procVars, MyName
<1>6. CASE BridgeGCList(p)
  <2>1. CASE UNCHANGED iface /\ BridgeEmpty(br[p]) /\ pc'[p] = "b_flush4"
    BY <1>6, <2>1, ZenonT(60) DEF BridgeGCList, BridgeEmpty, IsBridge, Precise, locals
  <2>2. CASE pc'[p] \in {"ipamdel", "g_ipam"}
    BY <2>2, NothingPrecise
  <2> QED
    BY <1>6, <2>1, <2>2, Zenon DEF BridgeGCList, AfterBridgeGC, Listed
<1>7. CASE BridgeGCFlush4(p) \/ BridgeGCFlush6(p)
  <2>1. \A i : IsBridge(i) => IsBridge(i)'
    BY <1>7, SetAddrsBridges, SameBridges, Zenon DEF BridgeGCFlush4, BridgeGCFlush6, Refused
  <2>2. UNCHANGED <<br, conn>> /\ pc[p] \in {"b_flush4", "b_flush6"}
        /\ pc'[p] \in {"b_flush6", "b_del"}
    BY <1>7, Zenon DEF BridgeGCFlush4, BridgeGCFlush6, locals, procVars
  <2> QED
    BY <2>1, <2>2, Zenon DEF Precise
<1>8. CASE GCList(p)
  <2>1. ASSUME NEW b, todo' = [todo EXCEPT ![p] = StalePorts(b, req[p].valid)], UNCHANGED iface,
               pc'[p] \in {"g_reap", "g_ipam"}
        PROVE  Precise(p)'
    BY <2>1, Zenon DEF Precise, StalePorts
  <2>2. CASE pc'[p] \in {"g_ipam", "ret"}
    BY <2>2, NothingPrecise, ZenonT(60)
  <2> QED
    BY <1>8, <2>1, <2>2, ZenonT(60) DEF GCList, AfterReap, Listed
<1>9. CASE GCReap(p)
  <2>1. PICK t \in todo[p] :
          \/ /\ Served(p) /\ DelIface(t[1])
             /\ port' = [port EXCEPT ![p] = t[1]]
             /\ pc'[p] = "g_sock"
             /\ UNCHANGED todo
          \/ /\ UNCHANGED <<iface, port>>
             /\ todo' = [todo EXCEPT ![p] = todo[p] \ {t}]
             /\ pc'[p] \in {"g_reap", "b_list", "g_ipam"}
    BY <1>9, Zenon DEF GCReap, Refused, AfterReap
  <2>0. pc[p] = "g_reap" /\ UNCHANGED conn
    BY <1>9, Zenon DEF GCReap, procVars
  <2>2. CASE Served(p) /\ DelIface(t[1]) /\ UNCHANGED todo /\ pc'[p] = "g_sock"
    <3>1. \A j \in Ids : j # t[1] => iface'[j] = iface[j]
      BY <2>2, Zenon DEF DelIface, GroutTypeOK
    <3>2. port'[p] = t[1]
      BY <2>1, <2>2, Zenon DEF Served
    <3>3. conn[p] = "open" /\ \A u \in todo[p] : u[1] \in Ids
      BY <2>2, StaleIds, Zenon DEF Served
    <3> QED
      BY <2>0, <2>2, <3>1, <3>2, <3>3, ZenonT(60) DEF Precise
  <2>3. CASE UNCHANGED iface /\ todo' = [todo EXCEPT ![p] = todo[p] \ {t}]
             /\ pc'[p] \in {"g_reap", "b_list", "g_ipam"}
    BY <2>0, <2>3, ZenonT(60) DEF Precise
  <2> QED
    BY <2>1, <2>2, <2>3, Zenon
<1>10. CASE GCSocket(p)
  <2>1. PICK t \in todo[p] :
          /\ t[1] = port[p]
          /\ UNCHANGED <<iface, conn>>
          /\ todo' = [todo EXCEPT ![p] = todo[p] \ {t}]
          /\ pc'[p] \in {"g_reap", "b_list"}
    BY <1>10, Zenon DEF GCSocket, removeVhostSocket, AfterReap, procVars
  <2>2. /\ pc[p] = "g_sock" /\ \A u \in todo[p] : u[1] = port[p] => u = t
    BY <1>10, <2>1, ZenonT(60) DEF GCSocket, Learned
  <2>3. todo'[p] = todo[p] \ {t}
    BY <2>1, Zenon
  <2> QED
    BY <2>1, <2>2, <2>3, Zenon DEF Precise
<1> QED
  BY <1>1, <1>2, <1>3, <1>4, <1>5, <1>6, <1>7, <1>8, <1>9, <1>10, Zenon
  DEF HandlerStep, HandleAdd, HandleDel, gcBridgeIfEmpty, HandleGC

\* GC puts only ports of dead attachments of its network on its list.
LEMMA HandlerReapable ==
  ASSUME IntactInv, NEW p \in Procs, HandlerStep(p), NEW q \in Procs
  PROVE  Reapable(q)'
<1>0. /\ CoreInv /\ GroutTypeOK /\ Rooted /\ CallsApart /\ Reapable(q)
      /\ req[p].verb \in VerbsAt(pc[p])
      /\ todo \in [Procs -> SUBSET (Ids \X PortNames)]
  BY ActorFacts
<1>1. UNCHANGED <<req, rt>>
  BY <1>0, HandlerKeeps, ZenonT(60)
<1>2. CASE todo'[q] \subseteq todo[q]
  BY <1>0, <1>1, <1>2, Zenon DEF Reapable
<1>3. CASE GCList(p)
  <2>1. CASE UNCHANGED todo \/ q # p
    BY <1>0, <1>2, <1>3, <2>1, Zenon DEF GCList
  <2>2. ASSUME NEW b \in findBridgeID(Bridge[req[p].net]),
               todo' = [todo EXCEPT ![p] = StalePorts(b, req[p].valid)], q = p
        PROVE  Reapable(q)'
    <3>1. req[p].verb = "GC" /\ req[p].net \in Networks
      BY <1>0, <1>3, CallFacts, Zenon DEF GCList, VerbsAt
    <3>2. ASSUME NEW t \in StalePorts(b, req[p].valid), NEW a \in Attachments, PortName[a] = t[2]
          PROVE  NetOf[a] = req[p].net /\ rt[a] # "attached"
      <4>1. t[1] \in Ids /\ iface[t[1]].domain = b /\ iface[t[1]].name = PortName[a]
            /\ a \notin req[p].valid
        BY <3>2, Zenon DEF StalePorts
      <4>2. Bridge[NetOf[a]] = Bridge[req[p].net]
        BY <1>0, <4>1, Zenon DEF Rooted, Root, findBridgeID, Named
      <4>3. NetOf[a] = req[p].net
        BY <3>1, <4>2, CNIAssumption, Zenon DEF IntactInv, OwnBridges, BridgesApart
      <4> QED
        BY <1>0, <3>1, <4>1, <4>3, Zenon DEF CallsApart
    <3>3. todo'[q] = StalePorts(b, req[p].valid)
      BY <1>0, <2>2, ZenonT(60)
    <3> QED
      BY <1>1, <2>2, <3>1, <3>2, <3>3, ZenonT(60) DEF Reapable
  <2> QED
    BY <1>3, <2>1, <2>2, Zenon DEF GCList
<1>4. CASE GCReap(p) \/ GCSocket(p)
  <2>1. UNCHANGED todo \/ \E t : todo' = [todo EXCEPT ![p] = todo[p] \ {t}]
    BY <1>4, Zenon DEF GCReap, GCSocket
  <2>2. todo'[q] \subseteq todo[q]
    BY <1>0, <2>1, Zenon
  <2> QED
    BY <1>2, <2>2, Zenon
<1>5. CASE UNCHANGED todo
  BY <1>2, <1>5
<1> QED
  BY <1>3, <1>4, <1>5, ZenonT(60) DEF HandlerStep, HandleAdd, HandleDel,
    gcBridgeIfEmpty, HandleCheck, HandleGC, AddIpam, EnsureBridgeList, EnsureBridgeCreate,
    EnsureBridgeRelist, AddGateway, AddPodPort, moveLinkToNamespace, configurePodInterface,
    NetdevStep, cleanupAfterAddFailure, ipamDel, DelList, DelPort, DelSocket, BridgeGCList,
    BridgeGCFlush4, BridgeGCFlush6, BridgeGCDel, CheckList, CheckPodSide, gcIPAM, locals

-----------------------------------------------------------------------------
\* An ADD that is about to return success has set up its attachment.
LEMMA HandlerDone ==
  ASSUME IntactInv, NEW p \in Procs, HandlerStep(p), req[p].verb = "ADD",
         pc'[p] = "ret", ~err'[p], req[p].att \notin lost
  PROVE  Done(req[p].att)'
<1>0. /\ CoreInv /\ GroutTypeOK /\ Progress(p) /\ req[p].verb \in VerbsAt(pc[p])
      /\ pc \in [Procs -> Labels] /\ err \in [Procs -> BOOLEAN]
      /\ req[p].att \in Attachments /\ req[p].net = NetOf[req[p].att] /\ MyName(p) \in PortNames
      /\ UNCHANGED req
  BY ActorFacts, CallFacts, HandlerKeeps, ZenonT(60)
<1>f. ASSUME NEW l, Fail(p, l) PROVE FALSE
  BY <1>0, <1>f, Zenon DEF Fail
<1> USE <1>0
<1>1. CASE AddPodPort(p)
  <2>1. PICK i \in Ids : AddPort(i, MyName(p), br[p], Virtio(p))
    BY <1>1, <1>f, Zenon DEF AddPodPort
  <2>2. Virtio(p) \/ req[p].att \in NoNetns
    BY <1>1, <1>f, Zenon DEF AddPodPort, Goto
  <2>3. /\ iface'[i].name = MyName(p) /\ (~Virtio(p) => link'[MyName(p)] = "host")
        /\ Virtio(p) => MyName(p) \in socks'
    BY <2>1, Zenon DEF AddPort, NewIface, GroutTypeOK
  <2>4. req[p].att \in ipam'
    BY <1>1, Zenon DEF AddPodPort, Progress, hostVars
  <2> QED
    BY <2>2, <2>3, <2>4, Zenon DEF Done, Named, MyName, Virtio
<1>2. CASE configurePodInterface(p)
  <2>1. link' = [link EXCEPT ![MyName(p)] = "up"] /\ UNCHANGED <<iface, ipam>>
    BY <1>2, <1>f, Zenon DEF configurePodInterface, NetdevStep, hostVars
  <2>2. /\ ~Virtio(p) /\ req[p].att \notin NoNetns /\ Named(MyName(p)) # {}
    BY <1>2, ZenonT(60) DEF configurePodInterface, Progress
  <2>3. req[p].att \in ipam'
    BY <1>2, <2>1, Zenon DEF configurePodInterface, Progress
  <2>4. link'[MyName(p)] = "up" /\ Named(MyName(p))' # {}
    BY <2>1, <2>2, Zenon DEF GroutTypeOK, Named, MyName
  <2> QED
    BY <2>2, <2>3, <2>4, Zenon DEF Done, MyName, Virtio, Named
<1>3. CASE ipamDel(p)
  BY <1>3, Zenon DEF ipamDel, Progress
<1>4. CASE AddIpam(p) \/ EnsureBridgeList(p) \/ EnsureBridgeCreate(p) \/ EnsureBridgeRelist(p)
           \/ AddGateway(p) \/ moveLinkToNamespace(p) \/ cleanupAfterAddFailure(p)
  BY <1>4, <1>f, Zenon DEF AddIpam, EnsureBridgeList, EnsureBridgeCreate, EnsureBridgeRelist,
    AddGateway, moveLinkToNamespace, NetdevStep, cleanupAfterAddFailure, BridgeReady, AfterGateway,
    Goto
<1>5. CASE BridgeGCDel(p) \/ BridgeGCList(p) \/ BridgeGCFlush4(p) \/ BridgeGCFlush6(p)
           \/ HandleDel(p) \/ HandleCheck(p) \/ HandleGC(p)
  BY <1>5, Zenon DEF BridgeGCDel, BridgeGCList, BridgeGCFlush4, BridgeGCFlush6, HandleDel, DelList,
    DelPort, DelSocket, HandleCheck, CheckList, CheckPodSide, HandleGC, GCList, GCReap, GCSocket,
    gcIPAM, VerbsAt
<1> QED
  BY <1>1, <1>2, <1>3, <1>4, <1>5, Zenon DEF HandlerStep, HandleAdd, gcBridgeIfEmpty

\* So what is claimed has been done, and stays so.
LEMMA HandlerLive ==
  ASSUME IntactInv, NEW p \in Procs, HandlerStep(p)
  PROVE  Live'
<1>0. CoreInv /\ Live /\ pc \in [Procs -> Labels] /\ err \in [Procs -> BOOLEAN]
  BY ActorFacts
<1>k. UNCHANGED <<req, rt, lost>> /\ Moves(p)
  BY <1>0, HandlerKeeps, HandlerMoves
<1> SUFFICES ASSUME NEW a \in Attachments, Claimed(a)', a \notin lost PROVE Done(a)'
  BY <1>k DEF Live
<1>1. CASE Claimed(a)
  BY <1>0, <1>1, HandlerSpares, SparedDone DEF Live
<1>2. CASE ~Claimed(a)
  <2>1. PICK q \in Procs : /\ req[q].verb = "ADD" /\ req[q].att = a
                           /\ pc'[q] \in {"ret", "exit"} /\ ~err'[q]
    BY <1>k, <1>2, Zenon DEF Claimed
  <2>2. q = p
    <3> SUFFICES ASSUME q # p PROVE FALSE
      BY Zenon
    <3>1. pc'[q] = pc[q]
      BY <1>0, <1>k DEF Moves
    <3>2. err'[q] = err[q]
      BY <1>0, <1>k, Zenon DEF Moves
    <3> QED
      BY <1>2, <2>1, <3>1, <3>2 DEF Claimed
  <2>3. pc'[p] = "ret"
    BY <1>k, <2>1, <2>2 DEF Moves, Critical
  <2> QED
    BY <1>k, <2>1, <2>2, <2>3, HandlerDone, Zenon
<1> QED
  BY <1>1, <1>2

\* The handler steps keep the invariant.
LEMMA HandlerIntact ==
  ASSUME IntactInv, NEW p \in Procs, HandlerStep(p)
  PROVE  IntactInv'
<1>0. CoreInv /\ CallsApart /\ pc \in [Procs -> Labels] /\ PortInv /\ OwnBridges
  BY ActorFacts DEF IntactInv
<1>1. PortInv' /\ OwnBridges' /\ Rooted' /\ BridgesOurs' /\ Live'
  BY <1>0, HandlerPort, HandlerRooted, HandlerBridges, HandlerLive, ZenonT(60)
  DEF OwnBridges, BridgesApart, ForeignPortsOnly
<1>2. CallsApart'
  BY <1>0, HandlerKeeps DEF CallsApart
<1>3. \A q \in Procs : Reapable(q)'
  BY HandlerReapable
<1>4. Progress(p)' /\ Precise(p)'
  BY HandlerProgress, HandlerPrecise, ZenonT(60)
<1>5. ASSUME NEW q \in Procs, q # p PROVE Progress(q)' /\ Precise(q)'
  <2>1. pc'[q] \notin Critical
    BY <1>0, <1>5, HandlerMoves, ZenonT(60) DEF CoreInv, LockOwnership, Moves
  <2> QED
    BY <2>1, NoProgress, NothingPrecise DEF Critical
<1> QED
  BY <1>1, <1>2, <1>3, <1>4, <1>5 DEF IntactInv

-----------------------------------------------------------------------------
\* The steps of a call outside its handler.
CallStep(p) ==
  Dial(p) \/ Acquire(p) \/ LockFails(p) \/ Unlock(p) \/ Exit(p) \/ Kill(p) \/ Runtime(p)

\* They leave grout and the reservations alone, and the other processes.
LEMMA CallKeeps ==
  ASSUME CoreInv, NEW p \in Procs, CallStep(p)
  PROVE  /\ UNCHANGED <<groutVars, ipam>>
         /\ \A q \in Procs : q # p =>
              /\ conn'[q] = conn[q] /\ pc'[q] = pc[q] /\ port'[q] = port[q] /\ br'[q] = br[q]
              /\ todo'[q] = todo[q] /\ gws'[q] = gws[q] /\ err'[q] = err[q] /\ req'[q] = req[q]
<1>0. /\ pc \in [Procs -> Labels] /\ conn \in [Procs -> {"closed", "open", "dead"}]
      /\ br \in [Procs -> Ids \union {0}] /\ port \in [Procs -> Ids \union {0}]
      /\ todo \in [Procs -> SUBSET (Ids \X PortNames)] /\ gws \in [Procs -> SUBSET Addrs]
      /\ err \in [Procs -> BOOLEAN] /\ req \in [Procs -> Requests]
  BY DEF CoreInv, TypeOK
<1>1. UNCHANGED <<groutVars, ipam>>
  BY Zenon DEF CallStep, Dial, Acquire, LockFails, Unlock, Exit, Kill, Runtime, InvokeAdd,
    InvokeDel, InvokeCheck, InvokeGC, InvokeStatus, Invoke, hostVars
<1>2. ASSUME NEW q \in Procs, q # p
      PROVE  /\ conn'[q] = conn[q] /\ pc'[q] = pc[q] /\ port'[q] = port[q] /\ br'[q] = br[q]
             /\ todo'[q] = todo[q] /\ gws'[q] = gws[q] /\ err'[q] = err[q] /\ req'[q] = req[q]
  BY <1>0, <1>2, ZenonT(60) DEF CallStep, Dial, Acquire, LockFails, Unlock, Exit, Kill, Gone, Runtime,
    InvokeAdd, InvokeDel, InvokeCheck, InvokeGC, InvokeStatus, Invoke, Goto, Fail, locals, procVars
<1> QED
  BY <1>1, <1>2, ZenonT(60)

\* The runtime keeps its calls apart.
LEMMA CallApart ==
  ASSUME CoreInv, CallsApart, NEW p \in Procs, CallStep(p)
  PROVE  CallsApart'
<1>0. /\ CoreInv /\ CallsApart /\ req \in [Procs -> Requests]
      /\ rt \in [Attachments -> {"absent", "attached", "failed"}]
      /\ \A q \in Procs : req[q].verb \in {"ADD", "DEL"} => req[q].att \in Attachments
  BY CallFacts, Zenon DEF CoreInv, TypeOK
<1> USE <1>0
<1>1. CASE Dial(p) \/ Acquire(p) \/ LockFails(p) \/ Unlock(p)
  <2>1. UNCHANGED <<req, rt>>
    BY <1>1, ZenonT(60) DEF Dial, Acquire, LockFails, Unlock, hostVars, procVars
  <2> QED
    BY <2>1, Zenon DEF CallsApart
<1>2. CASE Kill(p)
  <2>1. UNCHANGED rt /\ req' = [req EXCEPT ![p] = NoRequest]
    BY <1>2 DEF Kill, Gone, hostVars
  <2> QED
    BY <2>1, Zenon DEF CallsApart, NoRequest, Request
<1>3. CASE Exit(p)
  <2>1. req' = [req EXCEPT ![p] = NoRequest]
    BY <1>3 DEF Exit, Gone
  <2>2. \A a \in Attachments : rt'[a] = rt[a] \/ (a = req[p].att /\ req[p].verb \in {"ADD", "DEL"})
    BY <1>3 DEF Exit
  <2>3. \A a \in Attachments : rt'[a] = "attached" => rt[a] = "attached" \/ req[p].verb = "ADD"
    BY <1>3, Zenon DEF Exit
  <2>4. \A q \in Procs : /\ q # p => req'[q] = req[q]
                         /\ q = p => req'[q].verb \notin {"ADD", "DEL", "GC"} /\ req'[q].att = None
    BY <2>1 DEF NoRequest, Request
  <2>5. ASSUME NEW q \in Procs, NEW r \in Procs, q # r, req'[q].att # None
        PROVE  req'[q].att # req'[r].att
    <3>1. q # p /\ req'[q] = req[q]
      BY <2>4, <2>5, Zenon
    <3>2. CASE r = p
      BY <2>4, <2>5, <3>2, Zenon
    <3>3. CASE r # p
      <4>1. req'[r] = req[r]
        BY <2>4, <3>3
      <4>2. req[q].att # None => req[q].att # req[r].att
        BY <2>5, Zenon DEF CallsApart
      <4> QED
        BY <2>5, <3>1, <4>1, <4>2, ZenonT(60)
    <3> QED
      BY <3>2, <3>3
  <2>6. ASSUME NEW q \in Procs, req'[q].verb \in {"ADD", "DEL"} PROVE rt'[req'[q].att] = "failed"
    <3>1. q # p /\ req'[q] = req[q]
      BY <2>4, <2>6, Zenon
    <3>2. req[q].att \in Attachments /\ req[q].att # req[p].att /\ rt[req[q].att] = "failed"
      BY <2>6, <3>1, CNIAssumption, Zenon DEF CallsApart
    <3> QED
      BY <2>2, <3>1, <3>2, Zenon
  <2>7. \A q, r \in Procs : req'[q].verb = "GC" => req'[r].verb \notin {"ADD", "DEL"}
    BY <2>4, Zenon DEF CallsApart
  <2>8. ASSUME NEW q \in Procs, req'[q].verb = "GC", NEW a \in Attachments,
               NetOf[a] = req'[q].net, rt'[a] = "attached"
        PROVE  a \in req'[q].valid
    <3>1. q # p /\ req'[q] = req[q]
      BY <2>4, <2>8, Zenon
    <3>2. rt[a] = "attached"
      BY <2>3, <2>8, <3>1, Zenon DEF CallsApart
    <3> QED
      BY <2>8, <3>1, <3>2, Zenon DEF CallsApart
  <2> QED
    BY <2>5, <2>6, <2>7, <2>8, Zenon DEF CallsApart
<1>4. ASSUME NEW a \in Attachments, InvokeAdd(p, a) \/ InvokeDel(p, a)
      PROVE  CallsApart'
  <2>1. PICK v \in {"ADD", "DEL"} : req' = [req EXCEPT ![p] = Request(v, a, NetOf[a], {})]
    BY <1>4, Zenon DEF InvokeAdd, InvokeDel, Invoke
  <2>2. /\ rt' = [rt EXCEPT ![a] = "failed"]
        /\ \A q \in Procs : req[q].att # a /\ req[q].verb # "GC"
    BY <1>4, Zenon DEF InvokeAdd, InvokeDel, Busy, Running
  <2> QED
    BY <2>1, <2>2, Zenon DEF CallsApart, Request
<1>5. ASSUME NEW a \in Attachments, InvokeCheck(p, a)
      PROVE  CallsApart'
  <2>1. /\ req' = [req EXCEPT ![p] = Request("CHECK", a, NetOf[a], {})] /\ UNCHANGED rt
        /\ \A q \in Procs : req[q].att # a
    BY <1>5, Zenon DEF InvokeCheck, Invoke, Busy
  <2> QED
    BY <2>1, Zenon DEF CallsApart, Request
<1>6. ASSUME NEW n \in Networks, InvokeGC(p, n)
      PROVE  CallsApart'
  <2>1. /\ req' = [req EXCEPT ![p] = Request("GC", None, n,
                                            {a \in Attachments : NetOf[a] = n /\ rt[a] = "attached"})]
        /\ UNCHANGED rt
        /\ \A q \in Procs : req[q].verb \notin {"ADD", "DEL"}
    BY <1>6, ZenonT(60) DEF InvokeGC, Invoke, Running
  <2> QED
    BY <2>1, Zenon DEF CallsApart, Request
<1>7. ASSUME NEW n \in Networks, InvokeStatus(p, n)
      PROVE  CallsApart'
  <2>1. req' = [req EXCEPT ![p] = Request("STATUS", None, n, {})] /\ UNCHANGED rt
    BY <1>7, Zenon DEF InvokeStatus, Invoke
  <2> QED
    BY <2>1, Zenon DEF CallsApart, Request
<1> QED
  BY <1>1, <1>2, <1>3, <1>4, <1>5, <1>6, <1>7, Zenon DEF CallStep, Runtime

\* They claim nothing that was not claimed: the runtime gets to know of an
\* attachment what the handler returned.
LEMMA CallClaims ==
  ASSUME IntactInv, NEW p \in Procs, CallStep(p), NEW a \in Attachments, Claimed(a)',
         a \notin lost'
  PROVE  Claimed(a) /\ a \notin lost
<1>0. /\ CoreInv /\ pc \in [Procs -> Labels] /\ err \in [Procs -> BOOLEAN]
      /\ req \in [Procs -> Requests] /\ rt \in [Attachments -> {"absent", "attached", "failed"}]
      /\ req[p].verb \in VerbsAt(pc[p])
      /\ pc[p] = "lock" => Handler[req[p].verb] \in {"a_ipam", "d_list", "c_list", "g_list"}
  BY ActorFacts, HandlerLabel, ZenonT(60) DEF CoreInv, TypeOK, VerbsAt, Verbs
<1>q. \A q \in Procs : q # p => pc'[q] = pc[q] /\ err'[q] = err[q] /\ req'[q] = req[q]
  BY <1>0, CallKeeps, ZenonT(60)
<1> USE <1>0
<1>1. CASE Dial(p) \/ Acquire(p) \/ LockFails(p) \/ Unlock(p)
  <2>1. UNCHANGED <<req, rt, lost>>
    BY <1>1, ZenonT(60) DEF Dial, Acquire, LockFails, Unlock, hostVars, procVars
  <2>2. pc'[p] \in {"ret", "exit"} /\ ~err'[p] =>
          (pc[p] \in {"ret", "exit"} /\ ~err[p]) \/ req[p].verb = "STATUS"
    BY <1>1 DEF Dial, Acquire, LockFails, Unlock, Goto, Fail
  <2> QED
    BY <1>q, <2>1, <2>2, Zenon DEF Claimed
<1>2. CASE Kill(p) \/ Exit(p)
  <2>1. UNCHANGED lost /\ pc'[p] = "idle"
    BY <1>2 DEF Kill, Exit, Gone, Goto, hostVars
  <2>2. rt'[a] = "attached" => Claimed(a)
    BY <1>2 DEF Kill, Exit, Claimed, hostVars
  <2> QED
    BY <1>q, <2>1, <2>2, Zenon DEF Claimed
<1>3. CASE Runtime(p)
  <2>1. pc'[p] = "dial" /\ req' = [req EXCEPT ![p] = req'[p]]
    BY <1>3, Zenon DEF Runtime, InvokeAdd, InvokeDel, InvokeCheck, InvokeGC, InvokeStatus, Invoke,
      Goto
  <2>2. rt'[a] = rt[a] \/ rt'[a] = "failed"
    BY <1>3, ZenonT(60) DEF Runtime, InvokeAdd, InvokeDel, InvokeCheck, InvokeGC, InvokeStatus
  <2>3. Claimed(a)
    BY <1>q, <2>1, <2>2 DEF Claimed
  <2>4. a \in lost => InvokeAdd(p, a)
    BY <1>3, Zenon DEF Runtime, InvokeAdd, InvokeDel, InvokeCheck, InvokeGC, InvokeStatus
  <2>5. ~InvokeAdd(p, a)
    BY <2>3, Zenon DEF InvokeAdd, Claimed, Busy
  <2> QED
    BY <2>3, <2>4, <2>5, Zenon
<1> QED
  BY <1>1, <1>2, <1>3, ZenonT(60) DEF CallStep

\* Nothing becomes attached during a GC.
LEMMA CallReapable ==
  ASSUME IntactInv, NEW p \in Procs, CallStep(p), NEW q \in Procs
  PROVE  Reapable(q)'
<1>0. /\ CoreInv /\ CallsApart /\ Reapable(q) /\ req[p].verb \in VerbsAt(pc[p])
      /\ todo \in [Procs -> SUBSET (Ids \X PortNames)]
      /\ rt \in [Attachments -> {"absent", "attached", "failed"}]
  BY ActorFacts DEF CoreInv, TypeOK
<1>1. CASE todo'[q] = {}
  BY <1>1, ZenonT(60) DEF Reapable
<1>2. CASE /\ todo'[q] = todo[q] /\ req'[q] = req[q]
           /\ \A a \in Attachments : rt'[a] = "attached" => rt[a] = "attached" \/ req[p].verb = "ADD"
  BY <1>0, <1>2, Zenon DEF Reapable, CallsApart
<1>3. \A a \in Attachments : rt'[a] = "attached" => rt[a] = "attached" \/ req[p].verb = "ADD"
  <2>1. CASE Exit(p)
    BY <2>1 DEF Exit
  <2>2. CASE Runtime(p)
    BY <1>0, <2>2, ZenonT(60) DEF Runtime, InvokeAdd, InvokeDel, InvokeCheck, InvokeGC, InvokeStatus
  <2>3. CASE Dial(p) \/ Acquire(p) \/ LockFails(p) \/ Unlock(p) \/ Kill(p)
    BY <2>3, Zenon DEF Dial, Acquire, LockFails, Unlock, Kill, hostVars
  <2> QED
    BY <2>1, <2>2, <2>3, Zenon DEF CallStep
<1>4. CASE q # p
  BY <1>0, <1>2, <1>3, <1>4, CallKeeps, Zenon
<1>5. CASE q = p /\ (Exit(p) \/ Kill(p))
  BY <1>0, <1>1, <1>5, ZenonT(60) DEF Exit, Kill, Gone
<1>6. CASE q = p /\ Runtime(p)
  <2>1. pc[p] = "idle" /\ UNCHANGED todo
    BY <1>6, Zenon DEF Runtime, InvokeAdd, InvokeDel, InvokeCheck, InvokeGC, InvokeStatus, Invoke,
      locals
  <2>2. todo[q] = {}
    BY <1>0, <1>6, <2>1, Zenon DEF Reapable, VerbsAt
  <2> QED
    BY <1>1, <2>1, <2>2, Zenon
<1>7. CASE q = p /\ (Dial(p) \/ Acquire(p) \/ LockFails(p) \/ Unlock(p))
  <2>1. UNCHANGED <<todo, req>>
    BY <1>7, Zenon DEF Dial, Acquire, LockFails, Unlock, locals, procVars
  <2> QED
    BY <1>2, <1>3, <2>1
<1> QED
  BY <1>4, <1>5, <1>6, <1>7, ZenonT(60) DEF CallStep

\* The steps of a call outside its handler keep the invariant.
LEMMA CallIntact ==
  ASSUME IntactInv, NEW p \in Procs, CallStep(p)
  PROVE  IntactInv'
<1>0. /\ CoreInv /\ PortInv /\ OwnBridges /\ Rooted /\ Live /\ CallsApart /\ pc \in [Procs -> Labels]
      /\ UNCHANGED <<groutVars, ipam>>
      /\ pc[p] = "lock" => req[p].verb \in {"ADD", "DEL", "CHECK", "GC"}
  BY ActorFacts, CallKeeps, Zenon DEF IntactInv, CoreInv, CallOK, VerbsAt, Verbs
<1>1. PortInv' /\ OwnBridges' /\ Rooted' /\ BridgesOurs' /\ CallsApart'
  BY <1>0, CallPort, CallApart, RootedSame, SameBridges, ZenonT(60)
  DEF IntactInv, CallStep, groutVars, OwnBridges, BridgesApart, ForeignPortsOnly
<1>2. Live'
  BY <1>0, CallClaims, Zenon DEF Live, Done, Named, groutVars
<1>3. \A q \in Procs : Reapable(q)'
  BY CallReapable, Zenon
<1>4. Progress(p)' /\ Precise(p)'
  <2>1. pc'[p] \in {"exit", "lock", "a_ipam", "d_list", "c_list", "g_list", "idle", "dial"}
    <3>1. CASE Dial(p) \/ LockFails(p) \/ Unlock(p)
      BY <1>0, <3>1, ZenonT(60) DEF Dial, LockFails, Unlock, Goto, Fail
    <3>2. CASE Acquire(p)
      BY <1>0, <3>2, HandlerLabel, Zenon DEF Acquire, Goto
    <3>3. CASE Exit(p) \/ Kill(p)
      BY <1>0, <3>3 DEF Exit, Kill, Gone, Goto
    <3>4. CASE Runtime(p)
      BY <1>0, <3>4, Zenon DEF Runtime, InvokeAdd, InvokeDel, InvokeCheck, InvokeGC, InvokeStatus,
        Invoke, Goto
    <3> QED
      BY <3>1, <3>2, <3>3, <3>4, Zenon DEF CallStep
  <2> QED
    BY <2>1, NoProgress, NothingPrecise
<1>5. ASSUME NEW q \in Procs, q # p PROVE Progress(q)' /\ Precise(q)'
  <2>1. /\ conn'[q] = conn[q] /\ pc'[q] = pc[q] /\ port'[q] = port[q] /\ br'[q] = br[q]
        /\ todo'[q] = todo[q] /\ gws'[q] = gws[q] /\ err'[q] = err[q] /\ req'[q] = req[q]
    BY <1>0, <1>5, CallKeeps, Zenon
  <2>2. Progress(q) /\ Precise(q)
    BY DEF IntactInv
  <2>3. req[q].att \in lost => req[q].att \in lost'
    BY Zenon DEF CallStep, Dial, Acquire, LockFails, Unlock, Exit, Kill, Runtime, InvokeAdd, InvokeDel,
      InvokeCheck, InvokeGC, InvokeStatus, Busy, hostVars
  <2>4. Progress(q)'
    BY <1>0, <2>1, <2>2, <2>3, ZenonT(60) DEF Progress, IsBridge, Virtio, MyName, Named, groutVars
  <2>5. Precise(q)'
    BY <1>0, <2>1, <2>2, Zenon DEF Precise, MyName, IsBridge, groutVars
  <2> QED
    BY <2>4, <2>5
<1> QED
  BY <1>1, <1>2, <1>3, <1>4, <1>5 DEF IntactInv

-----------------------------------------------------------------------------
\* After a crash nothing is promised of an attachment, and no process has a
\* connection that works.
LEMMA CrashIntact ==
  ASSUME IntactInv, GroutCrash
  PROVE  IntactInv'
<1>0. PortInv /\ OwnBridges /\ CallsApart /\ CoreInv
  BY DEF IntactInv, PortInv
<1>1. PortInv' /\ OwnBridges'
  BY <1>0, EnvironmentPort, ZenonT(60) DEF OwnBridges, BridgesApart, ForeignPortsOnly
<1>2. Rooted' /\ BridgesOurs'
  BY CNIAssumption, GroutAssumption DEF GroutCrash, Crash, Rooted, BridgesOurs, IsBridge, NoIface
<1>3. CallsApart' /\ Live'
  BY <1>0, ZenonT(60) DEF GroutCrash, CallsApart, Live
<1>4. ASSUME NEW q \in Procs PROVE Progress(q)' /\ Precise(q)' /\ Reapable(q)'
  <2>1. /\ conn'[q] # "open" /\ lost' = Attachments
        /\ UNCHANGED <<ipam, rt, pc, req, br, port, gws, todo, err>>
    BY <1>0 DEF GroutCrash, CoreInv, TypeOK, locals
  <2>2. Progress(q) /\ Reapable(q)
    BY ZenonT(60) DEF IntactInv
  <2>3. pc[q] \in {"a_move", "a_conf"} => req[q].att \in Attachments
    BY <1>0, CallFacts, Zenon DEF CoreInv, CallOK, VerbsAt
  <2>4. Progress(q)'
    BY <2>1, <2>2, <2>3, Zenon DEF Progress, Virtio
  <2> QED
    BY <2>1, <2>2, <2>4, ZenonT(60) DEF Precise, Reapable
<1> QED
  BY <1>1, <1>2, <1>3, <1>4 DEF IntactInv

\* A restart changes nothing, and a netdev that is taken down costs only its
\* own attachment.
LEMMA DriftIntact ==
  ASSUME IntactInv, GroutRestart \/ \E a \in Attachments : NetdevDrift(a)
  PROVE  IntactInv'
<1>0. /\ PortInv /\ OwnBridges /\ CallsApart /\ Rooted /\ Live /\ CoreInv /\ GroutTypeOK
  BY Zenon DEF IntactInv, PortInv, CoreInv, TypeOK
<1>u. UNCHANGED <<iface, socks, ipam, rt, conn, pc, req, br, port, gws, todo, err>>
  BY SMTT(60) DEF GroutRestart, Restart, NetdevDrift, hostVars, procVars, locals
<1>d. /\ lost \subseteq lost'
      /\ \A a \in Attachments : a \notin lost' => link'[PortName[a]] = link[PortName[a]]
  <2>1. CASE GroutRestart
    BY <2>1, Zenon DEF GroutRestart, Restart, hostVars
  <2>2. ASSUME NEW a \in Attachments, NetdevDrift(a)
        PROVE  /\ lost' = lost \union {a}
               /\ \A b \in Attachments : b # a => link'[PortName[b]] = link[PortName[b]]
    <3>1. lost' = lost \union {a} /\ \E v : link' = [link EXCEPT ![PortName[a]] = v]
      BY <2>2, Zenon DEF NetdevDrift
    <3>2. ASSUME NEW b \in Attachments, b # a PROVE PortName[b] # PortName[a] /\ PortName[b] \in PortNames
      BY <3>2, PortNamesDistinct, CNIAssumption, Zenon
    <3>3. link \in [PortNames -> LinkStates]
      BY <1>0, Zenon DEF GroutTypeOK
    <3> QED
      BY <3>1, <3>2, <3>3, Zenon
  <2> QED
    BY <2>1, <2>2
<1>1. PortInv' /\ OwnBridges' /\ Rooted' /\ BridgesOurs'
  BY <1>0, <1>u, EnvironmentPort, RootedSame, SameBridges DEF IntactInv, OwnBridges, BridgesApart, ForeignPortsOnly
<1>2. CallsApart' /\ Live'
  <2>1. CallsApart'
    BY <1>0, <1>u, Zenon DEF CallsApart
  <2>2. \A a \in Attachments : Claimed(a)' => Claimed(a)
    BY <1>u, ZenonT(60) DEF Claimed
  <2>3. \A a \in Attachments : a \notin lost' /\ Done(a) => Done(a)'
    BY <1>u, <1>d, Zenon DEF Done, Named
  <2> QED
    BY <1>0, <1>d, <2>1, <2>2, <2>3, Zenon DEF Live
<1>3. ASSUME NEW q \in Procs PROVE Progress(q)' /\ Precise(q)' /\ Reapable(q)'
  <2>1. Progress(q) /\ Precise(q) /\ Reapable(q)
    BY DEF IntactInv
  <2>2. pc[q] \in {"a_move", "a_conf"} => req[q].att \in Attachments
    BY <1>0, CallFacts, Zenon DEF CoreInv, CallOK, VerbsAt
  <2>3. Progress(q)'
    BY <1>u, <1>d, <2>1, <2>2, Zenon DEF Progress, Virtio, MyName, Named, IsBridge
  <2>4. Precise(q)' /\ Reapable(q)'
    BY <1>u, <2>1, Zenon DEF Precise, Reapable, MyName, IsBridge
  <2> QED
    BY <2>3, <2>4
<1> QED
  BY <1>1, <1>2, <1>3, Zenon DEF IntactInv

\* Another user of grout adds and deletes ports of its own: it neither touches
\* the plugin's ports nor makes a bridge.
LEMMA ForeignIntact ==
  ASSUME IntactInv, ForeignStep
  PROVE  IntactInv'
<1>0. /\ PortInv /\ OwnBridges /\ CallsApart /\ Rooted /\ BridgesOurs /\ Live /\ CoreInv
      /\ GroutTypeOK /\ PortsOK
  BY DEF IntactInv, PortInv, CoreInv, TypeOK
<1>u. UNCHANGED <<link, socks, ipam, rt, lost, conn, pc, req, br, port, gws, todo, err>>
  BY Zenon DEF ForeignStep, ForeignDel, ForeignAdd, hostVars, procVars, locals
<1>i. PICK i, x :
        /\ i \in Ids
        /\ iface' = [iface EXCEPT ![i] = x]
        /\ x.type # "bridge" /\ x.name \notin PortNames
        /\ iface[i].name \notin PortNames
        /\ NotADomain(i) /\ ~IsBridge(i)
  <2>1. ASSUME NEW i \in Ids, ForeignDel(i)
        PROVE  /\ iface' = [iface EXCEPT ![i] = NoIface]
               /\ NoIface.type # "bridge" /\ NoIface.name \notin PortNames
               /\ iface[i].name \notin PortNames
               /\ NotADomain(i) /\ ~IsBridge(i)
    BY <1>0, <2>1, GroutAssumption, Zenon
    DEF ForeignDel, NoIface, PortsOK, Members, NotADomain, BridgesOurs
  <2>2. ASSUME NEW i \in Ids, NEW f \in Foreign, ForeignAdd(f, i)
        PROVE  \E d : LET x == NewIface(f.name, f.type, d, f.addrs, "other") IN
                      /\ iface' = [iface EXCEPT ![i] = x]
                      /\ x.type # "bridge" /\ x.name \notin PortNames
    <3>1. f.type = "port" /\ f.name \notin PortNames
      BY <1>0, GroutAssumption DEF OwnBridges, ForeignPortsOnly
    <3>2. PICK d : iface' = [iface EXCEPT ![i] = NewIface(f.name, f.type, d, f.addrs, "other")]
      BY <2>2, ZenonT(60) DEF ForeignAdd
    <3> QED
      BY <3>1, <3>2, Zenon DEF NewIface
  <2>3. ASSUME NEW i \in Ids, NEW f \in Foreign, ForeignAdd(f, i)
        PROVE  iface[i].name \notin PortNames /\ NotADomain(i) /\ ~IsBridge(i)
    BY <1>0, <2>3, GroutAssumption
    DEF ForeignAdd, CanAdd, Exists, PortsOK, NoStrandedPort, IsBridge, NotADomain
  <2> QED
    BY <2>1, <2>2, <2>3, ZenonT(60) DEF ForeignStep
<1>k. /\ \A j \in Ids : j # i => iface'[j] = iface[j]
      /\ iface'[i] = x
  BY <1>0, <1>i, Zenon DEF GroutTypeOK
<1>b. (\A b : IsBridge(b)' <=> IsBridge(b)) /\ BridgesOurs'
  BY <1>0, <1>i, <1>k DEF IsBridge, BridgesOurs
<1>n. ASSUME NEW n \in PortNames PROVE Named(n)' = Named(n)
  BY <1>i, <1>k DEF Named
<1>1. PortInv' /\ OwnBridges'
  BY <1>0, ForeignPort, Zenon DEF OwnBridges, BridgesApart, ForeignPortsOnly
<1>2. Rooted'
  <2> SUFFICES ASSUME NEW j \in Ids, NEW a \in Attachments, iface'[j].name = PortName[a]
               PROVE  Root(iface[j].domain, NetOf[a])'
    BY Zenon DEF Rooted
  <2>1. iface'[j] = iface[j]
    BY <1>i, <1>k, CNIAssumption, ZenonT(60)
  <2>2. iface[j].domain # i /\ Root(iface[j].domain, NetOf[a])
    BY <1>0, <1>i, <2>1, PortFacts, Zenon DEF NotADomain, Rooted
  <2> QED
    BY <1>k, <2>1, <2>2, Zenon DEF Root, IsBridge
<1>3. CallsApart' /\ Live'
  <2>1. \A a \in Attachments : Named(PortName[a])' = Named(PortName[a])
    BY <1>n, CNIAssumption
  <2> QED
    BY <1>0, <1>u, <2>1, Zenon DEF CallsApart, Live, Claimed, Done
<1>4. ASSUME NEW q \in Procs PROVE Progress(q)' /\ Precise(q)' /\ Reapable(q)'
  <2>1. /\ Progress(q) /\ Precise(q) /\ Reapable(q) /\ Learned(q)
        /\ todo[q] \in SUBSET (Ids \X PortNames)
    BY ZenonT(60) DEF IntactInv, PortInv, CoreInv, TypeOK
  <2>2. pc[q] \in {"a_move", "a_conf", "a_rollback", "d_del"} => MyName(q) \in PortNames
    BY <1>0, CallFacts, Zenon DEF CoreInv, CallOK, VerbsAt
  <2>3. /\ pc[q] \in {"a_move", "a_conf"} => Named(MyName(q))' = Named(MyName(q))
        /\ MyName(q)' = MyName(q) /\ Virtio(q)' = Virtio(q)
    BY <1>u, <1>n, <2>2, Zenon DEF MyName, Virtio
  <2>4. ASSUME NEW b \in Ids, IsBridge(b)' PROVE IsBridge(b) /\ iface'[b] = iface[b]
    BY <1>i, <1>k, <2>4 DEF IsBridge
  <2>5. Progress(q)'
    BY <1>u, <2>1, <2>3, <2>4, Zenon DEF Progress
  <2>6. Precise(q)'
    BY <1>u, <1>i, <1>k, <1>b, <2>1, <2>2, <2>3, Zenon DEF Precise, Learned
  <2>7. Reapable(q)'
    BY <1>u, <2>1, Zenon DEF Reapable
  <2> QED
    BY <2>5, <2>6, <2>7, Zenon
<1> QED
  BY <1>b, <1>1, <1>2, <1>3, <1>4, ZenonT(60) DEF IntactInv

-----------------------------------------------------------------------------
\* A request whose reply is lost spares what its answered twin spares,
LEMMA ReplyLostSpares ==
  ASSUME IntactInv, NEW p \in Procs, ReplyLost(p), NEW a \in Attachments, Claimed(a)
  PROVE  Spares(a)
<1>0. /\ CoreInv /\ GroutTypeOK /\ PortsOK /\ CallsApart /\ Precise(p) /\ Reapable(p)
      /\ req[p].verb \in VerbsAt(pc[p]) /\ PortName[a] \in PortNames
      /\ UNCHANGED ipam /\ conn[p] = "open"
  BY ActorFacts, CNIAssumption, Zenon DEF ReplyLost, hostVars
<1>m. req[p].verb \in {"ADD", "DEL"} /\ pc[p] \notin {"ret", "exit"} => PortName[a] # MyName(p)
  BY <1>0, NotMine, ZenonT(60)
<1>g. req[p].verb = "GC" => rt[a] = "attached"
  BY <1>0, ClaimedInGC
<1> USE <1>0 DEF Spares
<1>1. CASE BridgeUnheard(p)
  BY <1>1, AddBridgeSpares, Zenon DEF BridgeUnheard
<1>2. CASE GatewayUnheard(p) \/ FlushUnheard(p)
  BY <1>2, SetAddrsSpares, Zenon DEF GatewayUnheard, FlushUnheard
<1>3. CASE PortUnheard(p)
  BY <1>3, <1>m, AddPortSpares, ZenonT(60) DEF PortUnheard, VerbsAt
<1>4. CASE DelUnheard(p)
  BY <1>4, <1>m, DelSpares, Zenon DEF DelUnheard, VerbsAt, Precise
<1>5. CASE BridgeDelUnheard(p)
  BY <1>5, DelSpares, Zenon DEF BridgeDelUnheard, Precise, IsBridge, PortsOK
<1>6. CASE ReapUnheard(p)
  <2>1. PICK t \in todo[p] : DelIface(t[1])
    BY <1>6, Zenon DEF ReapUnheard
  <2>2. PortName[a] # t[2] /\ iface[t[1]].name = t[2]
    BY <1>6, <1>g, Zenon DEF ReapUnheard, Reapable, Precise
  <2> QED
    BY <2>1, <2>2, DelSpares, Zenon
<1> QED
  BY <1>1, <1>2, <1>3, <1>4, <1>5, <1>6, Zenon DEF ReplyLost

\* leaves the ports at their bridges,
LEMMA ReplyLostRooted ==
  ASSUME IntactInv, NEW p \in Procs, ReplyLost(p)
  PROVE  Rooted'
<1>0. /\ CoreInv /\ GroutTypeOK /\ PortsOK /\ Rooted /\ Learned(p) /\ Progress(p)
      /\ req[p].verb \in VerbsAt(pc[p]) /\ conn[p] = "open"
      /\ todo \in [Procs -> SUBSET (Ids \X PortNames)]
  BY ActorFacts, ZenonT(60) DEF ReplyLost
<1> USE <1>0
<1>1. CASE BridgeUnheard(p)
  <2>1. Bridge[req[p].net] \in Names \ PortNames
    BY <1>1, CallFacts, CNIAssumption, Zenon DEF BridgeUnheard, VerbsAt
  <2> QED
    BY <1>1, <2>1, RootedAddBridge, Zenon DEF BridgeUnheard
<1>2. CASE GatewayUnheard(p)
  BY <1>2, RootedSetAddrs, Zenon DEF GatewayUnheard
<1>3. CASE PortUnheard(p)
  <2>1. PICK i \in Ids : AddPort(i, MyName(p), br[p], Virtio(p))
    BY <1>3, Zenon DEF PortUnheard
  <2>2. req[p].att \in Attachments /\ req[p].net = NetOf[req[p].att]
    BY <1>3, CallFacts, Zenon DEF PortUnheard, VerbsAt
  <2>3. br[p] \in Ids /\ IsBridge(br[p])
    BY <1>3, <2>1, GroutAssumption, Zenon DEF PortUnheard, Progress, AddPort, CanAdd
  <2>4. Root(br[p], req[p].net)
    BY <1>3, <2>3, Zenon DEF PortUnheard, Progress, Root
  <2> QED
    BY <2>1, <2>2, <2>3, <2>4, RootedAddPort, ZenonT(60) DEF MyName
<1>4. CASE DelUnheard(p)
  BY <1>4, PortIsNoDomain, RootedDel, ZenonT(60) DEF DelUnheard, Learned
<1>5. CASE FlushUnheard(p)
  BY <1>5, RootedSetAddrs, Zenon DEF FlushUnheard, Learned
<1>6. CASE BridgeDelUnheard(p)
  BY <1>6, RootedDel, Zenon DEF BridgeDelUnheard, Learned
<1>7. CASE ReapUnheard(p)
  <2>1. PICK t \in todo[p] : DelIface(t[1])
    BY <1>7, Zenon DEF ReapUnheard
  <2>2. t[1] \in Ids /\ iface[t[1]].name \in PortNames
    BY <1>7, StaleIds, ZenonT(60) DEF ReapUnheard, Learned
  <2>3. NotADomain(t[1])
    BY <2>2, PortIsNoDomain, Zenon
  <2> QED
    BY <2>1, <2>3, RootedDel, Zenon
<1> QED
  BY <1>1, <1>2, <1>3, <1>4, <1>5, <1>6, <1>7, Zenon DEF ReplyLost

\* makes no bridge of somebody else,
LEMMA ReplyLostBridges ==
  ASSUME IntactInv, NEW p \in Procs, ReplyLost(p)
  PROVE  BridgesOurs'
<1>0. GroutTypeOK /\ BridgesOurs
  BY ActorFacts
<1> QED
  BY <1>0, NewBridges, SetAddrsBridges, Zenon DEF ReplyLost, BridgeUnheard, GatewayUnheard,
    PortUnheard, DelUnheard, FlushUnheard, BridgeDelUnheard, ReapUnheard

\* and puts the handler on an error path.
LEMMA ReplyLostIntact ==
  ASSUME IntactInv, NEW p \in Procs, ReplyLost(p)
  PROVE  IntactInv'
<1>0. /\ CoreInv /\ CallsApart /\ Live /\ Progress(p) /\ Reapable(p)
      /\ pc \in [Procs -> Labels] /\ err \in [Procs -> BOOLEAN]
      /\ todo \in [Procs -> SUBSET (Ids \X PortNames)]
      /\ conn \in [Procs -> {"closed", "open", "dead"}]
      /\ req[p].verb \in VerbsAt(pc[p])
  BY ActorFacts DEF CoreInv, TypeOK
<1>u. UNCHANGED <<ipam, rt, lost, req, br, port, gws>>
  BY DEF ReplyLost, hostVars
<1>p. /\ pc[p] \in Critical
      /\ pc' = [pc EXCEPT ![p] = pc'[p]]
      /\ \/ pc'[p] = "a_relist" /\ pc[p] = "a_mkbr"
         \/ pc'[p] = "ipamdel" /\ (err'[p] \/ req[p].verb # "ADD")
         \/ pc'[p] \in {"d_sock", "b_del", "g_ipam", "g_reap", "b_list"}
      /\ err' = err \/ err' = [err EXCEPT ![p] = TRUE]
      /\ todo' = todo \/ \E t : todo' = [todo EXCEPT ![p] = todo[p] \ {t}]
  <2>1. CASE BridgeUnheard(p)
    BY <1>0, <2>1 DEF BridgeUnheard, Goto, Critical
  <2>2. CASE GatewayUnheard(p) \/ PortUnheard(p)
    BY <1>0, <2>2, ZenonT(60) DEF GatewayUnheard, PortUnheard, Goto, Fail, Critical
  <2>3. CASE DelUnheard(p)
    <3>1. pc[p] = "a_rollback" => err'[p]
      BY <1>0, <2>3, Zenon DEF DelUnheard, Progress, VerbsAt
    <3> QED
      BY <1>0, <2>3, <3>1, Zenon DEF DelUnheard, Goto, Critical
  <2>4. CASE FlushUnheard(p)
    BY <1>0, <2>4, ZenonT(60) DEF FlushUnheard, Goto, Critical
  <2>5. CASE BridgeDelUnheard(p)
    BY <1>0, <2>5, Zenon DEF BridgeDelUnheard, AfterBridgeGC, Goto, Critical
  <2>6. CASE ReapUnheard(p)
    BY <1>0, <2>6, Zenon DEF ReapUnheard, AfterReap, Goto, Critical
  <2> QED
    BY <2>1, <2>2, <2>3, <2>4, <2>5, <2>6, ZenonT(60) DEF ReplyLost
<1>1. PortInv' /\ OwnBridges' /\ Rooted' /\ BridgesOurs'
  BY ReplyLostPort, ReplyLostRooted, ReplyLostBridges DEF IntactInv, OwnBridges, BridgesApart, ForeignPortsOnly
<1>2. CallsApart'
  BY <1>0, <1>u, Zenon DEF CallsApart
<1>3. Live'
  <2> SUFFICES ASSUME NEW a \in Attachments, Claimed(a)', a \notin lost PROVE Done(a)'
    BY <1>u, Zenon DEF Live
  <2>1. \A q \in Procs : q # p => pc'[q] = pc[q] /\ err'[q] = err[q]
    BY <1>0, <1>p, ZenonT(60)
  <2>2. Claimed(a)
    BY <1>u, <1>p, <2>1, Zenon DEF Claimed
  <2> QED
    BY <1>0, <2>2, ReplyLostSpares, SparedDone DEF Live
<1>4. \A q \in Procs : Reapable(q)'
  <2>1. \A q \in Procs : todo'[q] \subseteq todo[q]
    <3>1. ASSUME NEW t, todo' = [todo EXCEPT ![p] = todo[p] \ {t}], NEW q \in Procs
          PROVE  todo'[q] \subseteq todo[q]
      BY <1>0, <3>1
    <3> QED
      BY <1>p, <3>1, Zenon
  <2> QED
    BY <1>u, <2>1, ZenonT(60) DEF IntactInv, Reapable
<1>5. Progress(p)' /\ Precise(p)'
  <2>1. conn'[p] = "dead"
    BY <1>0 DEF ReplyLost
  <2> QED
    BY <1>0, <1>u, <1>p, <2>1, ZenonT(60) DEF Progress, Precise
<1>6. ASSUME NEW q \in Procs, q # p PROVE Progress(q)' /\ Precise(q)'
  <2>1. pc'[q] \notin Critical
    BY <1>0, <1>p, <1>6, Zenon DEF CoreInv, LockOwnership
  <2> QED
    BY <2>1, NoProgress, NothingPrecise, ZenonT(60) DEF Critical
<1> QED
  BY <1>1, <1>2, <1>3, <1>4, <1>5, <1>6, ZenonT(60) DEF IntactInv

-----------------------------------------------------------------------------
\* The invariant is inductive.
LEMMA NextIntact == IntactInv /\ [Next]_vars => IntactInv'
<1> SUFFICES ASSUME IntactInv, [Next]_vars PROVE IntactInv'
  OBVIOUS
<1>1. ASSUME NEW p \in Procs, Step(p) \/ Runtime(p) PROVE IntactInv'
  BY <1>1, HandlerIntact, CallIntact DEF Step, HandlerStep, CallStep
<1>2. CASE Environment
  BY <1>2, CallIntact, ReplyLostIntact, CrashIntact, DriftIntact, ForeignIntact
  DEF Environment, CallStep
<1>3. CASE UNCHANGED vars
  <2>1. PortInv' /\ Rooted' /\ BridgesOurs' /\ OwnBridges'
    BY <1>3, NextPort, RootedSame, SameBridges DEF IntactInv, vars, OwnBridges, BridgesApart, ForeignPortsOnly
  <2>2. CallsApart' /\ Live'
    BY <1>3, Zenon DEF IntactInv, vars, CallsApart, Live, Claimed, Done, Named
  <2>3. ASSUME NEW q \in Procs PROVE Progress(q)' /\ Precise(q)' /\ Reapable(q)'
    <3>1. Progress(q) /\ Precise(q) /\ Reapable(q)
      BY DEF IntactInv
    <3>2. Progress(q)'
      BY <1>3, <3>1, Zenon DEF vars, Progress, IsBridge, Virtio, MyName, Named
    <3>3. Precise(q)'
      BY <1>3, <3>1, Zenon DEF vars, Precise, IsBridge, MyName
    <3>4. Reapable(q)'
      BY <1>3, <3>1, Zenon DEF vars, Reapable
    <3> QED
      BY <3>2, <3>3, <3>4
  <2> QED
    BY <2>1, <2>2, <2>3, ZenonT(60) DEF IntactInv
<1> QED
  BY <1>1, <1>2, <1>3 DEF Next

\* An attachment whose ADD succeeded keeps its port, the port's bridge with its
\* gateways, its netdev or socket and its reservation until the runtime asks for
\* its DEL, whatever ADD, DEL, CHECK and GC of other attachments and networks do
\* in between, whichever of them is killed or loses a reply; only a grout crash
\* or a change inside the pod takes them away.
THEOREM AttachmentsStayIntact == OwnBridges /\ Spec => []AttachedIntact
<1>1. IntactInv => AttachedIntact
  <2> SUFFICES ASSUME IntactInv, NEW a \in Attachments, rt[a] = "attached", a \notin lost
               PROVE  Intact(a)
    BY Zenon DEF AttachedIntact
  <2>1. Done(a) /\ Rooted
    BY Zenon DEF IntactInv, Live, Claimed
  <2>2. PICK i \in Ids : iface[i].name = PortName[a] /\ i \in Named(PortName[a])
    BY <2>1, ZenonT(60) DEF Done, Named
  <2>3. Root(iface[i].domain, NetOf[a])
    BY <2>1, <2>2, Zenon DEF Rooted
  <2> QED
    BY <2>1, <2>2, <2>3, Zenon DEF Intact, Done, Root
<1> QED
  BY <1>1, InitIntact, NextIntact, PTL DEF Spec

\* HandleGC only has ports of attachments of its own network on its list, although
\* it lists the ports of a bridge and not of a network.
THEOREM GCStaysInNetwork == OwnBridges /\ Spec => []GCScopedToNetwork
<1>1. IntactInv => GCScopedToNetwork
  BY Zenon DEF IntactInv, Reapable, GCScopedToNetwork
<1> QED
  BY <1>1, InitIntact, NextIntact, PTL DEF Spec

-----------------------------------------------------------------------------
\* The interfaces of other users of grout stay as they are.
ForeignSame == \A i \in Ids : iface[i].owner = "other" => iface'[i] = iface[i]

\* A delete, or a change of addresses, of an interface of the plugin does that.
LEMMA OwnOnly ==
  ASSUME GroutTypeOK, NEW i \in Ids, iface[i].owner = "cni",
         DelIface(i) \/ \E as : SetAddrs(i, as)
  PROVE  ForeignSame
BY Zenon DEF GroutTypeOK, DelIface, SetAddrs, ForeignSame

\* The ids by which DEL and GC delete and flush are the plugin's.
LEMMA DeletesOwn ==
  ASSUME IntactInv, NEW p \in Procs, conn[p] = "open"
  PROVE  /\ pc[p] \in {"d_del", "a_rollback"} => port[p] \in Ids /\ iface[port[p]].owner = "cni"
         /\ pc[p] \in {"b_flush4", "b_flush6", "b_del"} => br[p] \in Ids /\ iface[br[p]].owner = "cni"
         /\ pc[p] = "g_reap" => \A t \in todo[p] : t[1] \in Ids /\ iface[t[1]].owner = "cni"
<1>0. PortsOK /\ BridgesOurs /\ Learned(p) /\ Precise(p)
  BY ActorFacts, Zenon
<1>1. pc[p] \in {"d_del", "a_rollback"} => port[p] \in Ids /\ iface[port[p]].owner = "cni"
  BY <1>0, Zenon DEF Learned, PortsOK
<1>2. pc[p] \in {"b_flush4", "b_flush6", "b_del"} => br[p] \in Ids /\ iface[br[p]].owner = "cni"
  BY <1>0, Zenon DEF Precise, BridgesOurs, IsBridge
<1>3. pc[p] = "g_reap" => \A t \in todo[p] : t[1] \in Ids /\ iface[t[1]].name \in PortNames
  BY <1>0, ActorFacts, StaleIds, Zenon DEF Learned
<1> QED
  BY <1>0, <1>1, <1>2, <1>3, ZenonT(60) DEF PortsOK

\* A step of the handler of DEL or GC leaves the others' interfaces alone,
LEMMA HandlerForeign ==
  ASSUME IntactInv, NEW p \in Procs, HandlerStep(p), req[p].verb \in {"DEL", "GC"}
  PROVE  ForeignSame
<1>0. GroutTypeOK /\ req[p].verb \in VerbsAt(pc[p])
  BY ActorFacts, ZenonT(60)
<1>1. CASE UNCHANGED iface
  BY <1>1, Zenon DEF ForeignSame
<1>2. CASE DelPort(p) \/ BridgeGCDel(p)
  BY <1>0, <1>1, <1>2, DeletesOwn, OwnOnly, Zenon DEF DelPort, BridgeGCDel, TryDel, Served, Refused
<1>3. CASE BridgeGCFlush4(p) \/ BridgeGCFlush6(p)
  BY <1>0, <1>1, <1>3, DeletesOwn, OwnOnly, Zenon DEF BridgeGCFlush4, BridgeGCFlush6, Served, Refused
<1>4. CASE GCReap(p)
  <2>1. PICK t \in todo[p] : (Served(p) /\ DelIface(t[1])) \/ UNCHANGED iface
    BY <1>4, Zenon DEF GCReap, Refused
  <2>2. pc[p] = "g_reap"
    BY <1>4, Zenon DEF GCReap
  <2> QED
    BY <1>0, <1>1, <2>1, <2>2, DeletesOwn, OwnOnly, Zenon DEF Served
<1>5. CASE LooksOnly(p)
  BY <1>1, <1>5, LooksOnlyKeeps
<1>6. CASE HandleAdd(p) /\ ~ipamDel(p)
  BY <1>0, <1>6, ZenonT(60) DEF HandleAdd, AddIpam, EnsureBridgeList, EnsureBridgeCreate,
    EnsureBridgeRelist, AddGateway, AddPodPort, moveLinkToNamespace, configurePodInterface,
    cleanupAfterAddFailure, VerbsAt
<1> QED
  BY <1>2, <1>3, <1>4, <1>5, <1>6, Zenon
  DEF LooksOnly, HandlerStep, HandleDel, gcBridgeIfEmpty, HandleGC

\* also when its reply is lost.
LEMMA ReplyLostForeign ==
  ASSUME IntactInv, NEW p \in Procs, ReplyLost(p), req[p].verb \in {"DEL", "GC"}
  PROVE  ForeignSame
<1>0. GroutTypeOK /\ req[p].verb \in VerbsAt(pc[p]) /\ conn[p] = "open"
  BY ActorFacts, Zenon DEF ReplyLost
<1>1. CASE DelUnheard(p) \/ BridgeDelUnheard(p) \/ FlushUnheard(p)
  BY <1>0, <1>1, DeletesOwn, OwnOnly, ZenonT(60) DEF DelUnheard, BridgeDelUnheard, FlushUnheard
<1>2. CASE ReapUnheard(p)
  BY <1>0, <1>2, DeletesOwn, OwnOnly, Zenon DEF ReapUnheard
<1>3. CASE BridgeUnheard(p) \/ GatewayUnheard(p) \/ PortUnheard(p)
  BY <1>0, <1>3, Zenon DEF BridgeUnheard, GatewayUnheard, PortUnheard, VerbsAt
<1> QED
  BY <1>1, <1>2, <1>3, Zenon DEF ReplyLost

\* Whatever DEL and GC delete or flush, interfaces that somebody else created in
\* grout stay as they are, although the handlers delete by ids that they learned
\* some requests earlier and that grout hands out again.
THEOREM ForeignStaysUntouched == OwnBridges /\ Spec => ForeignUntouched
<1>1. ASSUME IntactInv, [Next]_vars, NEW p \in Procs, pc'[p] # pc[p], req[p].verb \in {"DEL", "GC"}
      PROVE  ForeignSame
  <2>0. CoreInv /\ pc \in [Procs -> Labels]
    BY <1>1, ActorFacts, Zenon
  <2>1. ASSUME NEW q \in Procs, HandlerStep(q) PROVE ForeignSame
    <3>1. p = q
      BY <1>1, <2>0, <2>1, HandlerMoves, Zenon DEF Moves
    <3> QED
      BY <1>1, <2>1, <3>1, HandlerForeign, ZenonT(60)
  <2>2. ASSUME NEW q \in Procs, CallStep(q) PROVE ForeignSame
    BY <2>0, <2>2, CallKeeps, Zenon DEF ForeignSame, groutVars
  <2>3. ASSUME NEW q \in Procs, ReplyLost(q) PROVE ForeignSame
    <3>1. p = q
      BY <1>1, <2>0, <2>3, Zenon DEF ReplyLost, BridgeUnheard, GatewayUnheard, PortUnheard,
        DelUnheard, FlushUnheard, BridgeDelUnheard, ReapUnheard, Goto, Fail
    <3> QED
      BY <1>1, <2>3, <3>1, ReplyLostForeign
  <2>4. CASE GroutCrash \/ GroutRestart \/ ForeignStep \/ (\E a \in Attachments : NetdevDrift(a))
             \/ UNCHANGED vars
    BY <1>1, <2>4, ZenonT(60) DEF GroutCrash, GroutRestart, ForeignStep, NetdevDrift, vars
  <2> QED
    BY <1>1, <2>1, <2>2, <2>3, <2>4, Zenon DEF Next, Step, Environment, HandlerStep, CallStep
<1>2. IntactInv /\ [Next]_vars =>
        [(\E p \in Procs : pc'[p] # pc[p] /\ req[p].verb \in {"DEL", "GC"})
           => \A i \in Ids : iface[i].owner = "other" => iface'[i] = iface[i]]_vars
  BY <1>1 DEF ForeignSame
<1> QED
  BY <1>2, InitIntact, NextIntact, PTL DEF Spec, ForeignUntouched
=============================================================================
