------------------------ MODULE NoEmptyBridge_proofs ------------------------
(***************************************************************************)
(* The plugin leaves no bridge without a port behind.  HandleAdd creates   *)
(* the bridge before the port and nothing on its error paths removes it    *)
(* again, HandleDel and HandleGC remove it after the last port.  So a      *)
(* bridge without a port must be in the hands of a handler that gives it a *)
(* port or removes it, which is what the strengthening says.               *)
(***************************************************************************)
EXTENDS NoLeak_proofs

\* Every request that grout gets to see is carried out, no reply is lost, the pod
\* side of a port can be set up and no handler is killed.
RequestsServed ==
  FaultKinds \intersect {"kill", "lost", "list", "add", "addr", "mkdir", "move", "conf", "del",
                         "flush"} = {}

\* Nobody else puts interfaces into a bridge: such a bridge is not empty for the
\* DEL of the last port, and nobody comes back to it.
BridgesUnshared == \A f \in Foreign : ~f.joins

\* The names that interfaces can have.
UsedNames ==
  {PortName[a] : a \in Attachments} \union {Bridge[n] : n \in Networks}
    \union {f.name : f \in Foreign}

\* grout has an id for each of them: ids that all have names of their own leave
\* no name over.  Of finite sets it says that Ids is not the smaller one.
EnoughIds ==
  \A f \in [Ids -> UsedNames] :
    (\A i, j \in Ids : f[i] = f[j] => i = j) => \A n \in UsedNames : \E i \in Ids : f[i] = n

Tidy == RequestsServed /\ BridgesUnshared /\ EnoughIds

\* Bridge b is one that the plugin created.
Own(b) == IsBridge(b) /\ iface[b].owner = "cni"

\* p is about to add a port to bridge b, or to look whether b is empty.
Minds(p, b) ==
  /\ conn[p] = "open" /\ br[p] = b
  /\ \/ pc[p] \in {"a_addr", "a_port", "d_sock", "b_list", "b_flush4", "b_flush6", "b_del"}
     \/ pc[p] \in {"g_reap", "g_sock"} /\ port[p] # 0

Attended == \A b \in Ids : Own(b) => Members(b) # {} \/ \E p \in Procs : Minds(p, b)

\* The interface table: names are known and unique, and only ports of the plugin
\* have a domain.
TableOK ==
  /\ \A i \in Ids : Exists(i) => iface[i].name \in UsedNames
  /\ \A i, j \in Ids : Exists(i) /\ Exists(j) /\ iface[i].name = iface[j].name => i = j
  /\ \A i \in Ids : iface[i].type # "port" \/ iface[i].owner = "other" => iface[i].domain = 0

\* What a handler relies on: the netdev is where it put it, the ports it deletes
\* are those of the bridge it will look at, and that bridge has been flushed.
Keeping(p) ==
  conn[p] = "open" =>
    /\ pc[p] = "a_move" => link[MyName(p)] = "host"
    /\ pc[p] = "a_conf" => link[MyName(p)] = "pod"
    /\ pc[p] # "a_rollback"
    /\ pc[p] = "d_del" => iface[port[p]].domain = br[p]
    /\ pc[p] = "g_reap" => \A t \in todo[p] : iface[t[1]].domain = br[p]
    /\ pc[p] = "g_sock" => \A t \in todo[p] : t[1] # port[p] => iface[t[1]].domain = br[p]
    /\ pc[p] \in {"b_flush4", "b_flush6", "b_del"} => br[p] \in Ids /\ iface[br[p]].domain = 0
    /\ pc[p] = "b_flush6" /\ Own(br[p]) => iface[br[p]].addrs \subseteq V6
    /\ pc[p] = "b_del" /\ Own(br[p]) => iface[br[p]].addrs = {}

EmptyInv ==
  /\ LeakInv /\ Tidy
  /\ TableOK /\ Attended
  /\ \A p \in Procs : Keeping(p)

\* At first there is no bridge.
LEMMA InitEmpty == Tidy /\ Init => EmptyInv
<1> SUFFICES ASSUME Tidy, Init PROVE EmptyInv
  OBVIOUS
<1>1. \A i \in Ids : iface[i] = NoIface
  BY DEF Init, GroutInit
<1>2. TableOK /\ Attended
  BY <1>1 DEF TableOK, Attended, Own, IsBridge, Exists, NoIface
<1>3. \A p \in Procs : Keeping(p)
  BY DEF Init, Keeping
<1>4. PortsDeleted
  BY DEF Tidy, RequestsServed, PortsDeleted
<1> QED
  BY <1>2, <1>3, <1>4, InitLeak DEF EmptyInv

\* The parts of the invariant, and the types, that the lemmas below use.
LEMMA EmptyFacts ==
  ASSUME EmptyInv
  PROVE  /\ LeakInv /\ CoreInv /\ GroutTypeOK /\ PortsOK /\ TableOK /\ Attended
         /\ RequestsServed /\ BridgesUnshared /\ EnoughIds
         /\ pc \in [Procs -> Labels]
         /\ br \in [Procs -> Ids \union {0}] /\ port \in [Procs -> Ids \union {0}]
         /\ todo \in [Procs -> SUBSET (Ids \X PortNames)]
         /\ conn \in [Procs -> {"closed", "open", "dead"}]
         /\ \A p \in Procs : /\ req[p].verb \in VerbsAt(pc[p]) /\ Learned(p)
                             /\ Keeping(p) /\ Rolling(p)
<1>1. LeakInv /\ RepliesHeard
  BY DEF EmptyInv, Tidy, RequestsServed, RepliesHeard
<1>2. \A p \in Procs : Rolling(p)
  BY <1>1 DEF LeakInv
<1> QED
  BY <1>1, <1>2, LeakFacts DEF EmptyInv, Tidy

-----------------------------------------------------------------------------
\* There is an id for one more interface: the ids in use have as many names.
LEMMA IdFree ==
  ASSUME EnoughIds, TableOK, NEW n \in UsedNames, Named(n) = {}
  PROVE  \E i \in Ids : ~Exists(i)
<1> SUFFICES ASSUME \A i \in Ids : Exists(i) PROVE FALSE
  OBVIOUS
<1> DEFINE f == [i \in Ids |-> iface[i].name]
<1>1. f \in [Ids -> UsedNames] /\ \A i, j \in Ids : f[i] = f[j] => i = j
  BY DEF TableOK
<1>2. PICK i \in Ids : f[i] = n
  <2> HIDE DEF f
  <2> QED
    BY <1>1 DEF EnoughIds
<1> QED
  BY <1>2 DEF Named

\* The creation of a bridge,
LEMMA AddBridgeTable ==
  ASSUME GroutTypeOK, TableOK, NEW i \in Ids, NEW n \in UsedNames, AddBridge(i, n)
  PROVE  /\ TableOK'
         /\ \A b \in Ids : b # i => (Own(b)' => Own(b)) /\ Members(b) \subseteq Members(b)'
<1>1. /\ \A j \in Ids : j # i => iface'[j] = iface[j]
      /\ iface'[i] = NewIface(n, "bridge", 0, {}, "cni")
      /\ ~Exists(i) /\ Named(n) = {}
  BY DEF AddBridge, CanAdd, GroutTypeOK
<1>2. TableOK'
  BY <1>1 DEF TableOK, Exists, NewIface, Named
<1>3. iface[i].domain = 0 /\ 0 \notin Ids
  BY <1>1, GroutAssumption DEF TableOK, Exists
<1> QED
  BY <1>1, <1>2, <1>3 DEF Own, IsBridge, Members

\* of a port,
LEMMA AddPortTable ==
  ASSUME GroutTypeOK, TableOK, NEW i \in Ids, NEW n \in UsedNames, NEW d, NEW v,
         AddPort(i, n, d, v)
  PROVE  /\ TableOK'
         /\ \A b \in Ids : /\ Own(b)' => Own(b)
                           /\ Members(b) \subseteq Members(b)'
                           /\ b = d => Members(b)' # {}
<1>1. /\ \A j \in Ids : j # i => iface'[j] = iface[j]
      /\ iface'[i] = NewIface(n, "port", d, {}, "cni")
      /\ ~Exists(i) /\ Named(n) = {}
  BY DEF AddPort, CanAdd, GroutTypeOK
<1>2. TableOK'
  BY <1>1 DEF TableOK, Exists, NewIface, Named
<1>3. iface[i].domain = 0 /\ 0 \notin Ids
  BY <1>1, GroutAssumption DEF TableOK, Exists
<1>4. iface'[i].type = "port" /\ iface'[i].domain = d
  BY <1>1 DEF NewIface
<1> QED
  BY <1>1, <1>2, <1>3, <1>4 DEF Own, IsBridge, Members

\* a delete, which takes a member from one domain at most,
LEMMA DelTable ==
  ASSUME GroutTypeOK, TableOK, NEW i, DelIface(i)
  PROVE  /\ TableOK'
         /\ \A b \in Ids : /\ Own(b)' => Own(b) /\ b # i
                           /\ b # iface[i].domain => Members(b) \subseteq Members(b)'
<1>1. /\ \A j \in Ids : j # i => iface'[j] = iface[j]
      /\ i \in Ids /\ iface'[i] = NoIface
  BY DEF DelIface, CanDel, Exists, GroutTypeOK
<1>2. TableOK'
  BY <1>1 DEF TableOK, Exists, NoIface
<1>3. iface'[i].type = "undef"
  BY <1>1 DEF NoIface
<1> QED
  BY <1>1, <1>2, <1>3 DEF Own, IsBridge, Members

\* a change of addresses,
LEMMA SetAddrsTable ==
  ASSUME GroutTypeOK, TableOK, NEW i, NEW as, SetAddrs(i, as)
  PROVE  /\ TableOK' /\ i \in Ids /\ iface'[i].addrs = as /\ iface'[i].domain = iface[i].domain
         /\ \A b \in Ids : (Own(b)' <=> Own(b)) /\ Members(b)' = Members(b)
<1>1. /\ \A j \in Ids : /\ iface'[j].name = iface[j].name /\ iface'[j].owner = iface[j].owner
                        /\ iface'[j].domain = iface[j].domain /\ iface'[j].type = iface[j].type
      /\ i \in Ids /\ iface'[i].addrs = as
  BY DEF GroutTypeOK, SetAddrs, Exists, NewIface
<1>2. TableOK'
  BY <1>1 DEF TableOK, Exists
<1> QED
  BY <1>1, <1>2 DEF Own, IsBridge, Members

\* and a step that leaves the table alone.
LEMMA SameTable ==
  ASSUME TableOK, UNCHANGED iface
  PROVE  /\ TableOK'
         /\ \A b \in Ids : (Own(b)' <=> Own(b)) /\ Members(b)' = Members(b)
BY DEF TableOK, Exists, Own, IsBridge, Members

\* The names an ADD uses are known.
LEMMA CallNames ==
  ASSUME CoreInv, NEW p \in Procs, req[p].verb = "ADD"
  PROVE  MyName(p) \in UsedNames /\ Bridge[req[p].net] \in UsedNames /\ MyName(p) \in PortNames
BY CallFacts DEF UsedNames, MyName

\* No handler step disturbs the table.
LEMMA HandlerTable ==
  ASSUME EmptyInv, NEW p \in Procs, HandlerStep(p)
  PROVE  TableOK'
<1>0. GroutTypeOK /\ TableOK /\ CoreInv /\ req[p].verb \in VerbsAt(pc[p])
  BY EmptyFacts
<1>1. CASE UNCHANGED iface
  BY <1>0, <1>1, SameTable
<1>2. CASE EnsureBridgeCreate(p)
  <2>1. Bridge[req[p].net] \in UsedNames
    BY <1>0, <1>2, CallNames DEF EnsureBridgeCreate, VerbsAt
  <2> QED
    BY <1>0, <1>1, <1>2, <2>1, AddBridgeTable, Zenon DEF EnsureBridgeCreate, Refused
<1>3. CASE AddPodPort(p)
  <2>1. MyName(p) \in UsedNames
    BY <1>0, <1>3, CallNames DEF AddPodPort, VerbsAt
  <2> QED
    BY <1>0, <1>1, <1>3, <2>1, AddPortTable, Zenon DEF AddPodPort, Refused
<1>4. CASE AddGateway(p) \/ BridgeGCFlush4(p) \/ BridgeGCFlush6(p)
  BY <1>0, <1>1, <1>4, SetAddrsTable, Zenon DEF AddGateway, BridgeGCFlush4, BridgeGCFlush6, Refused
<1>5. CASE cleanupAfterAddFailure(p) \/ DelPort(p) \/ BridgeGCDel(p) \/ GCReap(p)
  BY <1>0, <1>1, <1>5, DelTable, Zenon
  DEF cleanupAfterAddFailure, DelPort, BridgeGCDel, GCReap, TryDel, Refused
<1>6. CASE LooksOnly(p)
  BY <1>1, <1>6, LooksOnlyKeeps, Zenon
<1> QED
  BY <1>2, <1>3, <1>4, <1>5, <1>6, Zenon
  DEF LooksOnly, HandlerStep, HandleAdd, HandleDel, gcBridgeIfEmpty, HandleGC

-----------------------------------------------------------------------------
\* Where a process relies on nothing.
LEMMA NothingKept ==
  ASSUME NEW p \in Procs,
         pc'[p] \notin {"a_move", "a_conf", "a_rollback", "d_del", "b_flush4", "b_flush6", "b_del",
                       "g_reap", "g_sock"}
  PROVE  Keeping(p)'
BY DEF Keeping

\* A handler relies on what it has just done or seen.
LEMMA HandlerKeeping ==
  ASSUME EmptyInv, NEW p \in Procs, HandlerStep(p)
  PROVE  Keeping(p)'
<1>0. /\ CoreInv /\ GroutTypeOK /\ TableOK /\ Learned(p) /\ Keeping(p) /\ RequestsServed
      /\ req[p].verb \in VerbsAt(pc[p])
      /\ pc \in [Procs -> Labels] /\ port \in [Procs -> Ids \union {0}]
      /\ br \in [Procs -> Ids \union {0}]
      /\ todo \in [Procs -> SUBSET (Ids \X PortNames)]
      /\ conn \in [Procs -> {"closed", "open", "dead"}]
  BY EmptyFacts
<1>m. Moves(p) /\ UNCHANGED <<conn, req>>
  BY <1>0, HandlerMoves DEF Moves, procVars
<1> USE <1>0 DEF Goto, Fail
<1>1. CASE AddIpam(p) \/ EnsureBridgeList(p) \/ EnsureBridgeCreate(p) \/ EnsureBridgeRelist(p)
           \/ AddGateway(p)
  <2>1. pc'[p] \in {"a_list", "a_mkbr", "a_relist", "a_addr", "a_port", "ipamdel", "ret"}
    BY <1>1, Zenon DEF AddIpam, EnsureBridgeList, EnsureBridgeCreate, EnsureBridgeRelist, AddGateway,
      BridgeReady, AfterGateway
  <2> QED
    BY <2>1, NothingKept
<1>2. CASE AddPodPort(p)
  <2>1. ASSUME NEW i \in Ids, AddPort(i, MyName(p), br[p], Virtio(p)), pc'[p] = "a_move", ~Virtio(p)
        PROVE  Keeping(p)'
    <3>1. MyName(p) \in PortNames
      BY <1>2, CallFacts DEF AddPodPort, VerbsAt
    <3>2. link'[MyName(p)] = "host" /\ UNCHANGED MyName(p)
      BY <1>m, <2>1, <3>1, Zenon DEF AddPort, GroutTypeOK, MyName
    <3> QED
      BY <2>1, <3>2, Zenon DEF Keeping
  <2>2. CASE pc'[p] \in {"ipamdel", "ret"}
    BY <2>2, NothingKept
  <2> QED
    BY <1>2, <2>1, <2>2, Zenon DEF AddPodPort
<1>3. CASE moveLinkToNamespace(p)
  <2>1. CASE conn[p] = "open"
    <3>1. /\ link[MyName(p)] = "host" /\ link' = [link EXCEPT ![MyName(p)] = "pod"]
          /\ pc'[p] = "a_conf"
      BY <1>3, <2>1 DEF moveLinkToNamespace, NetdevStep, Keeping, Fault, RequestsServed
    <3>2. MyName(p) \in PortNames
      BY <1>3, CallFacts, Zenon DEF moveLinkToNamespace, VerbsAt
    <3>3. link'[MyName(p)] = "pod" /\ UNCHANGED MyName(p)
      BY <1>m, <3>1, <3>2, ZenonT(60) DEF GroutTypeOK, MyName
    <3> QED
      BY <3>1, <3>3, Zenon DEF Keeping
  <2>2. CASE conn[p] # "open"
    BY <1>m, <2>2 DEF Keeping
  <2> QED
    BY <2>1, <2>2, Zenon
<1>3a. CASE configurePodInterface(p)
  <2>1. CASE conn[p] = "open"
    <3>1. pc'[p] = "ret"
      BY <1>3a, <2>1, Zenon DEF configurePodInterface, NetdevStep, Keeping, Fault, RequestsServed
    <3> QED
      BY <3>1, NothingKept, Zenon
  <2>2. CASE conn[p] # "open"
    BY <1>m, <2>2, Zenon DEF Keeping
  <2> QED
    BY <2>1, <2>2
<1>4. CASE cleanupAfterAddFailure(p) \/ ipamDel(p) \/ DelPort(p) \/ DelSocket(p) \/ HandleCheck(p)
           \/ gcIPAM(p) \/ BridgeGCDel(p)
  <2>1. pc'[p] \in {"ipamdel", "ret", "d_sock", "b_list", "c_pod", "g_ipam"}
    BY <1>4, Zenon DEF cleanupAfterAddFailure, ipamDel, DelPort, DelSocket, HandleCheck, CheckList,
      CheckPodSide, gcIPAM, BridgeGCDel, AfterBridgeGC
  <2> QED
    BY <2>1, NothingKept
<1>5. CASE DelList(p)
  <2>1. ASSUME NEW i, port' = [port EXCEPT ![p] = i], br' = [br EXCEPT ![p] = iface[i].domain],
               pc'[p] = "d_del", UNCHANGED iface
        PROVE  Keeping(p)'
    BY <2>1, Zenon DEF Keeping
  <2>2. CASE pc'[p] \in {"ipamdel", "ret"}
    BY <2>2, NothingKept, Zenon
  <2> QED
    BY <1>5, <2>1, <2>2, Zenon DEF DelList, Listed
<1>6. CASE BridgeGCList(p)
  <2>1. CASE UNCHANGED iface /\ BridgeEmpty(br[p]) /\ pc'[p] = "b_flush4"
    <3>1. br[p] \in Ids /\ iface[br[p]].domain = 0
      BY <2>1 DEF BridgeEmpty, IsBridge, TableOK
    <3>2. UNCHANGED br
      BY <1>6, Zenon DEF BridgeGCList, locals
    <3> QED
      BY <2>1, <3>1, <3>2, ZenonT(60) DEF Keeping
  <2>2. CASE pc'[p] \in {"ipamdel", "g_ipam"}
    BY <2>2, NothingKept, Zenon
  <2> QED
    BY <1>6, <2>1, <2>2, ZenonT(60) DEF BridgeGCList, AfterBridgeGC, Listed
<1>7. CASE BridgeGCFlush4(p)
  <2>0. pc[p] = "b_flush4" /\ UNCHANGED br
    BY <1>7 DEF BridgeGCFlush4, locals
  <2>1. CASE SetAddrs(br[p], iface[br[p]].addrs \intersect V6) /\ pc'[p] = "b_flush6"
    <3>1. /\ iface'[br[p]].addrs = iface[br[p]].addrs \intersect V6
          /\ iface'[br[p]].domain = iface[br[p]].domain
      BY <2>1, SetAddrsTable, Zenon
    <3> QED
      BY <1>m, <2>0, <2>1, <3>1, Zenon DEF Keeping
  <2>2. CASE UNCHANGED iface /\ conn[p] = "open" /\ ~Exists(br[p]) /\ pc'[p] = "b_del"
    BY <1>m, <2>0, <2>2, Zenon DEF Keeping, Own, IsBridge, Exists
  <2>3. CASE conn[p] # "open"
    BY <1>m, <2>3, Zenon DEF Keeping
  <2> QED
    BY <1>7, <2>1, <2>2, <2>3, Zenon DEF BridgeGCFlush4, Refused, Fault, RequestsServed
<1>7a. CASE BridgeGCFlush6(p)
  <2>0. pc[p] = "b_flush6" /\ UNCHANGED br /\ pc'[p] = "b_del"
    BY <1>7a, Zenon DEF BridgeGCFlush6, locals
  <2>1. CASE SetAddrs(br[p], iface[br[p]].addrs \ V6)
    <3>1. /\ iface'[br[p]].addrs = iface[br[p]].addrs \ V6
          /\ iface'[br[p]].domain = iface[br[p]].domain
          /\ br[p] \in Ids /\ (Own(br[p])' <=> Own(br[p]))
      BY <2>0, <2>1, SetAddrsTable DEF Own, IsBridge
    <3>2. Own(br[p])' /\ conn[p] = "open" => iface'[br[p]].addrs = {}
      BY <2>0, <3>1, Zenon DEF Keeping
    <3>3. conn[p] = "open" => br[p] \in Ids /\ iface'[br[p]].domain = 0
      BY <2>0, <3>1, Zenon DEF Keeping
    <3> QED
      BY <1>m, <2>0, <3>2, <3>3, ZenonT(60) DEF Keeping, Own, IsBridge
  <2>2. CASE UNCHANGED iface /\ conn[p] = "open" /\ ~Exists(br[p])
    BY <1>m, <2>0, <2>2 DEF Keeping, Own, IsBridge, Exists
  <2>3. CASE conn[p] # "open"
    BY <1>m, <2>3, Zenon DEF Keeping
  <2> QED
    BY <1>7a, <2>1, <2>2, <2>3, Zenon DEF BridgeGCFlush6, Refused, Fault, RequestsServed
<1>8. CASE GCList(p)
  <2>1. ASSUME NEW b, todo' = [todo EXCEPT ![p] = StalePorts(b, req[p].valid)], UNCHANGED iface,
               br' = [br EXCEPT ![p] = b], pc'[p] \in {"g_reap", "g_ipam"}
        PROVE  Keeping(p)'
    BY <2>1, Zenon DEF Keeping, StalePorts
  <2>2. CASE pc'[p] \in {"g_ipam", "ret"}
    BY <2>2, NothingKept, Zenon
  <2> QED
    BY <1>8, <2>1, <2>2, Zenon DEF GCList, AfterReap, Listed
<1>9. CASE GCReap(p)
  <2>1. PICK t \in todo[p] :
          \/ /\ Served(p) /\ DelIface(t[1])
             /\ port' = [port EXCEPT ![p] = t[1]]
             /\ pc'[p] = "g_sock"
             /\ UNCHANGED todo
          \/ /\ UNCHANGED <<iface, port>>
             /\ todo' = [todo EXCEPT ![p] = todo[p] \ {t}]
             /\ pc'[p] \in {"g_reap", "b_list", "g_ipam"}
    BY <1>9, Zenon DEF GCReap, Refused, AfterReap
  <2>0. pc[p] = "g_reap" /\ UNCHANGED br
    BY <1>9, ZenonT(60) DEF GCReap
  <2>2. CASE Served(p) /\ DelIface(t[1]) /\ UNCHANGED todo /\ pc'[p] = "g_sock"
    <3>1. \A j \in Ids : j # t[1] => iface'[j] = iface[j]
      BY <2>2, Zenon DEF DelIface, GroutTypeOK
    <3>2. port'[p] = t[1]
      BY <2>1, <2>2, Zenon
    <3>3. conn[p] = "open" /\ \A u \in todo[p] : u[1] \in Ids
      BY <2>2, StaleIds, Zenon DEF Served
    <3> QED
      BY <1>m, <2>0, <2>2, <3>1, <3>2, <3>3, ZenonT(60) DEF Keeping
  <2>3. CASE UNCHANGED iface /\ todo' = [todo EXCEPT ![p] = todo[p] \ {t}]
             /\ pc'[p] \in {"g_reap", "b_list", "g_ipam"}
    BY <1>m, <2>0, <2>3, ZenonT(60) DEF Keeping
  <2> QED
    BY <2>1, <2>2, <2>3, Zenon
<1>10. CASE GCSocket(p)
  <2>1. PICK t \in todo[p] :
          /\ t[1] = port[p]
          /\ UNCHANGED iface
          /\ todo' = [todo EXCEPT ![p] = todo[p] \ {t}]
          /\ pc'[p] \in {"g_reap", "b_list"}
    BY <1>10, Zenon DEF GCSocket, removeVhostSocket, AfterReap
  <2>2. /\ pc[p] = "g_sock" /\ UNCHANGED br /\ \A u \in todo[p] : u[1] = port[p] => u = t
    BY <1>10, <2>1, Zenon DEF GCSocket, Learned
  <2>3. todo'[p] = todo[p] \ {t}
    BY <2>1
  <2> QED
    BY <1>m, <2>1, <2>2, <2>3 DEF Keeping
<1> QED
  BY <1>1, <1>2, <1>3, <1>3a, <1>4, <1>5, <1>6, <1>7, <1>7a, <1>8, <1>9, <1>10, ZenonT(60)
  DEF HandlerStep, HandleAdd, HandleDel, gcBridgeIfEmpty, HandleGC

-----------------------------------------------------------------------------
\* Where a process minds a bridge.
MindLabels ==
  {"a_addr", "a_port", "d_sock", "b_list", "b_flush4", "b_flush6", "b_del", "g_reap", "g_sock"}

\* A handler that leaves a bridge without a port goes on to look after it: every
\* bridge of the plugin still has a member, or is the one of this handler.
LEMMA HandlerAttended ==
  ASSUME EmptyInv, NEW p \in Procs, HandlerStep(p)
  PROVE  Attended'
<1>0. /\ CoreInv /\ GroutTypeOK /\ TableOK /\ Attended /\ Keeping(p) /\ Rolling(p) /\ RequestsServed
      /\ EnoughIds /\ req[p].verb \in VerbsAt(pc[p])
      /\ pc \in [Procs -> Labels] /\ port \in [Procs -> Ids \union {0}]
      /\ br \in [Procs -> Ids \union {0}]
      /\ todo \in [Procs -> SUBSET (Ids \X PortNames)]
  BY EmptyFacts, Zenon
<1>m. Moves(p) /\ UNCHANGED <<conn, req>>
  BY <1>0, HandlerMoves DEF Moves, procVars
<1>a. ASSUME NEW b \in Ids, Own(b), Members(b) = {} PROVE Minds(p, b)
  <2>1. PICK q \in Procs : Minds(q, b)
    BY <1>0, <1>a, Zenon DEF Attended
  <2>2. pc[q] \in Critical
    BY <2>1, Zenon DEF Minds, Critical
  <2>3. q = p
    BY <1>0, <1>m, <2>2 DEF CoreInv, LockOwnership, Moves
  <2> QED
    BY <2>1, <2>3
<1>z. 0 \notin Ids
  BY GroutAssumption
<1> SUFFICES ASSUME NEW b \in Ids, Own(b)', Members(b)' = {} PROVE Minds(p, b)'
  BY DEF Attended
\* Nothing has become of the table: p minded b before.
<1>s. ASSUME UNCHANGED iface PROVE Minds(p, b) /\ Own(b) /\ Members(b) = {}
  BY <1>0, <1>a, <1>s, SameTable, Zenon
<1>t. ASSUME UNCHANGED iface, pc[p] \notin MindLabels PROVE FALSE
  BY <1>s, <1>t DEF Minds, MindLabels
<1> USE <1>0 DEF Goto, Fail
<1>1. CASE AddIpam(p) \/ EnsureBridgeList(p) \/ EnsureBridgeRelist(p) \/ moveLinkToNamespace(p)
           \/ configurePodInterface(p) \/ ipamDel(p) \/ DelList(p) \/ HandleCheck(p) \/ GCList(p)
           \/ gcIPAM(p)
  <2>1. LooksOnly(p)
    BY <1>1 DEF LooksOnly
  <2>2. pc[p] \notin MindLabels
    BY <1>1, Zenon DEF AddIpam, EnsureBridgeList, EnsureBridgeRelist, moveLinkToNamespace,
      configurePodInterface, ipamDel, DelList, HandleCheck, CheckList, CheckPodSide, GCList, gcIPAM,
      MindLabels
  <2> QED
    BY <1>t, <2>1, <2>2, LooksOnlyKeeps, ZenonT(60)
<1>2. CASE EnsureBridgeCreate(p)
  <2>0. pc[p] = "a_mkbr"
    BY <1>2 DEF EnsureBridgeCreate
  <2>1. ASSUME NEW i \in Ids, Served(p), AddBridge(i, Bridge[req[p].net]), BridgeReady(p, i)
        PROVE  Minds(p, b)'
    <3>1. Bridge[req[p].net] \in UsedNames
      BY <2>0, CallNames, Zenon DEF VerbsAt
    <3>2. CASE b # i
      <4>1. Own(b) /\ Members(b) = {}
        BY <2>1, <3>1, <3>2, AddBridgeTable
      <4> QED
        BY <1>a, <2>0, <4>1, ZenonT(60) DEF Minds
    <3>3. CASE b = i
      BY <1>m, <2>1, <3>3, Zenon DEF Minds, BridgeReady, AfterGateway, Served
    <3> QED
      BY <3>2, <3>3, Zenon
  <2>2. CASE UNCHANGED iface
    BY <1>t, <2>0, <2>2, Zenon DEF MindLabels
  <2> QED
    BY <1>2, <2>1, <2>2, Zenon DEF EnsureBridgeCreate, Refused
<1>3. CASE AddGateway(p)
  <2>0. UNCHANGED br
    BY <1>3 DEF AddGateway
  <2>1. ASSUME NEW as, SetAddrs(br[p], as), pc'[p] \in {"a_addr", "a_port"} PROVE Minds(p, b)'
    <3>1. Minds(p, b)
      BY <1>a, <2>1, SetAddrsTable, Zenon
    <3> QED
      BY <1>m, <2>0, <2>1, <3>1, Zenon DEF Minds
  <2>2. CASE Refused(p, "addr", ~Exists(br[p]))
    <3>1. conn[p] = "open" /\ br[p] = b /\ Own(b)
      BY <1>s, <2>2, Zenon DEF Refused, Minds
    <3> QED
      BY <2>2, <3>1, Zenon DEF Refused, Fault, RequestsServed, Own, IsBridge, Exists
  <2> QED
    BY <1>3, <2>1, <2>2, ZenonT(60) DEF AddGateway, AfterGateway
<1>4. CASE AddPodPort(p)
  <2>0. pc[p] = "a_port" /\ MyName(p) \in UsedNames /\ Named(MyName(p)) = {}
    BY <1>4, CallNames, Zenon DEF AddPodPort, VerbsAt, Rolling
  <2>1. ASSUME NEW i \in Ids, AddPort(i, MyName(p), br[p], Virtio(p)) PROVE FALSE
    <3>1. Own(b) /\ Members(b) = {} /\ b # br[p]
      BY <2>0, <2>1, AddPortTable
    <3> QED
      BY <1>a, <3>1, Zenon DEF Minds
  <2>2. CASE Refused(p, "add", \A i \in Ids : ~CanAdd(i, MyName(p), br[p]))
    <3>1. conn[p] = "open" /\ br[p] = b /\ Own(b)
      BY <1>s, <2>2, Zenon DEF Refused, Minds
    <3>2. \A i \in Ids : ~CanAdd(i, MyName(p), br[p])
      BY <2>2, <3>1, Zenon DEF Refused, Fault, RequestsServed
    <3>3. \E i \in Ids : ~Exists(i)
      BY <2>0, IdFree
    <3> QED
      BY <2>0, <3>1, <3>2, <3>3, Zenon DEF CanAdd, Own
  <2> QED
    BY <1>4, <2>1, <2>2, Zenon DEF AddPodPort, Fault, RequestsServed
<1>5. CASE cleanupAfterAddFailure(p)
  <2>0. pc[p] = "a_rollback" /\ conn[p] # "open"
    BY <1>5, Zenon DEF cleanupAfterAddFailure, Keeping
  <2> QED
    BY <1>5, <1>t, <2>0, Zenon DEF cleanupAfterAddFailure, TryDel, Served, Refused, MindLabels
<1>6. CASE DelPort(p)
  <2>0. pc[p] = "d_del" /\ pc'[p] = "d_sock" /\ UNCHANGED br
    BY <1>6 DEF DelPort, locals
  <2>1. CASE Served(p) /\ DelIface(port[p])
    <3>1. conn[p] = "open" /\ iface[port[p]].domain = br[p]
      BY <2>0, <2>1, Zenon DEF Served, Keeping
    <3>2. CASE b # br[p]
      <4>1. Own(b) /\ Members(b) = {}
        BY <2>1, <3>1, <3>2, DelTable, ZenonT(60)
      <4> QED
        BY <1>a, <2>0, <4>1, ZenonT(60) DEF Minds
    <3>3. CASE b = br[p]
      BY <1>m, <2>0, <3>1, <3>3, Zenon DEF Minds
    <3> QED
      BY <3>2, <3>3, Zenon
  <2>2. CASE UNCHANGED iface
    BY <1>t, <2>0, <2>2, Zenon DEF MindLabels
  <2> QED
    BY <1>6, <2>1, <2>2, Zenon DEF DelPort, TryDel, Refused
<1>7. CASE DelSocket(p)
  <2>1. UNCHANGED <<iface, br>> /\ pc'[p] = IF br[p] # 0 THEN "b_list" ELSE "ipamdel"
    BY <1>7 DEF DelSocket, removeVhostSocket, locals
  <2>2. Minds(p, b)
    BY <1>s, <2>1, Zenon
  <2> QED
    BY <1>m, <1>z, <2>1, <2>2, Zenon DEF Minds
<1>8. CASE BridgeGCList(p)
  <2>0. UNCHANGED <<iface, br>>
    BY <1>8, Zenon DEF BridgeGCList, Listed, Refused, locals
  <2>1. conn[p] = "open" /\ br[p] = b /\ Own(b) /\ Members(b) = {}
    BY <1>s, <2>0, Zenon DEF Minds
  <2>2. BridgeEmpty(br[p])
    BY <2>1, Zenon DEF BridgeEmpty, Own
  <2>3. pc'[p] = "b_flush4"
    BY <1>8, <2>1, <2>2, ZenonT(60) DEF BridgeGCList, Refused, Fault, RequestsServed
  <2> QED
    BY <1>m, <2>0, <2>1, <2>3, Zenon DEF Minds
<1>9. CASE BridgeGCFlush4(p) \/ BridgeGCFlush6(p)
  <2>0. UNCHANGED br /\ pc'[p] \in {"b_flush6", "b_del"}
    BY <1>9, Zenon DEF BridgeGCFlush4, BridgeGCFlush6, locals
  <2>1. Minds(p, b)
    <3>1. ASSUME NEW as, SetAddrs(br[p], as) PROVE Minds(p, b)
      BY <1>a, <3>1, SetAddrsTable, Zenon
    <3> QED
      BY <1>9, <1>s, <3>1, Zenon DEF BridgeGCFlush4, BridgeGCFlush6, Refused
  <2> QED
    BY <1>m, <2>0, <2>1 DEF Minds
<1>10. CASE BridgeGCDel(p)
  <2>0. pc[p] = "b_del"
    BY <1>10 DEF BridgeGCDel
  <2>1. CASE Served(p) /\ DelIface(br[p])
    <3>1. conn[p] = "open" /\ iface[br[p]].domain = 0
      BY <2>0, <2>1, Zenon DEF Served, Keeping
    <3>2. Own(b) /\ Members(b) = {} /\ b # br[p]
      BY <1>z, <2>1, <3>1, DelTable, Zenon
    <3> QED
      BY <1>a, <3>2, Zenon DEF Minds
  <2>2. CASE Refused(p, "del", ~CanDel(br[p]))
    <3>1. conn[p] = "open" /\ br[p] = b /\ Own(b)
      BY <1>s, <2>2, ZenonT(60) DEF Refused, Minds
    <3>2. CanDel(br[p])
      BY <2>0, <3>1 DEF Keeping, CanDel, Own, IsBridge, Exists
    <3> QED
      BY <2>2, <3>1, <3>2, Zenon DEF Refused, Fault, RequestsServed
  <2> QED
    BY <1>10, <2>1, <2>2, Zenon DEF BridgeGCDel, TryDel
<1>11. CASE GCReap(p)
  <2>0. pc[p] = "g_reap" /\ UNCHANGED br
    BY <1>11 DEF GCReap
  <2>1. ASSUME NEW t \in todo[p], Served(p), DelIface(t[1]), port' = [port EXCEPT ![p] = t[1]],
               pc'[p] = "g_sock"
        PROVE  Minds(p, b)'
    <3>1. conn[p] = "open" /\ iface[t[1]].domain = br[p] /\ t[1] \in Ids
      BY <2>0, <2>1, StaleIds, ZenonT(60) DEF Served, Keeping
    <3>2. b = br[p]
      <4> SUFFICES ASSUME b # br[p] PROVE FALSE
        BY ZenonT(60)
      <4>1. Own(b) /\ Members(b) = {}
        BY <2>1, <3>1, DelTable
      <4> QED
        BY <1>a, <4>1 DEF Minds
    <3>3. port'[p] # 0
      BY <1>z, <2>1, <3>1, Zenon
    <3> QED
      BY <1>m, <2>0, <2>1, <3>1, <3>2, <3>3, ZenonT(60) DEF Minds
  <2>2. ASSUME NEW s, UNCHANGED <<iface, port>>, pc'[p] = AfterReap(s, port[p] # 0)
        PROVE  Minds(p, b)'
    <3>1. Minds(p, b) /\ port[p] # 0
      BY <1>s, <2>0, <2>2, Zenon DEF Minds
    <3> QED
      BY <1>m, <2>0, <2>2, <3>1, Zenon DEF Minds, AfterReap
  <2> QED
    BY <1>11, <2>1, <2>2, Zenon DEF GCReap, Refused
<1>12. CASE GCSocket(p)
  <2>1. pc[p] = "g_sock" /\ UNCHANGED <<iface, br, port>> /\ pc'[p] \in {"g_reap", "b_list"}
    BY <1>12, Zenon DEF GCSocket, removeVhostSocket, AfterReap
  <2>2. Minds(p, b) /\ port[p] # 0
    BY <1>s, <2>1 DEF Minds
  <2> QED
    BY <1>m, <2>1, <2>2 DEF Minds
<1> QED
  BY <1>1, <1>2, <1>3, <1>4, <1>5, <1>6, <1>7, <1>8, <1>9, <1>10, <1>11, <1>12, ZenonT(60)
  DEF HandlerStep, HandleAdd, HandleDel, gcBridgeIfEmpty, HandleGC

-----------------------------------------------------------------------------
\* A handler step keeps the invariant,
LEMMA HandlerEmpty ==
  ASSUME EmptyInv, NEW p \in Procs, HandlerStep(p)
  PROVE  EmptyInv'
<1>0. LeakInv /\ CoreInv /\ Moves(p) /\ Tidy /\ pc \in [Procs -> Labels]
  BY EmptyFacts, HandlerMoves DEF EmptyInv
<1>1. LeakInv' /\ Tidy'
  BY <1>0, HandlerLeak, Zenon DEF Tidy, RequestsServed, BridgesUnshared, EnoughIds, UsedNames
<1>2. ASSUME NEW q \in Procs, q # p PROVE Keeping(q)'
  <2>1. pc'[q] = pc[q] /\ pc[q] \notin Critical
    BY <1>0, <1>2, Zenon DEF CoreInv, LockOwnership, Moves
  <2> QED
    BY <2>1, NothingKept, Zenon DEF Critical
<1> QED
  BY <1>1, <1>2, HandlerTable, HandlerKeeping, HandlerAttended, Zenon DEF EmptyInv

\* and so does a step around the handlers: grout is not asked anything, and a
\* process takes and gives back the lock where it minds no bridge.
LEMMA CallEmpty ==
  ASSUME EmptyInv, NEW p \in Procs, CallStep(p)
  PROVE  EmptyInv'
<1>0. /\ LeakInv /\ CoreInv /\ TableOK /\ Attended /\ Tidy /\ RequestsServed
      /\ UNCHANGED <<groutVars, ipam>> /\ req[p].verb \in VerbsAt(pc[p]) /\ pc \in [Procs -> Labels]
  BY EmptyFacts, CallKeeps DEF EmptyInv
<1>u. UNCHANGED <<iface, link>>
  BY <1>0 DEF groutVars
<1>k. ~Kill(p)
  BY <1>0, Zenon DEF Kill, Fault, RequestsServed
<1>1. LeakInv' /\ Tidy'
  BY <1>0, CallLeak, Zenon DEF Tidy, RequestsServed, BridgesUnshared, EnoughIds, UsedNames
<1>p. /\ pc[p] \in {"dial", "lock", "ret", "exit", "idle"}
      /\ pc'[p] \in {"exit", "lock", "a_ipam", "d_list", "c_list", "g_list", "idle", "dial"}
  BY <1>0, <1>k, CallLabels
<1>2. TableOK' /\ \A b \in Ids : (Own(b)' <=> Own(b)) /\ Members(b)' = Members(b)
  BY <1>0, <1>u, SameTable, Zenon
<1>3. ASSUME NEW q \in Procs, q # p
      PROVE  Keeping(q)' /\ \A b : Minds(q, b)' <=> Minds(q, b)
  <2>1. /\ conn'[q] = conn[q] /\ pc'[q] = pc[q] /\ port'[q] = port[q] /\ br'[q] = br[q]
        /\ todo'[q] = todo[q] /\ req'[q] = req[q]
    BY <1>0, <1>3, CallKeeps
  <2>2. Keeping(q)
    BY EmptyFacts
  <2>3. Keeping(q)'
    BY <1>u, <2>1, <2>2, Zenon DEF Keeping, MyName, Own, IsBridge
  <2> QED
    BY <2>1, <2>3, ZenonT(60) DEF Minds
<1>4. Keeping(p)'
  BY <1>p, NothingKept
<1>5. Attended'
  <2>1. \A b : ~Minds(p, b)
    BY <1>p, Zenon DEF Minds
  <2> QED
    BY <1>0, <1>2, <1>3, <2>1, Zenon DEF Attended
<1> QED
  BY <1>1, <1>2, <1>3, <1>4, <1>5, ZenonT(60) DEF EmptyInv

\* What another user of grout does changes an interface that is in no domain.
LEMMA ForeignTable ==
  ASSUME EmptyInv, ForeignStep
  PROVE  /\ TableOK'
         /\ \A b \in Ids : /\ (Own(b)' <=> Own(b)) /\ Members(b)' = Members(b)
                           /\ Own(b) => iface'[b] = iface[b]
                           /\ iface[b].domain = 0 => iface'[b].domain = 0
<1>0. GroutTypeOK /\ PortsOK /\ TableOK /\ BridgesUnshared /\ 0 \notin Ids
  BY EmptyFacts, GroutAssumption
<1>1. PICK i \in Ids : ForeignDel(i) \/ \E f \in Foreign : ForeignAdd(f, i)
  BY Zenon DEF ForeignStep
<1>2. CASE ForeignDel(i)
  <2>1. /\ \A j \in Ids : j # i => iface'[j] = iface[j]
        /\ iface'[i] = NoIface /\ iface[i].owner = "other" /\ iface[i].domain = 0
    BY <1>0, <1>2, Zenon DEF ForeignDel, GroutTypeOK, TableOK
  <2>2. iface'[i].type = "undef" /\ iface'[i].domain = 0
    BY <2>1 DEF NoIface
  <2>3. TableOK'
    BY <1>0, <2>1, <2>2, ZenonT(60) DEF TableOK, Exists
  <2>4. ASSUME NEW b \in Ids
        PROVE  (Own(b)' <=> Own(b)) /\ (Own(b) => iface'[b] = iface[b])
    BY <2>1, <2>2 DEF Own, IsBridge
  <2>5. ASSUME NEW b \in Ids
        PROVE  Members(b)' = Members(b) /\ (iface[b].domain = 0 => iface'[b].domain = 0)
    BY <1>0, <2>1, <2>2, Zenon DEF Members
  <2> QED
    BY <2>3, <2>4, <2>5, Zenon
<1>3. ASSUME NEW f \in Foreign, ForeignAdd(f, i)
      PROVE  /\ TableOK'
             /\ \A b \in Ids : /\ (Own(b)' <=> Own(b)) /\ Members(b)' = Members(b)
                               /\ Own(b) => iface'[b] = iface[b]
                               /\ iface[b].domain = 0 => iface'[b].domain = 0
  <2>0. ~f.joins /\ f.name \in UsedNames
    BY <1>0 DEF BridgesUnshared, UsedNames
  <2>1. /\ \A j \in Ids : j # i => iface'[j] = iface[j]
        /\ iface'[i] = NewIface(f.name, f.type, 0, f.addrs, "other")
        /\ CanAdd(i, f.name, 0)
    BY <1>0, <1>3, <2>0, Zenon DEF ForeignAdd, GroutTypeOK
  <2>2. /\ iface'[i].name = f.name /\ iface'[i].domain = 0 /\ iface'[i].owner = "other"
        /\ ~Exists(i) /\ Named(f.name) = {}
    BY <2>1, SMTT(60) DEF NewIface, CanAdd
  <2>3. TableOK'
    BY <1>0, <2>0, <2>1, <2>2, SMTT(60) DEF TableOK, Exists, Named
  <2>4. ASSUME NEW b \in Ids
        PROVE  (Own(b)' <=> Own(b)) /\ (Own(b) => iface'[b] = iface[b])
    BY <2>1, <2>2, Zenon DEF Own, IsBridge, Exists
  <2>5. iface[i].domain = 0
    BY <1>0, <2>2, Zenon DEF TableOK, Exists
  <2>6. ASSUME NEW b \in Ids
        PROVE  Members(b)' = Members(b) /\ (iface[b].domain = 0 => iface'[b].domain = 0)
    BY <1>0, <2>1, <2>2, <2>5 DEF Members
  <2> QED
    BY <2>3, <2>4, <2>6
<1> QED
  BY <1>1, <1>2, <1>3, Zenon

\* When grout dies its bridges are gone with it, and the other users of grout
\* leave those of the plugin alone.
LEMMA EnvironmentEmpty ==
  ASSUME EmptyInv,
         GroutCrash \/ GroutRestart \/ ForeignStep \/ \E a \in Attachments : NetdevDrift(a)
  PROVE  EmptyInv'
<1>0. /\ LeakInv /\ CoreInv /\ GroutTypeOK /\ PortsOK /\ TableOK /\ Attended /\ Tidy
      /\ todo \in [Procs -> SUBSET (Ids \X PortNames)]
      /\ conn \in [Procs -> {"closed", "open", "dead"}]
  BY EmptyFacts, Zenon DEF EmptyInv
<1>1. LeakInv' /\ Tidy'
  BY <1>0, EnvironmentLeak, Zenon DEF Tidy, RequestsServed, BridgesUnshared, EnoughIds, UsedNames
<1>2. CASE GroutCrash
  <2>1. \A j \in Ids : iface'[j].type = "undef" /\ iface'[j].domain = 0
    BY <1>2, Zenon DEF GroutCrash, Crash, NoIface
  <2>2. TableOK' /\ Attended'
    BY <2>1 DEF TableOK, Attended, Own, IsBridge, Exists
  <2>3. ASSUME NEW q \in Procs PROVE Keeping(q)'
    <3>1. conn'[q] # "open"
      BY <1>0, <1>2, Zenon DEF GroutCrash
    <3> QED
      BY <3>1, Zenon DEF Keeping
  <2> QED
    BY <1>1, <2>2, <2>3, Zenon DEF EmptyInv
<1>3. CASE ~GroutCrash
  <2>u. UNCHANGED <<pc, req, br, port, todo, conn>>
    BY <1>3, Zenon DEF GroutRestart, ForeignStep, NetdevDrift, procVars, locals
  <2>1. /\ TableOK'
        /\ \A b \in Ids : /\ (Own(b)' <=> Own(b)) /\ Members(b)' = Members(b)
                          /\ Own(b) => iface'[b] = iface[b]
                          /\ iface[b].domain = 0 => iface'[b].domain = 0
    <3>1. CASE UNCHANGED iface
      BY <1>0, <3>1, SameTable, Zenon
    <3> QED
      BY <1>3, <3>1, ForeignTable, Zenon DEF GroutRestart, Restart, NetdevDrift
  <2>2. Attended'
    <3>1. \A q \in Procs : \A b : Minds(q, b)' <=> Minds(q, b)
      BY <2>u, Zenon DEF Minds
    <3> QED
      BY <1>0, <2>1, <3>1, Zenon DEF Attended
  <2>3. ASSUME NEW b \in Attachments, link[PortName[b]] # "up", rt[b] = "failed"
        PROVE  link'[PortName[b]] = link[PortName[b]]
    <3>1. ASSUME NEW a \in Attachments, NetdevDrift(a) PROVE link'[PortName[b]] = link[PortName[b]]
      <4>1. PortName[a] # PortName[b] /\ \E v : link' = [link EXCEPT ![PortName[a]] = v]
        BY <2>3, <3>1, PortNamesDistinct, Zenon DEF NetdevDrift
      <4>2. link \in [PortNames -> LinkStates] /\ PortName[b] \in PortNames
        BY <1>0, CNIAssumption, Zenon DEF GroutTypeOK
      <4> QED
        BY <4>1, <4>2, Zenon
    <3> QED
      BY <1>3, <3>1, Zenon DEF GroutRestart, Restart, ForeignStep, ForeignAdd, ForeignDel
  <2>4. \A j \in Ids : iface[j].name \in PortNames => iface'[j] = iface[j]
    BY <1>0, <1>3, EnvironmentPortsKept
  <2>5. ASSUME NEW q \in Procs PROVE Keeping(q)'
    <3>0. Keeping(q) /\ Learned(q) /\ req[q].verb \in VerbsAt(pc[q])
      BY EmptyFacts
    <3> SUFFICES ASSUME conn[q] = "open" PROVE Keeping(q)'
      BY <2>u, Zenon DEF Keeping
    <3>1. UNCHANGED MyName(q)
      BY <2>u DEF MyName
    <3>2. pc[q] \in {"a_move", "a_conf"} =>
            req[q].att \in Attachments /\ rt[req[q].att] = "failed" /\ MyName(q) = PortName[req[q].att]
      BY <1>0, <3>0, CallFacts, Zenon DEF VerbsAt, LeakInv, CallsApart, MyName
    <3>3. /\ pc[q] = "a_move" => link'[MyName(q)] = "host"
          /\ pc[q] = "a_conf" => link'[MyName(q)] = "pod"
      BY <2>3, <3>0, <3>2, Zenon DEF Keeping
    <3>4. pc[q] = "d_del" => iface'[port[q]].domain = br[q]
      BY <2>4, <3>0, ZenonT(60) DEF Keeping, Learned
    <3>5. /\ pc[q] = "g_reap" => \A t \in todo[q] : iface'[t[1]].domain = br[q]
          /\ pc[q] = "g_sock" => \A t \in todo[q] : t[1] # port[q] => iface'[t[1]].domain = br[q]
      BY <1>0, <2>4, <3>0 DEF Keeping, Learned
    <3>6. /\ pc[q] \in {"b_flush4", "b_flush6", "b_del"} => br[q] \in Ids /\ iface'[br[q]].domain = 0
          /\ pc[q] \in {"b_flush6", "b_del"} /\ Own(br[q])' =>
               Own(br[q]) /\ iface'[br[q]] = iface[br[q]]
      <4>1. br[q] \in Ids => (Own(br[q])' => Own(br[q]))
        BY <2>1, <2>u DEF Own, IsBridge
      <4> QED
        BY <2>1, <3>0, <4>1, ZenonT(60) DEF Keeping
    <3> QED
      BY <2>u, <3>0, <3>1, <3>3, <3>4, <3>5, <3>6, Zenon DEF Keeping
  <2> QED
    BY <1>1, <2>1, <2>2, <2>5, Zenon DEF EmptyInv
<1> QED
  BY <1>2, <1>3

\* The invariant is inductive.
LEMMA NextEmpty == EmptyInv /\ [Next]_vars => EmptyInv'
<1> SUFFICES ASSUME EmptyInv, [Next]_vars PROVE EmptyInv'
  OBVIOUS
<1>1. ASSUME NEW p \in Procs, Step(p) \/ Runtime(p) PROVE EmptyInv'
  BY <1>1, HandlerEmpty, CallEmpty DEF Step, HandlerStep, CallStep
<1>2. CASE Environment
  <2>1. \A p \in Procs : ~ReplyLost(p)
    BY EmptyFacts DEF ReplyLost, Fault, RequestsServed
  <2> QED
    BY <1>2, <2>1, CallEmpty, EnvironmentEmpty, Zenon DEF Environment, CallStep
<1>3. CASE UNCHANGED vars
  <2>1. LeakInv' /\ Tidy'
    BY <1>3, NextLeak, EmptyFacts, Zenon
    DEF EmptyInv, Tidy, RequestsServed, BridgesUnshared, EnoughIds, UsedNames
  <2>2. UNCHANGED <<iface, link, pc, req, br, port, todo, conn>>
    BY <1>3, ZenonT(60) DEF vars
  <2>3. TableOK' /\ Attended'
    <3>1. TableOK'
      BY <2>2, EmptyFacts, Zenon DEF TableOK, Own, IsBridge, Exists, Members
    <3>2. \A b \in Ids : (Own(b)' => Own(b)) /\ Members(b)' = Members(b)
      BY <2>2, Zenon DEF Own, IsBridge, Members
    <3>3. \A b \in Ids, p \in Procs : Minds(p, b) => Minds(p, b)'
      BY <2>2, Zenon DEF Minds
    <3>4. Attended'
      BY EmptyFacts, <3>2, <3>3, Zenon DEF Attended
    <3> QED
      BY <3>1, <3>4
  <2>4. ASSUME NEW q \in Procs PROVE Keeping(q)'
    BY <2>2, EmptyFacts, Zenon DEF Keeping, Own, IsBridge, MyName
  <2> QED
    BY <2>1, <2>3, <2>4, Zenon DEF EmptyInv
<1> QED
  BY <1>1, <1>2, <1>3 DEF Next

\* While no handler runs, every bridge of the plugin has a port: HandleDel and
\* HandleGC remove the bridge with the last one, and an ADD that made the bridge
\* goes on to add a port, also when grout dies and comes back on the way, calls
\* fail before or after their requests to grout, and others use grout, as long as
\* what grout and the kernel are asked for is done, no handler is killed, nobody
\* else puts interfaces into a bridge and grout does not run out of ids.
THEOREM NoBridgeIsLeftEmpty == Tidy /\ Spec => []NoEmptyBridge
<1> SUFFICES ASSUME Tidy PROVE Spec => []NoEmptyBridge
  BY Zenon
<1>1. EmptyInv => NoEmptyBridge
  <2> SUFFICES ASSUME EmptyInv, lock = None, NEW b \in Ids, Own(b) PROVE Members(b) # {}
    BY Zenon DEF NoEmptyBridge, Own
  <2>1. \A p \in Procs : pc[p] \notin Critical
    BY EmptyFacts, CNIAssumption, Zenon DEF CoreInv, LockOwnership
  <2>2. \A p \in Procs : ~Minds(p, b)
    BY <2>1 DEF Minds, Critical
  <2> QED
    BY <2>2, EmptyFacts DEF Attended
<1> QED
  BY <1>1, InitEmpty, NextEmpty, PTL DEF Spec
=============================================================================
