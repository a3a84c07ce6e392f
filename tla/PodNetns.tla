------------------------------ MODULE PodNetns -------------------------------
(***************************************************************************)
(* moveLinkToNamespace, configurePodInterface and verifyPodInterface, one  *)
(* netlink operation at a time.  Any of them may fail, grout may die and   *)
(* take the netdev of its port with it, and the pod's netns may hold an    *)
(* interface of somebody else, even under the name that ADD is to use.     *)
(***************************************************************************)
EXTENDS Naturals

CONSTANTS
  NoLink,   \* no interface, or no MAC
  Results   \* the sets of addresses that IPAM may hand out

VARIABLES
  host,     \* the netdev, while it is in the host's netns
  netns,    \* the interfaces in the pod's netns, by name
  pc,       \* the next operation of the call that runs
  handle,   \* which interface the netlink handle `link` refers to
  ips,      \* the addresses of the result
  mtu,      \* is an MTU configured
  want,     \* expectedIPs of a CHECK: of the previous result, if that is given
  seen      \* ghost: what the interface has been since CHECK began

chk == <<want, seen>>

podVars == <<host, netns, pc, handle, ips, mtu, want, seen>>

\* hostIfName, podIfName, and another one.
LinkNames == {"grk", "eth0", "net1"}

Link(own, mac) ==
  [own |-> own, up |-> FALSE, mac |-> mac, mtu |-> FALSE, addrs |-> {}, routes |-> FALSE]

\* grout has just created the port: its netdev is up and shares the port's MAC.
PodInit ==
  /\ host = [Link("port", "grout") EXCEPT !.up = TRUE]
  /\ \E taken \in SUBSET {"eth0", "net1"} :
       netns = [n \in LinkNames |-> IF n \in taken THEN Link("other", "other") ELSE NoLink]
  /\ pc = "move"
  /\ handle = NoLink
  /\ ips \in Results
  /\ mtu \in BOOLEAN
  /\ want = {} /\ seen = {}

-----------------------------------------------------------------------------
Held == {n \in LinkNames : netns[n] # NoLink /\ netns[n].own = handle}

HeldAddrs == UNION {netns[n].addrs : n \in Held}

\* The operation fails: ADD goes on to its error path.
Fails == pc' = "rollback" /\ UNCHANGED <<host, netns, handle, ips, mtu, chk>>

\* Sets a field of the interface that the handle refers to; it fails when that
\* is gone, and may fail for any other reason.
OnHandle(at, next, field, value) ==
  /\ pc = at
  /\ \/ /\ \E n \in Held : netns' = [netns EXCEPT ![n][field] = value]
        /\ pc' = next
        /\ UNCHANGED <<host, handle, ips, mtu, chk>>
     \/ Fails

\* LinkByName in the pod's netns.
Find(at, n, next) ==
  /\ pc = at
  /\ \/ /\ netns[n] # NoLink
        /\ handle' = netns[n].own
        /\ pc' = next
        /\ UNCHANGED <<host, netns, ips, mtu, chk>>
     \/ Fails

\* A netdev changes its netns down and without addresses, and keeps its MAC.
moveLinkToNamespace ==
  /\ pc = "move"
  /\ \/ /\ host # NoLink
        /\ netns' = [netns EXCEPT !["grk"] = [host EXCEPT !.up = FALSE]]
        /\ host' = NoLink
        /\ pc' = "find"
        /\ UNCHANGED <<handle, ips, mtu, chk>>
     \/ Fails

\* The port's name is never the one the pod is to see, so the link is renamed.
FindMoved == Find("find", "grk", "down")

SetDown == OnHandle("down", "rename", "up", FALSE)

\* Mutant: the error of the rename is not looked at.
RenameUnchecked ==
  /\ pc = "rename"
  /\ \/ /\ \E n \in Held :
             /\ netns["eth0"] = NoLink
             /\ netns' = [netns EXCEPT !["eth0"] = netns[n], ![n] = NoLink]
     \/ UNCHANGED netns
  /\ pc' = "refind"
  /\ UNCHANGED <<host, handle, ips, mtu, chk>>

\* A name that is taken is refused.
Rename ==
  /\ pc = "rename"
  /\ \/ /\ \E n \in Held :
             /\ netns["eth0"] = NoLink
             /\ netns' = [netns EXCEPT !["eth0"] = netns[n], ![n] = NoLink]
        /\ pc' = "refind"
        /\ UNCHANGED <<host, handle, ips, mtu, chk>>
     \/ Fails

FindRenamed == Find("refind", "eth0", IF mtu THEN "mtu" ELSE "mac")

SetMTU == OnHandle("mtu", "mac", "mtu", TRUE)

\* Mutant: the interface keeps the MAC it came with.
SetMACSkipped ==
  /\ pc = "mac"
  /\ pc' = "ipam"
  /\ UNCHANGED <<host, netns, handle, ips, mtu, chk>>

\* The MAC is made of an address, and there is none without one.
podMACFromResult == IF ips = {} THEN NoLink ELSE "pod"

SetMAC ==
  IF podMACFromResult = NoLink
  THEN pc = "mac" /\ pc' = "ipam" /\ UNCHANGED <<host, netns, handle, ips, mtu, chk>>
  ELSE OnHandle("mac", "ipam", "mac", podMACFromResult)

\* ipam.ConfigureIface finds the interface by its name ...
ConfigureFind == Find("ipam", "eth0", "ipam_conf")

\* ... brings it up and adds the addresses, and the routes in the end.
ConfigureUp ==
  OnHandle("ipam_conf", "ipam_conf", "up", TRUE)

ConfigureAddr ==
  \E ip \in ips :
    OnHandle("ipam_conf", "ipam_conf", "addrs", {ip} \union HeldAddrs)

\* Mutant: the routes do not wait for the addresses.
ConfigureRoutesEarly ==
  OnHandle("ipam_conf", "readmac", "routes", TRUE)

ConfigureRoutes ==
  /\ \A n \in Held : netns[n].up /\ netns[n].addrs = ips
  /\ OnHandle("ipam_conf", "readmac", "routes", TRUE)

\* The MAC is read back for the result; without an interface it stays empty.
ReadMAC ==
  /\ pc = "readmac"
  /\ pc' = "added"
  /\ UNCHANGED <<host, netns, handle, ips, mtu, chk>>

Gone ==
  /\ host' = NoLink
  /\ netns' = [n \in LinkNames |-> IF netns[n] # NoLink /\ netns[n].own = "port" THEN NoLink ELSE netns[n]]

\* InterfaceDel takes the netdev with the port; ADD fails the same way when the
\* delete does, which is only logged.
cleanupAfterAddFailure ==
  /\ pc = "rollback"
  /\ Gone \/ UNCHANGED <<host, netns>>
  /\ pc' = "failed"
  /\ UNCHANGED <<handle, ips, mtu, chk>>

-----------------------------------------------------------------------------
(* CHECK: verifyPodInterface, once ADD has returned.                       *)

Ours == {n \in LinkNames : netns[n] # NoLink /\ netns[n].own = "port"}

\* What CHECK looks for that is so now.
Now(ns, addrs) ==
  IF ns["eth0"] = NoLink THEN {}
  ELSE {x \in {"up", "addrs"} : IF x = "up" THEN ns["eth0"].up ELSE addrs \subseteq ns["eth0"].addrs}

\* expectedPodIPs: the addresses of prevResult, if that is given and parses.
CheckBegin ==
  /\ pc = "added"
  /\ want' \in {ips, {}}
  /\ seen' = Now(netns, want')
  /\ pc' \in {"c_find", "c_err"}
  /\ UNCHANGED <<host, netns, handle, ips, mtu>>

\* Mutant: the flags of the interface are not looked at.
CheckFindDown ==
  /\ pc = "c_find"
  /\ handle' = IF netns["eth0"] = NoLink THEN NoLink ELSE netns["eth0"].own
  /\ pc' = IF netns["eth0"] = NoLink THEN "c_err" ELSE IF want = {} THEN "c_ok" ELSE "c_addrs"
  /\ UNCHANGED <<host, netns, ips, mtu, chk>>

\* The flags come with the interface, the addresses are listed afterwards;
\* either query may fail.
CheckFind ==
  /\ pc = "c_find"
  /\ handle' = IF netns["eth0"] = NoLink THEN NoLink ELSE netns["eth0"].own
  /\ pc' \in {"c_err", IF netns["eth0"] = NoLink \/ ~netns["eth0"].up THEN "c_err"
                       ELSE IF want = {} THEN "c_ok" ELSE "c_addrs"}
  /\ UNCHANGED <<host, netns, ips, mtu, chk>>

CheckAddrs ==
  /\ pc = "c_addrs"
  /\ pc' \in {"c_err", IF \E n \in Held : want \subseteq netns[n].addrs THEN "c_ok" ELSE "c_err"}
  /\ UNCHANGED <<host, netns, handle, ips, mtu, chk>>

CheckEnd ==
  /\ pc \in {"c_ok", "c_err"}
  /\ pc' = "added"
  /\ UNCHANGED <<host, netns, handle, ips, mtu, chk>>

-----------------------------------------------------------------------------
\* grout dies: its TAP netdevs go.
Vanish ==
  /\ host # NoLink \/ Ours # {}
  /\ Gone
  /\ UNCHANGED <<pc, handle, ips, mtu, chk>>

\* The pod takes its interface down or up, drops an address or adds one.
Drift ==
  /\ pc \in {"added", "c_find", "c_addrs", "c_ok", "c_err"}
  /\ \E n \in Ours :
       \/ netns' = [netns EXCEPT ![n].up = ~netns[n].up]
       \/ \E ip \in netns[n].addrs : netns' = [netns EXCEPT ![n].addrs = netns[n].addrs \ {ip}]
       \/ \E ip \in ips : netns' = [netns EXCEPT ![n].addrs = netns[n].addrs \union {ip}]
  /\ seen' = seen \union Now(netns', want)
  /\ UNCHANGED <<host, pc, handle, ips, mtu, want>>

PodNext ==
  \/ moveLinkToNamespace \/ FindMoved \/ SetDown \/ Rename \/ FindRenamed \/ SetMTU \/ SetMAC
  \/ ConfigureFind \/ ConfigureUp \/ ConfigureAddr \/ ConfigureRoutes \/ ReadMAC
  \/ cleanupAfterAddFailure
  \/ CheckBegin \/ CheckFind \/ CheckAddrs \/ CheckEnd
  \/ Vanish \/ Drift

PodSpec == PodInit /\ [][PodNext]_podVars

-----------------------------------------------------------------------------
(* Properties                                                              *)

\* Once IPAM has handed out an address, the pod's interface is never up with the
\* MAC of grout's port: the kernel would drop what grout sends to it.  Without
\* one podMACFromResult has no MAC to give, and the interface keeps the port's.
PodMacDiffersWithIPs == ips # {} => \A n \in Ours : netns[n].up => netns[n].mac # "grout"

\* No step of ADD or CHECK touches an interface of somebody else, even when it
\* has the name that ADD is to give to its own.
OthersUntouched ==
  [][\A n \in LinkNames :
       netns[n] # NoLink /\ netns[n].own = "other" => netns'[n] = netns[n]]_podVars

\* CHECK returns nil only if the interface was up, and had every expected address,
\* while it ran.  The two are asked for one after the other and may be of two
\* moments: the pod can change the interface in between.
CheckHonest == pc = "c_ok" => {"up", "addrs"} \subseteq seen

Usable ==
  /\ Ours = {"eth0"}
  /\ netns["eth0"].up /\ netns["eth0"].addrs = ips /\ netns["eth0"].routes
  /\ mtu => netns["eth0"].mtu

\* The netdev, and how far ADD is, as GroutCNI has them.
AbsLink ==
  IF host # NoLink THEN "host" ELSE IF Ours = {} THEN "none" ELSE IF Usable THEN "up" ELSE "pod"

AbsCall ==
  IF pc = "move" THEN "move"
  ELSE IF pc \in {"rollback", "failed"} THEN "failed"
  ELSE IF pc \in {"find", "down", "rename", "refind", "mtu", "mac", "ipam", "ipam_conf"} THEN "conf"
  ELSE "done"

P == INSTANCE PodLink WITH link <- AbsLink, call <- AbsCall

\* The netlink operations of the two functions, failures included, add up to the
\* two steps that GroutCNI takes them for.
ImplementsPodLink == P!Spec
=============================================================================
