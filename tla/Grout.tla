-------------------------------- MODULE Grout --------------------------------
(***************************************************************************)
(* The grout daemon and the kernel and file-system objects that hang off   *)
(* its ports, as the CNI plugin uses them (external: grout is not part of  *)
(* this repository).  Interfaces have unique names and small integer ids   *)
(* that are reused after a delete; a port may be a member of a bridge      *)
(* through its domain; a bridge holds L3 gateway addresses; an interface   *)
(* that still holds addresses cannot be deleted.                           *)
(***************************************************************************)
EXTENDS Naturals

CONSTANTS
  None,       \* stands for "no name", "no process", "no attachment"
  Ids,        \* interface ids grout can hand out (0 is GR_IFACE_ID_UNDEF)
  Names,      \* interface names
  PortNames,  \* the names groutPortName produces (prefix "grk-")
  Addrs,      \* gateway addresses, IPv4 and IPv6
  V6,         \* the IPv6 ones
  Foreign     \* interfaces that other users of grout may create

\* Nothing but the plugin creates a name with the port prefix.
ASSUME GroutAssumption ==
  /\ Ids \subseteq Nat \ {0}
  /\ PortNames \subseteq Names
  /\ None \notin Names
  /\ V6 \subseteq Addrs
  /\ Foreign \subseteq [name : Names \ PortNames, type : {"port", "bridge"},
                        joins : BOOLEAN, addrs : SUBSET Addrs]

VARIABLES
  iface,    \* grout's interface table
  link,     \* the kernel netdev of a TAP port: where it is, is it configured
  socks,    \* ports whose vhost-user socket file is on disk
  groutUp   \* is the daemon running

groutVars == <<iface, link, socks, groutUp>>

\* owner is a ghost: did the plugin or somebody else create the interface.
Interfaces ==
  [type : {"undef", "port", "bridge"}, name : Names \union {None},
   domain : Ids \union {0}, addrs : SUBSET Addrs, owner : {"none", "cni", "other"}]

NoIface ==
  [type |-> "undef", name |-> None, domain |-> 0, addrs |-> {}, owner |-> "none"]

\* "host": in the host netns; "pod": moved, not (fully) configured; "up": usable.
LinkStates == {"none", "host", "pod", "up"}

GroutTypeOK ==
  /\ iface \in [Ids -> Interfaces]
  /\ link \in [PortNames -> LinkStates]
  /\ socks \subseteq PortNames
  /\ groutUp \in BOOLEAN

GroutInit ==
  /\ iface = [i \in Ids |-> NoIface]
  /\ link = [n \in PortNames |-> "none"]
  /\ socks = {}
  /\ groutUp = TRUE

-----------------------------------------------------------------------------
Exists(i) == i \in Ids /\ iface[i].type # "undef"

IsBridge(i) == i \in Ids /\ iface[i].type = "bridge"

Named(n) == {i \in Ids : iface[i].name = n}

Members(b) == {i \in Ids : iface[i].domain = b}

-----------------------------------------------------------------------------
(* What a request does when grout accepts it.                              *)

\* grout can create name n in domain d under the unused id i.
CanAdd(i, n, d) ==
  /\ ~Exists(i)
  /\ Named(n) = {}
  /\ d # 0 => IsBridge(d)

NewIface(n, t, d, as, o) ==
  [type |-> t, name |-> n, domain |-> d, addrs |-> as, owner |-> o]

AddBridge(i, n) ==
  /\ CanAdd(i, n, 0)
  /\ iface' = [iface EXCEPT ![i] = NewIface(n, "bridge", 0, {}, "cni")]
  /\ UNCHANGED <<link, socks>>

\* A TAP port comes with a netdev in the host netns, a vhost-user port with a
\* socket file.
AddPort(i, n, d, virtio) ==
  /\ CanAdd(i, n, d)
  /\ iface' = [iface EXCEPT ![i] = NewIface(n, "port", d, {}, "cni")]
  /\ link' = [link EXCEPT ![n] = IF virtio THEN "none" ELSE "host"]
  /\ socks' = IF virtio THEN socks \union {n} ELSE socks

CanDel(i) == Exists(i) /\ iface[i].addrs = {}

\* Deleting a port destroys its netdev; its socket file may stay behind.
DelIface(i) ==
  /\ CanDel(i)
  /\ iface' = [iface EXCEPT ![i] = NoIface]
  /\ link' = [n \in PortNames |-> IF n = iface[i].name THEN "none" ELSE link[n]]
  /\ socks' \in {socks, socks \ {iface[i].name}}

SetAddrs(i, as) ==
  /\ Exists(i)
  /\ iface' = [iface EXCEPT ![i] = NewIface(iface[i].name, iface[i].type, iface[i].domain,
                                         as, iface[i].owner)]
  /\ UNCHANGED <<link, socks>>

-----------------------------------------------------------------------------
(* The daemon's life and its other users.                                  *)

\* grout keeps everything in memory: a crash loses every interface and netdev,
\* while a vhost-user socket file may or may not survive.
Crash ==
  /\ groutUp
  /\ groutUp' = FALSE
  /\ iface' = [i \in Ids |-> NoIface]
  /\ link' = [n \in PortNames |-> "none"]
  /\ socks' \in SUBSET socks

Restart ==
  /\ ~groutUp
  /\ groutUp' = TRUE
  /\ UNCHANGED <<iface, link, socks>>

\* Another grout user adds an interface, possibly as a member of a bridge.
ForeignAdd(f, i) ==
  /\ groutUp
  /\ \E d \in IF f.joins THEN {b \in Ids : IsBridge(b)} ELSE {0} :
       /\ CanAdd(i, f.name, d)
       /\ iface' = [iface EXCEPT ![i] = NewIface(f.name, f.type, d, f.addrs, "other")]
  /\ UNCHANGED <<link, socks, groutUp>>

\* It deletes only its own interfaces, and no bridge that has members.
ForeignDel(i) ==
  /\ groutUp
  /\ iface[i].owner = "other"
  /\ Members(i) = {}
  /\ iface' = [iface EXCEPT ![i] = NoIface]
  /\ UNCHANGED <<link, socks, groutUp>>
=============================================================================
