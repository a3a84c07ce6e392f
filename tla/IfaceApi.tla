------------------------------ MODULE IfaceApi -------------------------------
(***************************************************************************)
(* The client's calls on interfaces: InterfaceAdd encodes a gr_iface with  *)
(* the section of its type, grout keeps it under an id, InterfaceList      *)
(* decodes what grout sends back.  grout keeps the name of an interface in *)
(* a buffer per id that it reuses without zeroing it.                      *)
(***************************************************************************)
EXTENDS Naturals, Sequences, WireFormat

CONSTANTS
  None,        \* no interface, no VXLAN configuration
  Ids,         \* ids grout hands out
  PortChars,   \* what follows the prefix in a port's name: lower case or digits
  PortLen,     \* and how much of it: 11 in the code
  OtherLens,   \* the same of the names of bridges and VXLANs
  MTUs,        \* 0 leaves it to grout
  Paths,       \* of vhost-user sockets; "" asks for a TAP, "long" does not fit
  Vteps        \* VXLAN configurations that callers pass: None, "v4" or "v6"

VARIABLES
  kept,    \* the gr_iface that grout keeps under an id, without its name
  bufs,    \* the name buffers
  asked    \* ghost: the request that an interface stems from

ifaceVars == <<kept, bufs, asked>>

PortNames == {<<"g", "-">> \o s : s \in [1..PortLen -> PortChars]}

OtherNames == {<<"b", "-">> \o [i \in 1..n |-> "a"] : n \in OtherLens}

-----------------------------------------------------------------------------
(* grout's structs.                                                        *)

gr_iface ==
  Struct(<<U16("id"), U8("type"), Bytes("pad", 1), U16("flags"), Bytes("pad", 2), U16("mtu"),
           Bytes("pad", 2), U16("domain"), Bytes("pad", 6)>>)
  \o <<Bytes("name", 16), Bytes("description", 256)>>

port_info == Struct(<<Bytes("pad", 14), Bytes("devargs", 128), Bytes("driver", 32)>>)

bridge_info ==
  Struct(<<U16("ageing"), U16("bflags"), Bytes("mac", 6), U16("members"), Bytes("pad", 128)>>)

vxlan_info ==
  Struct(<<U32("vni"), U16("encap_vrf"), U16("dst_port")>>
         \o Struct(<<U8("af"), U32("local"), Bytes("pad", 12)>>) \o <<Bytes("mac", 6)>>)

IfaceLayout ==
  [iface |-> Layout(gr_iface),
   port |-> Layout(gr_iface \o port_info),
   bridge |-> Layout(gr_iface \o bridge_info),
   vxlan |-> Layout(gr_iface \o vxlan_info)]

\* The sizes and offsets that client.go goes by.
ifaceSize == 20 + 16 + 256

portInfoSize == 14 + 128 + 32

bridgeInfoSize == 12 + 64 * 2

vxlanInfoSize == 36

offIface ==
  [ID |-> 0, Type |-> 2, Flags |-> 4, MTU |-> 8, Domain |-> 12, Name |-> 20, Info |-> 292,
   PortDevargs |-> 292 + 14]

offVxlan == [VNI |-> 0, EncapVRF |-> 4, DstPort |-> 6, Local |-> 8]

offBridgeInfoMAC == 4

TypeOf == [port |-> 2, bridge |-> 6, vxlan |-> 7]

-----------------------------------------------------------------------------
(* InterfaceAdd                                                            *)

ToLower(c) == IF c = "A" THEN "a" ELSE c

Alphanumeric ==
  {"a", "b", "c", "d", "e", "f", "g", "h", "i", "j", "k", "l", "m", "n", "o", "p", "q", "r", "s",
   "t", "u", "v", "w", "x", "y", "z", "0", "1", "2", "3", "4", "5", "6", "7", "8", "9"}

\* Mutant: letters only.
WriteLetter(id, c) ==
  IF ToLower(c) \in Alphanumeric \ {"2", "7"} THEN Append(id, ToLower(c)) ELSE id

\* One round of the loop: a letter or digit is written.
WriteRune(id, c) == IF ToLower(c) \in Alphanumeric THEN Append(id, ToLower(c)) ELSE id

vdevID(name) ==
  LET id[i \in 0..Len(name)] == IF i = 0 THEN <<>> ELSE WriteRune(id[i - 1], name[i])
  IN id[Len(name)]

devargs(req) ==
  IF req.path = "" THEN [drv |-> "net_tap", vdev |-> vdevID(req.name), iface |-> <<req.name>>]
  ELSE [drv |-> "net_vhost", vdev |-> vdevID(req.name), iface |-> <<req.path>>]

\* A stable unicast MAC from the name.
bridgeMAC(name) == <<"mac of", name>>

Base(req) ==
  {Put(offIface.ID, 2, Num(0)), Put(offIface.Type, 1, Num(TypeOf[req.type])),
   Put(offIface.Flags, 2, Num(1)), Put(offIface.Name, 16, <<"str", req.name>>)}
  \union PutIf(req.domain # 0, offIface.Domain, 2, Num(req.domain))
  \union PutIf(req.mtu # 0, offIface.MTU, 2, Num(req.mtu))

\* The one VXLAN configuration that callers use, but for its local address.
VXLAN == [vni |-> 5, encap |-> 1, dst |-> 4789]

InfoAt(req, offMAC) ==
  LET info == offIface.Info IN
  CASE req.type = "bridge" -> {Put(info + offMAC, 6, bridgeMAC(req.name))}
    [] req.type = "vxlan" ->
         {Put(info + offVxlan.VNI, 4, Num(VXLAN.vni)),
          Put(info + offVxlan.EncapVRF, 2, Num(VXLAN.encap)),
          Put(info + offVxlan.DstPort, 2, Num(VXLAN.dst)),
          Put(info + offVxlan.Local, 1, Num(2)),
          Put(info + offVxlan.Local + 4, 4, <<"ip4", "vtep">>)}
    [] OTHER -> {Put(offIface.PortDevargs, 128, <<"devargs", devargs(req)>>)}

\* Mutant: the MAC is written where the section starts.
InfoMisplaced(req) == InfoAt(req, 0)

Info(req) == InfoAt(req, offBridgeInfoMAC)

Size(req) ==
  ifaceSize + CASE req.type = "bridge" -> bridgeInfoSize
                [] req.type = "vxlan" -> vxlanInfoSize
                [] OTHER -> portInfoSize

\* The requests that InterfaceAdd sends at all.
Sendable(req) ==
  /\ req.type = "vxlan" => req.vtep = "v4"
  /\ req.type = "port" => req.path # "long"

\* grout: names are unique, a domain is a bridge, the payload has its size.
Accepts(req) ==
  /\ \A i \in Ids : asked[i] # None => asked[i].name # req.name
  /\ req.domain # 0 => req.domain \in Ids /\ asked[req.domain] # None
                       /\ asked[req.domain].type = "bridge"
  /\ Size(req) = IfaceLayout[req.type].size

\* The name is copied with its terminator over what the buffer holds.
Stored(buf, name) == [i \in DOMAIN buf |->
  IF i <= Len(name) THEN name[i] ELSE IF i = Len(name) + 1 THEN "NUL" ELSE buf[i]]

\* A request that is not sent, or is refused, leaves everything as it is.
InterfaceAdd(req) ==
  /\ Sendable(req)
  /\ Accepts(req)
  /\ \E i \in Ids :
       LET got == Decode(IfaceLayout[req.type], Base(req) \union Info(req)) IN
       /\ asked[i] = None
       /\ kept' = [kept EXCEPT ![i] = [f \in DOMAIN got \ {"name"} |->
                                         IF f = "id" THEN Num(i) ELSE got[f]]]
       /\ bufs' = [bufs EXCEPT ![i] = Stored(@, got["name"][2])]
       /\ asked' = [asked EXCEPT ![i] = req]

\* grout keeps a bridge that has members.
InterfaceDel(i) ==
  /\ asked[i] # None
  /\ \A j \in Ids : asked[j] # None => asked[j].domain # i
  /\ kept' = [kept EXCEPT ![i] = None]
  /\ asked' = [asked EXCEPT ![i] = None]
  /\ UNCHANGED bufs

Requests ==
  [type : {"port"}, name : PortNames, domain : Ids \union {0}, mtu : MTUs, path : Paths,
   vtep : {None}]
  \union
  [type : {"bridge", "vxlan"}, name : OtherNames, domain : {0}, mtu : MTUs, path : {""},
   vtep : Vteps]

\* Every name fits its field with the terminator.
ASSUME IfaceAssumption ==
  /\ Ids \subseteq Nat \ {0}
  /\ PortChars \subseteq Alphanumeric
  /\ PortLen \in 0..13 /\ OtherLens \subseteq 0..13
  /\ None \notin Requests

IfaceInit ==
  /\ kept = [i \in Ids |-> None]
  /\ bufs = [i \in Ids |-> [k \in 1..16 |-> "NUL"]]
  /\ asked = [i \in Ids |-> None]

IfaceNext ==
  \/ \E req \in Requests : InterfaceAdd(req)
  \/ \E i \in Ids : InterfaceDel(i)

IfaceSpec == IfaceInit /\ [][IfaceNext]_ifaceVars

-----------------------------------------------------------------------------
(* InterfaceList                                                           *)

\* Mutant: only the NULs at the end are cut.
cStringTrim(b) ==
  LET used == {i \in DOMAIN b : b[i] # "NUL"}
  IN SubSeq(b, 1, IF used = {} THEN 0 ELSE CHOOSE i \in used : \A j \in used : j <= i)

cString(b) ==
  LET nuls == {i \in DOMAIN b : b[i] = "NUL"}
  IN IF nuls = {} THEN b
     ELSE SubSeq(b, 1, (CHOOSE i \in nuls : \A j \in nuls : i <= j) - 1)

\* An item is grout's gr_iface; the client reads id, type, domain and name.
Item(i) ==
  LET at == IfaceLayout.iface.at
  IN {Put(at[f].off, at[f].size, kept[i][f]) : f \in DOMAIN at \ {"name"}}

InterfaceList(type) ==
  LET At(i, off, size) == Get(Item(i), [off |-> off, size |-> size])
  IN {[id |-> At(i, offIface.ID, 2), type |-> At(i, offIface.Type, 1),
       domain |-> At(i, offIface.Domain, 2), name |-> cString(bufs[i])]
        : i \in {j \in Ids : asked[j] # None /\ (type = "all" \/ asked[j].type = type)}}

-----------------------------------------------------------------------------
(* Properties                                                              *)

\* grout has understood every InterfaceAdd: the fields of the section of the
\* interface's type are where the C struct has them, and nothing else is set.
GroutHasWhatWasAsked ==
  \A i \in Ids : asked[i] # None =>
    LET r == asked[i]
        k == kept[i]
    IN /\ k.type = Num(TypeOf[r.type]) /\ k.flags = Num(1)
       /\ k.mtu = Num(r.mtu) /\ k.domain = Num(r.domain)
       /\ r.type = "port" => /\ k.devargs[2].iface = <<IF r.path = "" THEN r.name ELSE r.path>>
                             /\ k.driver = Num(0)
       /\ r.type = "bridge" => /\ k.mac = <<"mac of", r.name>>
                               /\ k.ageing = Num(0) /\ k.bflags = Num(0) /\ k.members = Num(0)
       /\ r.type = "vxlan" => /\ k.vni = Num(5) /\ k.encap_vrf = Num(1) /\ k.dst_port = Num(4789)
                              /\ k.af = Num(2) /\ k.local = <<"ip4", "vtep">> /\ k.mac = Num(0)

\* InterfaceList returns the interfaces that exist under the names they were
\* created with, whatever names their ids had before.
ListTrue ==
  \A t \in {"all", "port", "bridge", "vxlan"} :
    InterfaceList(t) =
      {[id |-> Num(i), type |-> Num(TypeOf[asked[i].type]), domain |-> Num(asked[i].domain),
        name |-> asked[i].name]
        : i \in {j \in Ids : asked[j] # None /\ t \in {"all", asked[j].type}}}

\* No two ports that the plugin names get the same DPDK device.
VdevsDistinct ==
  \A i, j \in Ids :
    i # j /\ asked[i] # None /\ asked[j] # None
      /\ asked[i].type = "port" /\ asked[j].type = "port"
    => kept[i].devargs[2].vdev # kept[j].devargs[2].vdev
=============================================================================
