------------------------------- MODULE L3Api ---------------------------------
(***************************************************************************)
(* The client's calls on addresses, routes and flood entries: each encodes *)
(* its request byte by byte, grout reads its own structs out of that and   *)
(* updates its tables.  The interfaces that calls refer to are given.      *)
(***************************************************************************)
EXTENDS Naturals, FiniteSets, Sequences, WireFormat

CONSTANTS
  Ifaces,      \* ids of the interfaces that exist
  IfaceArgs,   \* ids that callers pass
  Hosts,       \* address values, each with an IPv4 and an IPv6 form
  Hops,        \* the same, of next hops
  PrefixLens,  \* lengths of a prefix
  Vrfs,        \* VRF ids that callers pass; 0 asks for the default one
  Vnis,        \* VXLAN network ids
  Foreign,     \* VNIs for which others add IPv6 flood entries
  MaxObjects   \* bound on what the tables hold

ASSUME L3Assumption ==
  /\ Ifaces \subseteq Nat \ {0}
  /\ PrefixLens \subseteq 0..32

VARIABLES
  table,   \* grout's addresses, routes and flood entries
  last     \* the last call, with its result

l3Vars == <<table, last>>

-----------------------------------------------------------------------------
(* grout's structs.                                                        *)

ip4_net == Struct(<<U32("ip"), U8("prefixlen")>>)

ip6_net == Struct(<<Bytes("ip", 16), U8("prefixlen")>>)

l3_addr == Struct(<<U8("af"), U32("addr"), Bytes("pad", 12)>>)

flood_entry == Struct(<<U8("type"), U16("vrf"), U32("vni")>> \o l3_addr)

L3Layout ==
  [ip4_addr |-> Layout(Struct(<<U16("iface")>> \o ip4_net) \o <<U8("flag")>>),
   ip6_addr |-> Layout(Struct(<<U16("iface")>> \o ip6_net) \o <<U8("flag")>>),
   ip4_route_add |-> Layout(<<U16("vrf")>> \o ip4_net
                       \o <<U32("nh"), U32("nh_id"), U8("origin"), U8("flag")>>),
   ip6_route_add |-> Layout(<<U16("vrf")>> \o ip6_net
                       \o <<Bytes("nh", 16), U32("nh_id"), U8("origin"), U8("flag")>>),
   ip4_route_del |-> Layout(<<U16("vrf")>> \o ip4_net \o <<U8("flag")>>),
   ip6_route_del |-> Layout(<<U16("vrf")>> \o ip6_net \o <<U8("flag")>>),
   flush |-> Layout(<<U16("iface")>>),
   flood |-> Layout(flood_entry \o <<U8("flag")>>),
   flood_list |-> Layout(<<U8("type"), U16("vrf")>>),
   flood_item |-> Layout(flood_entry)]

-----------------------------------------------------------------------------
(* The sizes and offsets that client.go names; those of IPv4 are literals. *)

offL3Addr == [AF |-> 0, IPv4 |-> 4]

offIP6 == [IfaceID |-> 0, Addr |-> 2, Prefix |-> 18, Flag |-> 20, size |-> 22]

offIP6Rte ==
  [VRF |-> 0, Dest |-> 2, DestPfx |-> 18, NH |-> 19, Origin |-> 40, ExistOK |-> 41, size |-> 44]

offIP6RteDel == [Missing |-> 19, size |-> 20]

offFlood == [Type |-> 0, VRFID |-> 2, VTEPVNI |-> 4, VTEPAddr |-> 8, entry |-> 28, req |-> 32]

-----------------------------------------------------------------------------
(* net.IP: four bytes, an IPv4 address in sixteen, sixteen, or not valid.  *)

NoIP == <<"none", "none">>

IPArgs(hosts) == ({"v4", "mapped", "v6"} \X hosts) \union {NoIP}

To4(ip) == IF ip[1] \in {"v4", "mapped"} THEN <<"ip4", ip[2]>> ELSE NoIP

To16(ip) ==
  IF ip[1] \in {"v4", "mapped"} THEN <<"ip6mapped", ip[2]>>
  ELSE IF ip[1] = "v6" THEN <<"ip6", ip[2]>> ELSE NoIP

-----------------------------------------------------------------------------
(* What a call sends: a type, a payload size and writes; or nothing.       *)

Msg(type, size, writes) == [type |-> type, size |-> size, writes |-> writes]

Nothing == Msg("nothing", 0, {})

Flag(set, off) == PutIf(set, off, 1, Num(1))

Addr4(c, flagAt) ==
  Msg("ip4_addr", 16, {Put(0, 2, Num(c.iface)), Put(4, 4, To4(c.ip)), Put(8, 1, Num(c.ones))}
        \union Flag(c.flag, flagAt))

Addr6(c) ==
  Msg("ip6_addr", offIP6.size,
      {Put(offIP6.IfaceID, 2, Num(c.iface)), Put(offIP6.Addr, 16, To16(c.ip)),
       Put(offIP6.Prefix, 1, Num(c.ones))} \union Flag(c.flag, offIP6.Flag))

\* Mutant: the flag follows the prefix length, as it does in a route.
AddressMsgNoPad(c) ==
  IF To4(c.ip) # NoIP THEN Addr4(c, 9)
  ELSE IF To16(c.ip) = NoIP THEN Nothing
  ELSE Addr6(c)

\* AddressAdd and AddressDel differ in what grout does with the request.
AddressMsg(c) ==
  IF To4(c.ip) # NoIP THEN Addr4(c, 12)
  ELSE IF To16(c.ip) = NoIP THEN Nothing
  ELSE Addr6(c)

vrfID(c) == IF c.vrf = 0 THEN 1 ELSE c.vrf

RouteAddMsg(c) ==
  IF To4(c.ip) # NoIP
  THEN IF To4(c.nh) = NoIP THEN Nothing
       ELSE Msg("ip4_route_add", 24,
              {Put(0, 2, Num(vrfID(c))), Put(4, 4, To4(c.ip)), Put(8, 1, Num(c.ones)),
               Put(12, 4, To4(c.nh)), Put(20, 1, Num(4))} \union Flag(c.flag, 21))
  ELSE IF To16(c.ip) = NoIP \/ To16(c.nh) = NoIP THEN Nothing
  ELSE Msg("ip6_route_add", offIP6Rte.size,
         {Put(offIP6Rte.VRF, 2, Num(vrfID(c))), Put(offIP6Rte.Dest, 16, To16(c.ip)),
          Put(offIP6Rte.DestPfx, 1, Num(c.ones)), Put(offIP6Rte.NH, 16, To16(c.nh)),
          Put(offIP6Rte.Origin, 1, Num(4))} \union Flag(c.flag, offIP6Rte.ExistOK))

RouteDelMsg(c) ==
  IF To4(c.ip) # NoIP
  THEN Msg("ip4_route_del", 16,
         {Put(0, 2, Num(vrfID(c))), Put(4, 4, To4(c.ip)), Put(8, 1, Num(c.ones))}
         \union Flag(c.flag, 12))
  ELSE IF To16(c.ip) = NoIP THEN Nothing
  ELSE Msg("ip6_route_del", offIP6RteDel.size,
         {Put(offIP6Rte.VRF, 2, Num(vrfID(c))), Put(offIP6Rte.Dest, 16, To16(c.ip)),
          Put(offIP6Rte.DestPfx, 1, Num(c.ones))} \union Flag(c.flag, offIP6RteDel.Missing))

putL3AddrIPv4(off, ip) == 
  {Put(off + offL3Addr.AF, 1, Num(2)), Put(off + offL3Addr.IPv4, 4, To4(ip))}

FloodMsg(c) ==
  IF To4(c.ip) = NoIP THEN Nothing
  ELSE Msg("flood", offFlood.req,
         {Put(offFlood.Type, 1, Num(1)), Put(offFlood.VRFID, 2, Num(vrfID(c))),
          Put(offFlood.VTEPVNI, 4, Num(c.vni))}
         \union putL3AddrIPv4(offFlood.VTEPAddr, c.ip) \union Flag(c.flag, offFlood.entry))

FloodListMsg(c) ==
  Msg("flood_list", 4, {Put(offFlood.Type, 1, Num(1)), Put(offFlood.VRFID, 2, Num(vrfID(c)))})

FlushMsg(c) == Msg("flush", 2, {Put(0, 2, Num(c.iface))})

-----------------------------------------------------------------------------
(* grout.  An object of the tables is what it read, without the flag.      *)

Read(m) ==
  IF m.size = L3Layout[m.type].size
  THEN Decode(L3Layout[m.type], m.writes)
  ELSE [f \in DOMAIN L3Layout[m.type].at |-> <<"garbled">>]

Without(fs, r) == [f \in DOMAIN r \ fs |-> r[f]]

Object(kind, m) == [kind |-> kind, val |-> Without({"flag"}, Read(m))]

Agrees(o, kind, r) == o.kind = kind /\ \A f \in DOMAIN r : o.val[f] = r[f]

IfaceKnown(m) == "iface" \in DOMAIN Read(m) => Read(m).iface \in {Num(i) : i \in Ifaces}

\* m asks for an object: refused when it exists, unless that is fine.
Adds(kind, m) ==
  LET o == Object(kind, m)
      ok == IfaceKnown(m) /\ (o \in table => Read(m).flag = Num(1))
  IN [ok |-> ok, table |-> IF ok THEN table \union {o} ELSE table]

\* m asks that the objects with the fields it names be gone.
Removes(kind, m) ==
  LET gone == {o \in table : Agrees(o, kind, Without({"flag"}, Read(m)))}
      ok == IfaceKnown(m) /\ (gone = {} => Read(m).flag = Num(1))
  IN [ok |-> ok, table |-> IF ok THEN table \ gone ELSE table]

\* m asks that an interface hold no address of a kind.
Flushes(kind, m) ==
  LET ok == IfaceKnown(m)
  IN [ok |-> ok,
      table |-> IF ok THEN {o \in table : ~Agrees(o, kind, Read(m))} ELSE table]

-----------------------------------------------------------------------------
(* The calls.  The connection may be lost before a request gets to grout,  *)
(* or after grout has carried it out and before the reply is read.         *)

Refused(c) == table' = table /\ last' = [call |-> c, ok |-> FALSE, lost |-> FALSE]

Lost(c, tab) == table' = tab /\ last' = [call |-> c, ok |-> FALSE, lost |-> TRUE]

Answered(c, res) == table' = res.table /\ last' = [call |-> c, ok |-> res.ok, lost |-> FALSE]

\* A call of one request.
Request(c, m, res) ==
  \/ m = Nothing /\ Refused(c)
  \/ m # Nothing /\ (Answered(c, res) \/ \E t \in {table, res.table} : Lost(c, t))

Fam(m) == IF m.type \in {"ip4_addr", "ip4_route_add", "ip4_route_del"} THEN "ip4" ELSE "ip6"

AddressAdd(c) ==
  LET m == AddressMsg(c) IN Request(c, m, Adds(<<"addr", Fam(m)>>, m))

AddressDel(c) ==
  LET m == AddressMsg(c) IN Request(c, m, Removes(<<"addr", Fam(m)>>, m))

RouteAdd(c) ==
  LET m == RouteAddMsg(c) IN Request(c, m, Adds(<<"route", Fam(m)>>, m))

RouteDel(c) ==
  LET m == RouteDelMsg(c) IN Request(c, m, Removes(<<"route", Fam(m)>>, m))

FloodAdd(c) ==
  LET m == FloodMsg(c) IN Request(c, m, Adds(<<"flood", "any">>, m))

FloodDel(c) ==
  LET m == FloodMsg(c) IN Request(c, m, Removes(<<"flood", "any">>, m))

\* Two requests, the second one only if grout granted the first.
AddressFlush(c) ==
  LET first == Flushes(<<"addr", "ip4">>, FlushMsg(c))
      both == IF first.ok
              THEN {o \in first.table : ~Agrees(o, <<"addr", "ip6">>, Read(FlushMsg(c)))} ELSE table
  IN \/ Answered(c, [first EXCEPT !.table = both])
     \/ \E t \in {table, first.table, both} : Lost(c, t)

\* Somebody else adds an IPv6 VTEP.
OthersFlood ==
  \E v \in Foreign, vrf \in Vrfs \ {0} :
    /\ table' = table \union
         {[kind |-> <<"flood", "any">>,
           val |-> [type |-> Num(1), vrf |-> Num(vrf), vni |-> Num(v),
                    af |-> Num(10), addr |-> <<"part of an IPv6 address">>]]}
    /\ UNCHANGED last

\* What callers may ask for.  What grout does with a second next hop for one
\* destination is not known here, so no caller asks for it.
AddrCalls(op) == [op : {op}, iface : IfaceArgs, ip : IPArgs(Hosts), ones : PrefixLens, flag : BOOLEAN]

RouteCalls(op) ==
  [op : {op}, vrf : Vrfs, ip : IPArgs(Hosts), ones : PrefixLens, nh : IPArgs(Hops), flag : BOOLEAN]

FloodCalls(op) == [op : {op}, vrf : Vrfs, vni : Vnis, ip : IPArgs(Hosts), flag : BOOLEAN]

Room == Cardinality(table) < MaxObjects

OneNextHop(c) ==
  LET m == RouteAddMsg(c)
      key == Without({"flag", "nh"}, Read(m))
  IN m # Nothing =>
       \A o \in table : Agrees(o, <<"route", Fam(m)>>, key) => o.val.nh = Read(m).nh

L3Init ==
  /\ table = {}
  /\ last = [call |-> [op |-> "none"], ok |-> TRUE, lost |-> FALSE]

L3Next ==
  \/ Room /\ \E c \in AddrCalls("AddressAdd") : AddressAdd(c)
  \/ \E c \in AddrCalls("AddressDel") : AddressDel(c)
  \/ \E i \in IfaceArgs : AddressFlush([op |-> "AddressFlush", iface |-> i])
  \/ Room /\ \E c \in RouteCalls("RouteAdd") : OneNextHop(c) /\ RouteAdd(c)
  \/ \E c \in RouteCalls("RouteDel") : c.nh = NoIP /\ RouteDel(c)
  \/ Room /\ \E c \in FloodCalls("FloodAdd") : FloodAdd(c)
  \/ \E c \in FloodCalls("FloodDel") : FloodDel(c)
  \/ Room /\ OthersFlood

L3Spec == L3Init /\ [][L3Next]_l3Vars

-----------------------------------------------------------------------------
(* Listing flood entries: an item per entry of the VRF, decoded again.     *)

\* Mutant: the address is taken whatever its family.
l3AddrIPv4Any(af, addr) == addr

l3AddrIPv4(af, addr) == IF af = Num(2) THEN addr ELSE NoIP

FloodList(vrf) ==
  LET item(o) == {Put(L3Layout.flood_item.at[f].off, L3Layout.flood_item.at[f].size, o.val[f])
                    : f \in DOMAIN o.val}
      At(o, off, size) == Get(item(o), [off |-> off, size |-> size])
      l3 == offFlood.VTEPAddr
  IN {[vni |-> At(o, offFlood.VTEPVNI, 4),
       addr |-> l3AddrIPv4(At(o, l3 + offL3Addr.AF, 1), At(o, l3 + offL3Addr.IPv4, 4))]
        : o \in {x \in table : Agrees(x, <<"flood", "any">>, Read(FloodListMsg([vrf |-> vrf])))}}

-----------------------------------------------------------------------------
(* Properties                                                              *)

\* An address as grout has it, and the family it is of.
IsV4(ip) == ip[1] \in {"v4", "mapped"}

Wire(ip) == <<IF IsV4(ip) THEN "ip4" ELSE "ip6", ip[2]>>

\* An IPv4 next hop of an IPv6 route is given to grout in its mapped form.
Hop(c) == <<IF ~IsV4(c.ip) /\ IsV4(c.nh) THEN "ip6mapped" ELSE Wire(c.nh)[1], c.nh[2]>>

Family(c) == IF IsV4(c.ip) THEN "ip4" ELSE "ip6"

Vrf(c) == IF c.vrf = 0 THEN Num(1) ELSE Num(c.vrf)

\* The object that a call is about.
Meant(c) ==
  CASE c.op \in {"AddressAdd", "AddressDel"} ->
         [kind |-> <<"addr", Family(c)>>,
          val |-> [iface |-> Num(c.iface), ip |-> Wire(c.ip), prefixlen |-> Num(c.ones)]]
    [] c.op = "RouteAdd" ->
         [kind |-> <<"route", Family(c)>>,
          val |-> [vrf |-> Vrf(c), ip |-> Wire(c.ip), prefixlen |-> Num(c.ones),
                   nh |-> Hop(c), nh_id |-> Num(0), origin |-> Num(4)]]
    [] c.op \in {"FloodAdd", "FloodDel"} ->
         [kind |-> <<"flood", "any">>,
          val |-> [type |-> Num(1), vrf |-> Vrf(c), vni |-> Num(c.vni),
                   af |-> Num(2), addr |-> Wire(c.ip)]]

\* The objects a call would take away.
Targets(c, tab) ==
  CASE c.op \in {"AddressDel", "FloodDel"} -> tab \intersect {Meant(c)}
    [] c.op = "RouteDel" ->
         {o \in tab : Agrees(o, <<"route", Family(c)>>,
            [vrf |-> Vrf(c), ip |-> Wire(c.ip), prefixlen |-> Num(c.ones)])}
    [] c.op = "AddressFlush" ->
         {o \in tab : o.kind[1] = "addr" /\ o.val.iface = Num(c.iface)}

\* Arguments that no request can be made of.
Unsendable(c) ==
  \/ c.op # "AddressFlush" /\ c.ip = NoIP
  \/ c.op = "RouteAdd" /\ (c.nh = NoIP \/ (IsV4(c.ip) /\ ~IsV4(c.nh)))
  \/ c.op \in {"FloodAdd", "FloodDel"} /\ ~IsV4(c.ip)

UnknownIface(c) == c.op \in {"AddressAdd", "AddressDel", "AddressFlush"} /\ c.iface \notin Ifaces

Adding(c) == c.op \in {"AddressAdd", "RouteAdd", "FloodAdd"}

\* What grout's tables are after a call that it carried out; half of AddressFlush
\* is the flush of the IPv4 addresses.
Done(c, tab) == IF Adding(c) THEN tab \union {Meant(c)} ELSE tab \ Targets(c, tab)

HalfDone(c, tab) ==
  IF c.op = "AddressFlush" THEN tab \ {o \in Targets(c, tab) : o.kind[2] = "ip4"} ELSE tab

\* A call that returns nil has done in grout's tables exactly what it was asked
\* to do, through the offsets of client.go and the struct layouts of grout.  One
\* that fails for its arguments, or for an object that is (not) there without
\* ExistOK (MissingOK), has changed nothing; one that loses its connection may
\* have been carried out, AddressFlush by half, and nothing else has changed.
CallsDoWhatTheySay ==
  [][last' # last =>
      LET c == last'.call IN
      IF last'.ok THEN ~Unsendable(c) /\ table' = Done(c, table)
      ELSE IF last'.lost
      THEN ~Unsendable(c) /\ table' \in {table, HalfDone(c, table), Done(c, table)}
      ELSE /\ table' = table
           /\ \/ Unsendable(c)
              \/ UnknownIface(c)
              \/ Adding(c) /\ Meant(c) \in table /\ ~c.flag
              \/ ~Adding(c) /\ Targets(c, table) = {} /\ ~c.flag]_l3Vars

\* FloodList names every IPv4 VTEP that is in the table of the VRF, and gives an
\* entry of another family no address.
FloodListTrue ==
  \A vrf \in Vrfs :
    FloodList(vrf) =
      {[vni |-> o.val.vni, addr |-> IF o.val.af = Num(2) THEN o.val.addr ELSE NoIP]
        : o \in {x \in table : x.kind[1] = "flood" /\ x.val.vrf = Vrf([vrf |-> vrf])}}
=============================================================================
