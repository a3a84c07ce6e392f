------------------------------ MODULE L3_proofs ------------------------------
(***************************************************************************)
(* For any values of the constants: every call on addresses, routes and    *)
(* flood entries does in grout's tables what it says, from the places of   *)
(* the fields that Encodings_proofs establishes.                           *)
(***************************************************************************)
EXTENDS Encodings_proofs

\* The layouts by which grout reads the requests of an L3 call.
LEMMA L3Layouts ==
  /\ L3Layout["ip4_addr"] = Layout(Addr4Seq) /\ L3Layout["ip6_addr"] = Layout(Addr6Seq)
  /\ L3Layout["ip4_route_add"] = Layout(RouteAdd4Seq) /\ L3Layout["ip6_route_add"] = Layout(RouteAdd6Seq)
  /\ L3Layout["ip4_route_del"] = Layout(RouteDel4Seq) /\ L3Layout["ip6_route_del"] = Layout(RouteDel6Seq)
  /\ L3Layout["flush"] = Layout(IfaceIdSeq) /\ L3Layout["flood"] = Layout(FloodReqSeq)
  /\ L3Layout["flood_list"] = Layout(FloodListSeq) /\ L3Layout["flood_item"] = Layout(FloodSeq)
<1>1. ip4_net = Net4Seq
  BY Net4SeqStruct, Zenon DEF ip4_net, Net4Arg
<1>2. ip6_net = Net6Seq
  BY Net6SeqStruct, Zenon DEF ip6_net, Net6Arg
<1>3. l3_addr = L3Seq
  BY L3SeqStruct, Zenon DEF l3_addr, L3Arg
<1>4. flood_entry = FloodSeq
  BY <1>3, FloodArgIs, FloodSeqStruct, Zenon DEF flood_entry, FloodHead
<1>5. Struct(<<U16("iface")>> \o ip4_net) \o <<U8("flag")>> = Addr4Seq
  BY <1>1, Addr4ArgIs, Addr4PartStruct, Addr4SeqIs, Zenon DEF IfaceIdSeq, FlagSeq
<1>6. Struct(<<U16("iface")>> \o ip6_net) \o <<U8("flag")>> = Addr6Seq
  BY <1>2, Addr6ArgIs, Addr6PartStruct, Addr6SeqIs, Zenon DEF IfaceIdSeq, FlagSeq
<1>7. /\ <<U16("vrf")>> \o ip4_net = Dest4Seq /\ <<U16("vrf")>> \o ip6_net = Dest6Seq
  BY <1>1, <1>2, Dest4SeqIs, Dest6SeqIs, Zenon DEF VrfSeq
<1>8. <<U16("vrf")>> \o ip4_net \o <<U32("nh"), U32("nh_id"), U8("origin"), U8("flag")>> = RouteAdd4Seq
  BY <1>7, RouteAdd4SeqIs, Zenon DEF Hop4Seq
<1>9. <<U16("vrf")>> \o ip6_net \o <<Bytes("nh", 16), U32("nh_id"), U8("origin"), U8("flag")>> = RouteAdd6Seq
  BY <1>7, RouteAdd6SeqIs, Zenon DEF Hop6Seq
<1>10. /\ <<U16("vrf")>> \o ip4_net \o <<U8("flag")>> = RouteDel4Seq
       /\ <<U16("vrf")>> \o ip6_net \o <<U8("flag")>> = RouteDel6Seq
  BY <1>7, RouteDel4SeqIs, RouteDel6SeqIs, Zenon DEF FlagSeq
<1>11. flood_entry \o <<U8("flag")>> = FloodReqSeq
  BY <1>4, FloodReqSeqIs, Zenon DEF FlagSeq
<1>12. <<U16("iface")>> = IfaceIdSeq /\ <<U8("type"), U16("vrf")>> = FloodListSeq
  BY Zenon DEF IfaceIdSeq, FloodListSeq
<1> QED
  BY <1>4, <1>5, <1>6, <1>8, <1>9, <1>10, <1>11, <1>12, Zenon DEF L3Layout

\* No two fields overlap.
Apart(at) ==
  \A f, g \in DOMAIN at :
    /\ at[f].off \in Nat /\ at[f].size \in Nat \ {0}
    /\ f # g => at[f].off + at[f].size <= at[g].off \/ at[g].off + at[g].size <= at[f].off

\* W fills the fields D, each with its value of x.
Fills(W, at, D, x) ==
  D \subseteq DOMAIN at /\ \A v : v \in W <=> \E f \in D : v = Put(at[f].off, at[f].size, x[f])

\* Then these fields are read as they were written, and the others as zero.
LEMMA FillsRead ==
  ASSUME NEW at, Apart(at), NEW D, NEW x, NEW W, Fills(W, at, D, x), NEW f \in DOMAIN at
  PROVE  Get(W, at[f]) = IF f \in D THEN x[f] ELSE Num(0)
<1> DEFINE w(h) == Put(at[h].off, at[h].size, x[h])
<1>1. \A h : w(h).off = at[h].off /\ w(h).size = at[h].size /\ w(h).val = x[h]
  BY DEF Put
<1>2. D \subseteq DOMAIN at /\ \A v : v \in W <=> \E h \in D : v = w(h)
  BY Zenon DEF Fills
<1> HIDE DEF w
<1>3. \A h \in DOMAIN at : Hits(w(h), at[f]) <=> h = f
  BY <1>1 DEF Hits, Apart
<1>4. CASE f \in D
  <2>1. w(f) \in W /\ Hits(w(f), at[f]) /\ \A v \in W : Hits(v, at[f]) => v = w(f)
    BY <1>2, <1>3, <1>4, Zenon
  <2>2. w(f).off = at[f].off /\ w(f).size <= at[f].size
    BY <1>1 DEF Apart
  <2>3. Get(W, at[f]) = w(f).val
    BY <2>1, <2>2, GetOne, Zenon DEF Sole
  <2> QED
    BY <1>1, <1>4, <2>3, Zenon
<1>5. CASE f \notin D
  <2>1. \A v \in W : ~Hits(v, at[f])
    BY <1>2, <1>3, <1>5, Zenon
  <2> QED
    BY <1>5, <2>1, GetNone, Zenon
<1> QED
  BY <1>4, <1>5

\* g is what grout makes of a request: the fields of at but for the flag have
\* the values of y, the flag is set or not.
Understood(g, at, y, c) ==
  /\ DOMAIN g = DOMAIN at
  /\ Without({"flag"}, g) = y
  /\ g["flag"] = IF c THEN Num(1) ELSE Num(0)

\* The request m has the struct at, its fields D are filled from x, and y is
\* what they say without the flag.
Payload(m, at, D, x, y, c) ==
  /\ m.size = L3Layout[m.type].size /\ at = L3Layout[m.type].at
  /\ Apart(at) /\ "flag" \in DOMAIN at
  /\ c \in BOOLEAN /\ ("flag" \in D <=> c) /\ x["flag"] = Num(1)
  /\ Fills(m.writes, at, D, x)
  /\ DOMAIN y = DOMAIN at \ {"flag"} /\ y = [f \in DOMAIN y |-> y[f]]
  /\ \A f \in DOMAIN y : y[f] = IF f \in D THEN x[f] ELSE Num(0)

\* A request whose payload has the size of its struct is understood.
LEMMA RequestRead ==
  ASSUME NEW m, NEW at, NEW D, NEW x, NEW y, NEW c, Payload(m, at, D, x, y, c)
  PROVE  Understood(Read(m), at, y, c)
<1> DEFINE g == Read(m)
<1> USE DEF Payload
<1>1. g = [f \in DOMAIN at |-> Get(m.writes, at[f])]
  BY Zenon DEF Read, Decode
<1> HIDE DEF g
<1>2. \A f \in DOMAIN at : g[f] = IF f \in D THEN x[f] ELSE Num(0)
  <2>1. TAKE f \in DOMAIN at
  <2>2. Get(m.writes, at[f]) = IF f \in D THEN x[f] ELSE Num(0)
    BY <2>1, FillsRead
  <2> QED
    BY <1>1, <2>1, <2>2, Zenon
<1>3. DOMAIN g = DOMAIN at
  BY <1>1, Zenon
<1>4. Without({"flag"}, g) = [f \in DOMAIN y |-> g[f]]
  BY <1>3, Zenon DEF Without
<1>5. \A f \in DOMAIN y : g[f] = y[f]
  BY <1>2, Zenon
<1>6. [f \in DOMAIN y |-> g[f]] = [f \in DOMAIN y |-> y[f]]
  BY <1>5, Zenon
<1>7. Without({"flag"}, g) = y
  BY <1>4, <1>6, Zenon
<1>8. g["flag"] = IF c THEN Num(1) ELSE Num(0)
  BY <1>2, Zenon
<1> QED
  BY <1>3, <1>7, <1>8, Zenon DEF Understood, g

\* An IPv4 address.
LEMMA ReadAddr4 ==
  ASSUME NEW m, NEW x1, NEW x2, NEW x3, NEW c \in BOOLEAN,
         m.type = "ip4_addr", m.size = 16,
         m.writes = {Put(0, 2, x1), Put(4, 4, x2), Put(8, 1, x3)}
                    \union Flag(c, 12)
  PROVE  Understood(Read(m), Addr4At,
           [iface |-> x1, ip |-> x2, prefixlen |-> x3], c)
<1> DEFINE x == [iface |-> x1, ip |-> x2, prefixlen |-> x3, flag |-> Num(1)]
           y == [iface |-> x1, ip |-> x2, prefixlen |-> x3]
           D == {"iface", "ip", "prefixlen"} \union IF c THEN {"flag"} ELSE {}
<1>1. m.size = L3Layout[m.type].size /\ Addr4At = L3Layout[m.type].at
  <2>1. L3Layout[m.type] = Layout(Addr4Seq)
    BY L3Layouts, Zenon
  <2> QED
    BY <2>1, Addr4SeqLayout, Zenon
<1>2. Apart(Addr4At) /\ "flag" \in DOMAIN Addr4At
  BY DEF Apart, Addr4At, Field
<1>3. Fills(m.writes, Addr4At, D, x)
  BY DEF Fills, Addr4At, Field, Flag, PutIf
<1>4. /\ "flag" \in D <=> c
      /\ x["flag"] = Num(1) /\ DOMAIN y = DOMAIN Addr4At \ {"flag"}
      /\ y = [f \in DOMAIN y |-> y[f]] /\ \A f \in DOMAIN y : y[f] = IF f \in D THEN x[f] ELSE Num(0)
  BY DEF Addr4At
<1> HIDE DEF x, y, D
<1>5. Understood(Read(m), Addr4At, y, c)
  <2>1. Payload(m, Addr4At, D, x, y, c)
    BY <1>1, <1>2, <1>3, <1>4, Zenon DEF Payload
  <2> QED
    BY <2>1, RequestRead, Zenon
<1> QED
  BY <1>5, Zenon DEF y

\* An IPv6 address.
LEMMA ReadAddr6 ==
  ASSUME NEW m, NEW x1, NEW x2, NEW x3, NEW c \in BOOLEAN,
         m.type = "ip6_addr", m.size = 22,
         m.writes = {Put(0, 2, x1), Put(2, 16, x2), Put(18, 1, x3)}
                    \union Flag(c, 20)
  PROVE  Understood(Read(m), Addr6At,
           [iface |-> x1, ip |-> x2, prefixlen |-> x3], c)
<1> DEFINE x == [iface |-> x1, ip |-> x2, prefixlen |-> x3, flag |-> Num(1)]
           y == [iface |-> x1, ip |-> x2, prefixlen |-> x3]
           D == {"iface", "ip", "prefixlen"} \union IF c THEN {"flag"} ELSE {}
<1>1. m.size = L3Layout[m.type].size /\ Addr6At = L3Layout[m.type].at
  <2>1. L3Layout[m.type] = Layout(Addr6Seq)
    BY L3Layouts, Zenon
  <2> QED
    BY <2>1, Addr6SeqLayout, Zenon
<1>2. Apart(Addr6At) /\ "flag" \in DOMAIN Addr6At
  BY DEF Apart, Addr6At, Field
<1>3. Fills(m.writes, Addr6At, D, x)
  BY DEF Fills, Addr6At, Field, Flag, PutIf
<1>4. /\ "flag" \in D <=> c
      /\ x["flag"] = Num(1) /\ DOMAIN y = DOMAIN Addr6At \ {"flag"}
      /\ y = [f \in DOMAIN y |-> y[f]] /\ \A f \in DOMAIN y : y[f] = IF f \in D THEN x[f] ELSE Num(0)
  BY DEF Addr6At
<1> HIDE DEF x, y, D
<1>5. Understood(Read(m), Addr6At, y, c)
  <2>1. Payload(m, Addr6At, D, x, y, c)
    BY <1>1, <1>2, <1>3, <1>4, Zenon DEF Payload
  <2> QED
    BY <2>1, RequestRead, Zenon
<1> QED
  BY <1>5, Zenon DEF y

\* An IPv4 route to add; no request names a next hop by its id.
LEMMA ReadRouteAdd4 ==
  ASSUME NEW m, NEW x1, NEW x2, NEW x3, NEW x4, NEW x5, NEW c \in BOOLEAN,
         m.type = "ip4_route_add", m.size = 24,
         m.writes = {Put(0, 2, x1), Put(4, 4, x2), Put(8, 1, x3), Put(12, 4, x4), Put(20, 1, x5)}
                    \union Flag(c, 21)
  PROVE  Understood(Read(m), RouteAdd4At,
           [vrf |-> x1, ip |-> x2, prefixlen |-> x3, nh |-> x4, nh_id |-> Num(0), origin |-> x5], c)
<1> DEFINE x == [vrf |-> x1, ip |-> x2, prefixlen |-> x3, nh |-> x4, origin |-> x5, flag |-> Num(1)]
           y == [vrf |-> x1, ip |-> x2, prefixlen |-> x3, nh |-> x4, nh_id |-> Num(0), origin |-> x5]
           D == {"vrf", "ip", "prefixlen", "nh", "origin"} \union IF c THEN {"flag"} ELSE {}
<1>1. m.size = L3Layout[m.type].size /\ RouteAdd4At = L3Layout[m.type].at
  <2>1. L3Layout[m.type] = Layout(RouteAdd4Seq)
    BY L3Layouts, Zenon
  <2> QED
    BY <2>1, RouteAdd4SeqLayout, Zenon
<1>2. Apart(RouteAdd4At) /\ "flag" \in DOMAIN RouteAdd4At
  BY DEF Apart, RouteAdd4At, Field
<1>3. Fills(m.writes, RouteAdd4At, D, x)
  BY DEF Fills, RouteAdd4At, Field, Flag, PutIf
<1>4. /\ "flag" \in D <=> c
      /\ x["flag"] = Num(1) /\ DOMAIN y = DOMAIN RouteAdd4At \ {"flag"}
      /\ y = [f \in DOMAIN y |-> y[f]] /\ \A f \in DOMAIN y : y[f] = IF f \in D THEN x[f] ELSE Num(0)
  BY DEF RouteAdd4At
<1> HIDE DEF x, y, D
<1>5. Understood(Read(m), RouteAdd4At, y, c)
  <2>1. Payload(m, RouteAdd4At, D, x, y, c)
    BY <1>1, <1>2, <1>3, <1>4, Zenon DEF Payload
  <2> QED
    BY <2>1, RequestRead, Zenon
<1> QED
  BY <1>5, Zenon DEF y

\* An IPv6 route to add.
LEMMA ReadRouteAdd6 ==
  ASSUME NEW m, NEW x1, NEW x2, NEW x3, NEW x4, NEW x5, NEW c \in BOOLEAN,
         m.type = "ip6_route_add", m.size = 44,
         m.writes = {Put(0, 2, x1), Put(2, 16, x2), Put(18, 1, x3), Put(19, 16, x4), Put(40, 1, x5)}
                    \union Flag(c, 41)
  PROVE  Understood(Read(m), RouteAdd6At,
           [vrf |-> x1, ip |-> x2, prefixlen |-> x3, nh |-> x4, nh_id |-> Num(0), origin |-> x5], c)
<1> DEFINE x == [vrf |-> x1, ip |-> x2, prefixlen |-> x3, nh |-> x4, origin |-> x5, flag |-> Num(1)]
           y == [vrf |-> x1, ip |-> x2, prefixlen |-> x3, nh |-> x4, nh_id |-> Num(0), origin |-> x5]
           D == {"vrf", "ip", "prefixlen", "nh", "origin"} \union IF c THEN {"flag"} ELSE {}
<1>1. m.size = L3Layout[m.type].size /\ RouteAdd6At = L3Layout[m.type].at
  <2>1. L3Layout[m.type] = Layout(RouteAdd6Seq)
    BY L3Layouts, Zenon
  <2> QED
    BY <2>1, RouteAdd6SeqLayout, Zenon
<1>2. Apart(RouteAdd6At) /\ "flag" \in DOMAIN RouteAdd6At
  BY DEF Apart, RouteAdd6At, Field
<1>3. Fills(m.writes, RouteAdd6At, D, x)
  BY DEF Fills, RouteAdd6At, Field, Flag, PutIf
<1>4. /\ "flag" \in D <=> c
      /\ x["flag"] = Num(1) /\ DOMAIN y = DOMAIN RouteAdd6At \ {"flag"}
      /\ y = [f \in DOMAIN y |-> y[f]] /\ \A f \in DOMAIN y : y[f] = IF f \in D THEN x[f] ELSE Num(0)
  BY DEF RouteAdd6At
<1> HIDE DEF x, y, D
<1>5. Understood(Read(m), RouteAdd6At, y, c)
  <2>1. Payload(m, RouteAdd6At, D, x, y, c)
    BY <1>1, <1>2, <1>3, <1>4, Zenon DEF Payload
  <2> QED
    BY <2>1, RequestRead, Zenon
<1> QED
  BY <1>5, Zenon DEF y

\* An IPv4 route to delete.
LEMMA ReadRouteDel4 ==
  ASSUME NEW m, NEW x1, NEW x2, NEW x3, NEW c \in BOOLEAN,
         m.type = "ip4_route_del", m.size = 16,
         m.writes = {Put(0, 2, x1), Put(4, 4, x2), Put(8, 1, x3)}
                    \union Flag(c, 12)
  PROVE  Understood(Read(m), RouteDel4At,
           [vrf |-> x1, ip |-> x2, prefixlen |-> x3], c)
<1> DEFINE x == [vrf |-> x1, ip |-> x2, prefixlen |-> x3, flag |-> Num(1)]
           y == [vrf |-> x1, ip |-> x2, prefixlen |-> x3]
           D == {"vrf", "ip", "prefixlen"} \union IF c THEN {"flag"} ELSE {}
<1>1. m.size = L3Layout[m.type].size /\ RouteDel4At = L3Layout[m.type].at
  <2>1. L3Layout[m.type] = Layout(RouteDel4Seq)
    BY L3Layouts, Zenon
  <2> QED
    BY <2>1, RouteDel4SeqLayout, Zenon
<1>2. Apart(RouteDel4At) /\ "flag" \in DOMAIN RouteDel4At
  BY DEF Apart, RouteDel4At, Field
<1>3. Fills(m.writes, RouteDel4At, D, x)
  BY DEF Fills, RouteDel4At, Field, Flag, PutIf
<1>4. /\ "flag" \in D <=> c
      /\ x["flag"] = Num(1) /\ DOMAIN y = DOMAIN RouteDel4At \ {"flag"}
      /\ y = [f \in DOMAIN y |-> y[f]] /\ \A f \in DOMAIN y : y[f] = IF f \in D THEN x[f] ELSE Num(0)
  BY DEF RouteDel4At
<1> HIDE DEF x, y, D
<1>5. Understood(Read(m), RouteDel4At, y, c)
  <2>1. Payload(m, RouteDel4At, D, x, y, c)
    BY <1>1, <1>2, <1>3, <1>4, Zenon DEF Payload
  <2> QED
    BY <2>1, RequestRead, Zenon
<1> QED
  BY <1>5, Zenon DEF y

\* An IPv6 route to delete.
LEMMA ReadRouteDel6 ==
  ASSUME NEW m, NEW x1, NEW x2, NEW x3, NEW c \in BOOLEAN,
         m.type = "ip6_route_del", m.size = 20,
         m.writes = {Put(0, 2, x1), Put(2, 16, x2), Put(18, 1, x3)}
                    \union Flag(c, 19)
  PROVE  Understood(Read(m), RouteDel6At,
           [vrf |-> x1, ip |-> x2, prefixlen |-> x3], c)
<1> DEFINE x == [vrf |-> x1, ip |-> x2, prefixlen |-> x3, flag |-> Num(1)]
           y == [vrf |-> x1, ip |-> x2, prefixlen |-> x3]
           D == {"vrf", "ip", "prefixlen"} \union IF c THEN {"flag"} ELSE {}
<1>1. m.size = L3Layout[m.type].size /\ RouteDel6At = L3Layout[m.type].at
  <2>1. L3Layout[m.type] = Layout(RouteDel6Seq)
    BY L3Layouts, Zenon
  <2> QED
    BY <2>1, RouteDel6SeqLayout, Zenon
<1>2. Apart(RouteDel6At) /\ "flag" \in DOMAIN RouteDel6At
  BY DEF Apart, RouteDel6At, Field
<1>3. Fills(m.writes, RouteDel6At, D, x)
  BY DEF Fills, RouteDel6At, Field, Flag, PutIf
<1>4. /\ "flag" \in D <=> c
      /\ x["flag"] = Num(1) /\ DOMAIN y = DOMAIN RouteDel6At \ {"flag"}
      /\ y = [f \in DOMAIN y |-> y[f]] /\ \A f \in DOMAIN y : y[f] = IF f \in D THEN x[f] ELSE Num(0)
  BY DEF RouteDel6At
<1> HIDE DEF x, y, D
<1>5. Understood(Read(m), RouteDel6At, y, c)
  <2>1. Payload(m, RouteDel6At, D, x, y, c)
    BY <1>1, <1>2, <1>3, <1>4, Zenon DEF Payload
  <2> QED
    BY <2>1, RequestRead, Zenon
<1> QED
  BY <1>5, Zenon DEF y

\* A flood entry.
LEMMA ReadFlood ==
  ASSUME NEW m, NEW x1, NEW x2, NEW x3, NEW x4, NEW x5, NEW c \in BOOLEAN,
         m.type = "flood", m.size = 32,
         m.writes = {Put(0, 1, x1), Put(2, 2, x2), Put(4, 4, x3), Put(8, 1, x4), Put(12, 4, x5)}
                    \union Flag(c, 28)
  PROVE  Understood(Read(m), FloodReqAt,
           [type |-> x1, vrf |-> x2, vni |-> x3, af |-> x4, addr |-> x5], c)
<1> DEFINE x == [type |-> x1, vrf |-> x2, vni |-> x3, af |-> x4, addr |-> x5, flag |-> Num(1)]
           y == [type |-> x1, vrf |-> x2, vni |-> x3, af |-> x4, addr |-> x5]
           D == {"type", "vrf", "vni", "af", "addr"} \union IF c THEN {"flag"} ELSE {}
<1>1. m.size = L3Layout[m.type].size /\ FloodReqAt = L3Layout[m.type].at
  <2>1. L3Layout[m.type] = Layout(FloodReqSeq)
    BY L3Layouts, Zenon
  <2> QED
    BY <2>1, FloodReqSeqLayout, Zenon
<1>2. Apart(FloodReqAt) /\ "flag" \in DOMAIN FloodReqAt
  BY DEF Apart, FloodReqAt, Field
<1>3. Fills(m.writes, FloodReqAt, D, x)
  BY DEF Fills, FloodReqAt, Field, Flag, PutIf
<1>4. /\ "flag" \in D <=> c
      /\ x["flag"] = Num(1) /\ DOMAIN y = DOMAIN FloodReqAt \ {"flag"}
      /\ y = [f \in DOMAIN y |-> y[f]] /\ \A f \in DOMAIN y : y[f] = IF f \in D THEN x[f] ELSE Num(0)
  BY DEF FloodReqAt
<1> HIDE DEF x, y, D
<1>5. Understood(Read(m), FloodReqAt, y, c)
  <2>1. Payload(m, FloodReqAt, D, x, y, c)
    BY <1>1, <1>2, <1>3, <1>4, Zenon DEF Payload
  <2> QED
    BY <2>1, RequestRead, Zenon
<1> QED
  BY <1>5, Zenon DEF y

\* What To4 and To16 make of an address, as the properties name it.
LEMMA IPForms ==
  ASSUME NEW hosts, NEW ip \in IPArgs(hosts)
  PROVE  /\ IsV4(ip) => To4(ip) = Wire(ip) /\ To4(ip) # NoIP /\ ip # NoIP
                        /\ To16(ip) = <<"ip6mapped", ip[2]>> /\ To16(ip) # NoIP
         /\ ~IsV4(ip) => To4(ip) = NoIP
         /\ ~IsV4(ip) /\ ip # NoIP => To16(ip) = Wire(ip) /\ To16(ip) # NoIP
         /\ ip = NoIP => To16(ip) = NoIP /\ ~IsV4(ip)
<1>1. CASE ip = NoIP
  BY <1>1 DEF IsV4, To4, To16, NoIP
<1>2. CASE ip # NoIP
  <2>1. PICK k \in {"v4", "mapped", "v6"}, h \in hosts : ip = <<k, h>>
    BY <1>2 DEF IPArgs
  <2>2. ip[1] = k /\ ip[2] = h
    BY <2>1
  <2> QED
    BY <1>2, <2>2 DEF IsV4, Wire, To4, To16, NoIP
<1> QED
  BY <1>1, <1>2

\* Numbers on the wire differ when they do.
LEMMA NumIs == \A a, b : Num(a) = Num(b) => a = b
BY DEF Num

\* m is a request for y, as c asks for it.
Asks(m, c, y) ==
  /\ m # Nothing
  /\ Without({"flag"}, Read(m)) = y
  /\ Read(m).flag = Num(1) <=> c.flag
  /\ IfaceKnown(m) <=> ~UnknownIface(c)

\* The fields y of a struct name the interface that c names, if c names one.
NamesIface(at, y, c) ==
  /\ c.flag \in BOOLEAN /\ DOMAIN y = DOMAIN at \ {"flag"}
  /\ IF c.op \in {"AddressAdd", "AddressDel"}
     THEN "iface" \in DOMAIN y /\ y["iface"] = Num(c.iface)
     ELSE "iface" \notin DOMAIN at /\ c.op # "AddressFlush"

\* Then what grout understands is what c asks.
LEMMA UnderstoodAsks ==
  ASSUME NEW m, NEW at, NEW y, NEW c, Understood(Read(m), at, y, c.flag), m.type # "nothing",
         NamesIface(at, y, c)
  PROVE  Asks(m, c, y)
<1> DEFINE g == Read(m)
<1> USE DEF NamesIface
<1>1. m # Nothing
  BY DEF Nothing, Msg
<1>2. /\ DOMAIN g = DOMAIN at /\ Without({"flag"}, g) = y
      /\ g["flag"] = IF c.flag THEN Num(1) ELSE Num(0)
  BY Zenon DEF Understood
<1>3. g.flag = Num(1) <=> c.flag
  <2>1. Num(1) # Num(0)
    BY DEF Num
  <2> HIDE DEF g
  <2> QED
    BY <1>2, <2>1, Zenon
<1>4. IfaceKnown(m) <=> ~UnknownIface(c)
  <2>1. CASE c.op \notin {"AddressAdd", "AddressDel"}
    BY <1>2, <2>1, Zenon DEF IfaceKnown, UnknownIface
  <2>2. CASE c.op \in {"AddressAdd", "AddressDel"}
    <3>1. "iface" \in DOMAIN g
      BY <1>2, <2>2, Zenon
    <3>2. g["iface"] = Num(c.iface)
      <4>1. Without({"flag"}, g) = [f \in DOMAIN g \ {"flag"} |-> g[f]] /\ "iface" \in DOMAIN g \ {"flag"}
        BY <1>2, <2>2, Zenon DEF Without
      <4> HIDE DEF g
      <4> QED
        BY <1>2, <2>2, <4>1, Zenon
    <3>3. IfaceKnown(m) <=> Num(c.iface) \in {Num(i) : i \in Ifaces}
      BY <3>1, <3>2, Zenon DEF IfaceKnown
    <3>4. Num(c.iface) \in {Num(i) : i \in Ifaces} <=> c.iface \in Ifaces
      BY NumIs, Zenon
    <3>5. UnknownIface(c) <=> c.iface \notin Ifaces
      BY <2>2, Zenon DEF UnknownIface
    <3> QED
      BY <3>3, <3>4, <3>5, Zenon
  <2> QED
    BY <2>1, <2>2
<1> QED
  BY <1>1, <1>2, <1>3, <1>4, Zenon DEF Asks

\* The address that c is about.
AddrOf(c) == [iface |-> Num(c.iface), ip |-> Wire(c.ip), prefixlen |-> Num(c.ones)]

\* AddressAdd and AddressDel.
LEMMA AddressAsks ==
  ASSUME NEW op \in {"AddressAdd", "AddressDel"}, NEW c \in AddrCalls(op)
  PROVE  /\ Unsendable(c) <=> AddressMsg(c) = Nothing
         /\ ~Unsendable(c) => /\ Fam(AddressMsg(c)) = Family(c)
                              /\ Asks(AddressMsg(c), c, AddrOf(c))
         /\ Meant(c) = [kind |-> <<"addr", Family(c)>>, val |-> AddrOf(c)]
<1>1. c.op = op /\ c.ip \in IPArgs(Hosts) /\ c.flag \in BOOLEAN
  BY DEF AddrCalls
<1>2. Unsendable(c) <=> c.ip = NoIP
  BY <1>1, Zenon DEF Unsendable
<1>3. Meant(c) = [kind |-> <<"addr", Family(c)>>, val |-> AddrOf(c)]
  BY <1>1 DEF Meant, AddrOf
<1>4. CASE IsV4(c.ip)
  <2> DEFINE m == Addr4(c, 12)
  <2>1. AddressMsg(c) = m /\ To4(c.ip) = Wire(c.ip) /\ ~Unsendable(c)
    BY <1>1, <1>2, <1>4, IPForms, Zenon DEF AddressMsg
  <2>2. /\ m.type = "ip4_addr" /\ m.size = 16
        /\ m.writes = {Put(0, 2, Num(c.iface)), Put(4, 4, Wire(c.ip)), Put(8, 1, Num(c.ones))}
                      \union Flag(c.flag, 12)
    BY <2>1 DEF Addr4, Msg
  <2> HIDE DEF m
  <2>3. Understood(Read(m), Addr4At, AddrOf(c), c.flag)
    BY <1>1, <2>2, ReadAddr4 DEF AddrOf
  <2>4. Asks(m, c, AddrOf(c))
    <3>1. NamesIface(Addr4At, AddrOf(c), c)
      BY <1>1 DEF NamesIface, AddrOf, Addr4At
    <3>2. m.type # "nothing"
      BY <2>2
    <3> QED
      BY <2>3, <3>1, <3>2, UnderstoodAsks, Zenon
  <2>5. Fam(m) = Family(c)
    BY <1>4, <2>2 DEF Fam, Family
  <2>6. m # Nothing
    BY <2>4, Zenon DEF Asks
  <2> QED
    BY <1>3, <2>1, <2>4, <2>5, <2>6, Zenon
<1>5. CASE ~IsV4(c.ip) /\ c.ip # NoIP
  <2> DEFINE m == Addr6(c)
  <2>1. AddressMsg(c) = m /\ To16(c.ip) = Wire(c.ip) /\ ~Unsendable(c)
    BY <1>1, <1>2, <1>5, IPForms, Zenon DEF AddressMsg
  <2>2. /\ m.type = "ip6_addr" /\ m.size = 22
        /\ m.writes = {Put(0, 2, Num(c.iface)), Put(2, 16, Wire(c.ip)), Put(18, 1, Num(c.ones))}
                      \union Flag(c.flag, 20)
    BY <2>1 DEF Addr6, Msg, offIP6
  <2> HIDE DEF m
  <2>3. Understood(Read(m), Addr6At, AddrOf(c), c.flag)
    <3>1. c.flag \in BOOLEAN
      BY <1>1, Zenon
    <3> QED
      BY <2>2, <3>1, ReadAddr6 DEF AddrOf
  <2>4. Asks(m, c, AddrOf(c))
    <3>1. NamesIface(Addr6At, AddrOf(c), c)
      BY <1>1 DEF NamesIface, AddrOf, Addr6At
    <3>2. m.type # "nothing"
      BY <2>2
    <3> QED
      BY <2>3, <3>1, <3>2, UnderstoodAsks, Zenon
  <2>5. Fam(m) = Family(c)
    BY <1>5, <2>2 DEF Fam, Family
  <2>6. m # Nothing
    BY <2>4, Zenon DEF Asks
  <2> QED
    BY <1>3, <2>1, <2>4, <2>5, <2>6, Zenon
<1>6. CASE c.ip = NoIP
  BY <1>1, <1>2, <1>3, <1>6, IPForms, Zenon DEF AddressMsg
<1> QED
  BY <1>4, <1>5, <1>6, Zenon

\* The route that RouteAdd is about, and what RouteDel names of one.
RouteOf(c) ==
  [vrf |-> Vrf(c), ip |-> Wire(c.ip), prefixlen |-> Num(c.ones),
   nh |-> Hop(c), nh_id |-> Num(0), origin |-> Num(4)]

\* What RouteDel names of a route.
RouteKey(c) == [vrf |-> Vrf(c), ip |-> Wire(c.ip), prefixlen |-> Num(c.ones)]

\* RouteAdd.
LEMMA RouteAddAsks ==
  ASSUME NEW c \in RouteCalls("RouteAdd")
  PROVE  /\ Unsendable(c) <=> RouteAddMsg(c) = Nothing
         /\ ~Unsendable(c) => /\ Fam(RouteAddMsg(c)) = Family(c)
                              /\ Asks(RouteAddMsg(c), c, RouteOf(c))
         /\ Meant(c) = [kind |-> <<"route", Family(c)>>, val |-> RouteOf(c)]
<1>1. c.op = "RouteAdd" /\ c.ip \in IPArgs(Hosts) /\ c.nh \in IPArgs(Hops) /\ c.flag \in BOOLEAN
  BY DEF RouteCalls
<1>2. Unsendable(c) <=> c.ip = NoIP \/ c.nh = NoIP \/ (IsV4(c.ip) /\ ~IsV4(c.nh))
  BY <1>1 DEF Unsendable
<1>3. Meant(c) = [kind |-> <<"route", Family(c)>>, val |-> RouteOf(c)]
  BY <1>1 DEF Meant, RouteOf
<1>v. Vrf(c) = Num(vrfID(c))
  BY DEF Vrf, vrfID
<1>4. CASE IsV4(c.ip) /\ IsV4(c.nh)
  <2> DEFINE m == RouteAddMsg(c)
  <2>1. /\ To4(c.ip) = Wire(c.ip) /\ To4(c.nh) = Wire(c.nh) /\ ~Unsendable(c)
        /\ To4(c.ip) # NoIP /\ To4(c.nh) # NoIP
    BY <1>1, <1>2, <1>4, IPForms, Zenon
  <2>h. Hop(c) = Wire(c.nh)
    BY <1>4 DEF Hop, Wire
  <2>2. /\ m.type = "ip4_route_add" /\ m.size = 24
        /\ m.writes = {Put(0, 2, Vrf(c)), Put(4, 4, Wire(c.ip)), Put(8, 1, Num(c.ones)),
                       Put(12, 4, Hop(c)), Put(20, 1, Num(4))} \union Flag(c.flag, 21)
    BY <1>v, <2>1, <2>h, Zenon DEF RouteAddMsg, Msg
  <2> HIDE DEF m
  <2>3. Understood(Read(m), RouteAdd4At, RouteOf(c), c.flag)
    BY <1>1, <2>2, ReadRouteAdd4 DEF RouteOf
  <2>4. Asks(m, c, RouteOf(c))
    <3>1. NamesIface(RouteAdd4At, RouteOf(c), c)
      BY <1>1 DEF NamesIface, RouteOf, RouteAdd4At
    <3>2. m.type # "nothing"
      BY <2>2
    <3> QED
      BY <2>3, <3>1, <3>2, UnderstoodAsks, Zenon
  <2>5. Fam(m) = Family(c)
    BY <1>4, <2>2 DEF Fam, Family
  <2>6. m # Nothing
    BY <2>4, Zenon DEF Asks
  <2> QED
    BY <1>3, <2>1, <2>4, <2>5, <2>6, Zenon DEF m
<1>5. CASE ~IsV4(c.ip) /\ c.ip # NoIP /\ c.nh # NoIP
  <2> DEFINE m == RouteAddMsg(c)
  <2>1. /\ To16(c.ip) = Wire(c.ip) /\ ~Unsendable(c)
        /\ To4(c.ip) = NoIP /\ To16(c.ip) # NoIP /\ To16(c.nh) # NoIP
    BY <1>1, <1>2, <1>5, IPForms, Zenon
  <2>h. Hop(c) = To16(c.nh)
    <3>1. CASE IsV4(c.nh)
      <4>1. To16(c.nh) = <<"ip6mapped", c.nh[2]>>
        BY <1>1, <3>1, IPForms, Zenon
      <4> QED
        BY <1>5, <3>1, <4>1 DEF Hop
    <3>2. CASE ~IsV4(c.nh)
      <4>1. To16(c.nh) = Wire(c.nh)
        BY <1>1, <1>5, <3>2, IPForms, Zenon
      <4> QED
        BY <1>5, <3>2, <4>1 DEF Hop, Wire
    <3> QED
      BY <3>1, <3>2
  <2>2. /\ m.type = "ip6_route_add" /\ m.size = 44
        /\ m.writes = {Put(0, 2, Vrf(c)), Put(2, 16, Wire(c.ip)), Put(18, 1, Num(c.ones)),
                       Put(19, 16, Hop(c)), Put(40, 1, Num(4))} \union Flag(c.flag, 41)
    BY <1>v, <2>1, <2>h, Zenon DEF RouteAddMsg, Msg, offIP6Rte
  <2> HIDE DEF m
  <2>3. Understood(Read(m), RouteAdd6At, RouteOf(c), c.flag)
    <3>1. c.flag \in BOOLEAN
      BY <1>1, Zenon
    <3> QED
      BY <2>2, <3>1, ReadRouteAdd6, Zenon DEF RouteOf
  <2>4. Asks(m, c, RouteOf(c))
    <3>1. NamesIface(RouteAdd6At, RouteOf(c), c)
      BY <1>1 DEF NamesIface, RouteOf, RouteAdd6At
    <3>2. m.type # "nothing"
      BY <2>2
    <3> QED
      BY <2>3, <3>1, <3>2, UnderstoodAsks, Zenon
  <2>5. Fam(m) = Family(c)
    BY <1>5, <2>2 DEF Fam, Family
  <2>6. m # Nothing
    BY <2>4, Zenon DEF Asks
  <2> QED
    BY <1>3, <2>1, <2>4, <2>5, <2>6, Zenon DEF m
<1>6. CASE c.ip = NoIP \/ c.nh = NoIP \/ (IsV4(c.ip) /\ ~IsV4(c.nh))
  <2>1. Unsendable(c)
    BY <1>2, <1>6
  <2>2. RouteAddMsg(c) = Nothing
    <3>1. IF To4(c.ip) # NoIP THEN To4(c.nh) = NoIP ELSE To16(c.ip) = NoIP \/ To16(c.nh) = NoIP
      BY <1>1, <1>6, IPForms, Zenon
    <3> QED
      BY <3>1, Zenon DEF RouteAddMsg
  <2> QED
    BY <1>3, <2>1, <2>2
<1> QED
  BY <1>4, <1>5, <1>6, Zenon

\* RouteDel.
LEMMA RouteDelAsks ==
  ASSUME NEW c \in RouteCalls("RouteDel")
  PROVE  /\ Unsendable(c) <=> RouteDelMsg(c) = Nothing
         /\ ~Unsendable(c) => /\ Fam(RouteDelMsg(c)) = Family(c)
                              /\ Asks(RouteDelMsg(c), c, RouteKey(c))
<1>1. c.op = "RouteDel" /\ c.ip \in IPArgs(Hosts) /\ c.flag \in BOOLEAN
  BY DEF RouteCalls
<1>2. Unsendable(c) <=> c.ip = NoIP
  BY <1>1 DEF Unsendable
<1>v. Vrf(c) = Num(vrfID(c))
  BY DEF Vrf, vrfID
<1>4. CASE IsV4(c.ip)
  <2> DEFINE m == RouteDelMsg(c)
  <2>1. To4(c.ip) = Wire(c.ip) /\ To4(c.ip) # NoIP /\ ~Unsendable(c)
    BY <1>1, <1>2, <1>4, IPForms, Zenon
  <2>2. /\ m.type = "ip4_route_del" /\ m.size = 16
        /\ m.writes = {Put(0, 2, Vrf(c)), Put(4, 4, Wire(c.ip)), Put(8, 1, Num(c.ones))}
                      \union Flag(c.flag, 12)
    BY <1>v, <2>1, Zenon DEF RouteDelMsg, Msg
  <2> HIDE DEF m
  <2>3. Understood(Read(m), RouteDel4At, RouteKey(c), c.flag)
    BY <1>1, <2>2, ReadRouteDel4 DEF RouteKey
  <2>4. Asks(m, c, RouteKey(c))
    <3>1. NamesIface(RouteDel4At, RouteKey(c), c)
      BY <1>1 DEF NamesIface, RouteKey, RouteDel4At
    <3>2. m.type # "nothing"
      BY <2>2
    <3> QED
      BY <2>3, <3>1, <3>2, UnderstoodAsks, Zenon
  <2>5. Fam(m) = Family(c)
    BY <1>4, <2>2 DEF Fam, Family
  <2>6. m # Nothing
    BY <2>4, Zenon DEF Asks
  <2> QED
    BY <2>1, <2>4, <2>5, <2>6, Zenon DEF m
<1>5. CASE ~IsV4(c.ip) /\ c.ip # NoIP
  <2> DEFINE m == RouteDelMsg(c)
  <2>1. To16(c.ip) = Wire(c.ip) /\ To4(c.ip) = NoIP /\ To16(c.ip) # NoIP /\ ~Unsendable(c)
    BY <1>1, <1>2, <1>5, IPForms, Zenon
  <2>2. /\ m.type = "ip6_route_del" /\ m.size = 20
        /\ m.writes = {Put(0, 2, Vrf(c)), Put(2, 16, Wire(c.ip)), Put(18, 1, Num(c.ones))}
                      \union Flag(c.flag, 19)
    BY <1>v, <2>1, Zenon DEF RouteDelMsg, Msg, offIP6Rte, offIP6RteDel
  <2> HIDE DEF m
  <2>3. Understood(Read(m), RouteDel6At, RouteKey(c), c.flag)
    BY <1>1, <2>2, ReadRouteDel6, Zenon DEF RouteKey
  <2>4. Asks(m, c, RouteKey(c))
    <3>1. NamesIface(RouteDel6At, RouteKey(c), c)
      BY <1>1 DEF NamesIface, RouteKey, RouteDel6At
    <3>2. m.type # "nothing"
      BY <2>2
    <3> QED
      BY <2>3, <3>1, <3>2, UnderstoodAsks, Zenon
  <2>5. Fam(m) = Family(c)
    BY <1>5, <2>2 DEF Fam, Family
  <2>6. m # Nothing
    BY <2>4, Zenon DEF Asks
  <2> QED
    BY <2>1, <2>4, <2>5, <2>6, Zenon DEF m
<1>6. CASE c.ip = NoIP
  BY <1>1, <1>2, <1>6, IPForms, Zenon DEF RouteDelMsg
<1> QED
  BY <1>4, <1>5, <1>6, Zenon

\* The flood entry that c is about.
FloodOf(c) ==
  [type |-> Num(1), vrf |-> Vrf(c), vni |-> Num(c.vni), af |-> Num(2), addr |-> Wire(c.ip)]

\* FloodAdd and FloodDel.
LEMMA FloodAsks ==
  ASSUME NEW op \in {"FloodAdd", "FloodDel"}, NEW c \in FloodCalls(op)
  PROVE  /\ Unsendable(c) <=> FloodMsg(c) = Nothing
         /\ ~Unsendable(c) => Asks(FloodMsg(c), c, FloodOf(c))
         /\ Meant(c) = [kind |-> <<"flood", "any">>, val |-> FloodOf(c)]
<1>1. c.op = op /\ c.ip \in IPArgs(Hosts) /\ c.flag \in BOOLEAN
  BY DEF FloodCalls
<1>2. Unsendable(c) <=> ~IsV4(c.ip)
  BY <1>1, IPForms, Zenon DEF Unsendable
<1>3. Meant(c) = [kind |-> <<"flood", "any">>, val |-> FloodOf(c)]
  BY <1>1 DEF Meant, FloodOf
<1>v. Vrf(c) = Num(vrfID(c))
  BY DEF Vrf, vrfID
<1>4. CASE IsV4(c.ip)
  <2> DEFINE m == FloodMsg(c)
  <2>1. To4(c.ip) = Wire(c.ip) /\ To4(c.ip) # NoIP /\ ~Unsendable(c)
    BY <1>1, <1>2, <1>4, IPForms, Zenon
  <2>w. putL3AddrIPv4(8, c.ip) = {Put(8, 1, Num(2)), Put(12, 4, Wire(c.ip))}
    BY <2>1 DEF putL3AddrIPv4, offL3Addr
  <2>2. /\ m.type = "flood" /\ m.size = 32
        /\ m.writes = {Put(0, 1, Num(1)), Put(2, 2, Vrf(c)), Put(4, 4, Num(c.vni))}
                      \union putL3AddrIPv4(8, c.ip) \union Flag(c.flag, 28)
    BY <1>v, <2>1 DEF FloodMsg, Msg, offFlood
  <2> HIDE DEF m
  <2>3. m.writes = {Put(0, 1, Num(1)), Put(2, 2, Vrf(c)), Put(4, 4, Num(c.vni)), Put(8, 1, Num(2)),
                    Put(12, 4, Wire(c.ip))} \union Flag(c.flag, 28)
    BY <2>2, <2>w
  <2>4. Understood(Read(m), FloodReqAt, FloodOf(c), c.flag)
    BY <1>1, <2>2, <2>3, ReadFlood DEF FloodOf
  <2>5. Asks(m, c, FloodOf(c))
    <3>1. NamesIface(FloodReqAt, FloodOf(c), c)
      BY <1>1 DEF NamesIface, FloodOf, FloodReqAt
    <3>2. m.type # "nothing"
      BY <2>2
    <3> QED
      BY <2>4, <3>1, <3>2, UnderstoodAsks, Zenon
  <2>6. m # Nothing
    BY <2>5, Zenon DEF Asks
  <2> QED
    BY <1>3, <2>1, <2>5, <2>6, Zenon DEF m
<1>5. CASE ~IsV4(c.ip)
  BY <1>1, <1>2, <1>3, <1>5, IPForms, Zenon DEF FloodMsg
<1> QED
  BY <1>4, <1>5, Zenon

\* What grout's tables may hold.  A call finds an address or a flood entry by
\* all of its fields, which tells them apart only if these are all they have.
IsAddr(o) ==
  \E fam \in {"ip4", "ip6"} : \E i, a, p :
    o = [kind |-> <<"addr", fam>>, val |-> [iface |-> i, ip |-> a, prefixlen |-> p]]

\* A route, of which nothing more is needed.
IsRoute(o) == \E fam \in {"ip4", "ip6"} : o.kind = <<"route", fam>>

\* A flood entry.
IsFlood(o) ==
  \E r, v, f, a :
    o = [kind |-> <<"flood", "any">>,
         val |-> [type |-> Num(1), vrf |-> r, vni |-> v, af |-> f, addr |-> a]]

\* Every object of the tables is one of these.
WellFormed(tab) == \A o \in tab : IsAddr(o) \/ IsRoute(o) \/ IsFlood(o)

\* The invariant of the tables.
TableInv == WellFormed(table)

\* What CallsDoWhatTheySay says of a call c that made new of old.
Says(c, ok, lost, old, new) ==
  IF ok THEN ~Unsendable(c) /\ new = Done(c, old)
  ELSE IF lost THEN ~Unsendable(c) /\ new \in {old, HalfDone(c, old), Done(c, old)}
  ELSE /\ new = old
       /\ \/ Unsendable(c)
          \/ UnknownIface(c)
          \/ Adding(c) /\ Meant(c) \in old /\ ~c.flag
          \/ ~Adding(c) /\ Targets(c, old) = {} /\ ~c.flag

\* The last call did what it says.
CallSays == Says(last'.call, last'.ok, last'.lost, table, table')

\* A call whose request adds the object it is about does what it says.
LEMMA AddSays ==
  ASSUME NEW c, NEW m, NEW kind, NEW y, Adding(c), Unsendable(c) <=> m = Nothing,
         ~Unsendable(c) => Asks(m, c, y) /\ Meant(c) = [kind |-> kind, val |-> y],
         Request(c, m, Adds(kind, m))
  PROVE  CallSays /\ (table' = table \/ table' = table \union {Meant(c)})
<1>1. CASE m = Nothing
  <2>1. table' = table /\ last' = [call |-> c, ok |-> FALSE, lost |-> FALSE] /\ Unsendable(c)
    BY <1>1, Zenon DEF Request, Refused
  <2>2. last'.call = c /\ last'.ok = FALSE /\ last'.lost = FALSE
    BY <2>1
  <2> QED
    BY <2>1, <2>2, Zenon DEF CallSays, Says
<1>2. CASE m # Nothing
  <2> DEFINE fine == ~UnknownIface(c) /\ (Meant(c) \in table => c.flag)
  <2>1. ~Unsendable(c) /\ Asks(m, c, y) /\ Meant(c) = [kind |-> kind, val |-> y]
    BY <1>2, Zenon
  <2>2. Object(kind, m) = Meant(c)
    BY <2>1, Zenon DEF Object, Asks
  <2>3. Adds(kind, m) = [ok |-> fine, table |-> IF fine THEN table \union {Meant(c)} ELSE table]
    <3>1. (IfaceKnown(m) /\ (Object(kind, m) \in table => Read(m).flag = Num(1))) = fine
      BY <2>1, <2>2, Zenon DEF Asks
    <3> HIDE DEF fine
    <3> QED
      BY <2>2, <3>1, Zenon DEF Adds
  <2>4. Adds(kind, m).ok = fine /\ Adds(kind, m).table = IF fine THEN table \union {Meant(c)} ELSE table
    <3> HIDE DEF fine
    <3> QED
      BY <2>3
  <2>d. Done(c, table) = table \union {Meant(c)}
    BY Zenon DEF Done
  <2>5. CASE Answered(c, Adds(kind, m))
    <3>1. /\ table' = IF fine THEN table \union {Meant(c)} ELSE table
          /\ last' = [call |-> c, ok |-> fine, lost |-> FALSE]
      <4> HIDE DEF fine
      <4> QED
        BY <2>4, <2>5, Zenon DEF Answered
    <3>2. last'.call = c /\ last'.ok = fine /\ last'.lost = FALSE
      <4> HIDE DEF fine
      <4> QED
        BY <3>1
    <3> QED
      BY <2>1, <2>d, <3>1, <3>2, Zenon DEF CallSays, Says
  <2>6. CASE \E t \in {table, Adds(kind, m).table} : Lost(c, t)
    <3>1. /\ table' = table \/ table' = table \union {Meant(c)}
          /\ last' = [call |-> c, ok |-> FALSE, lost |-> TRUE]
      <4> HIDE DEF fine
      <4> QED
        BY <2>4, <2>6, Zenon DEF Lost
    <3>2. last'.call = c /\ last'.ok = FALSE /\ last'.lost = TRUE
      BY <3>1
    <3> QED
      BY <2>1, <2>d, <3>1, <3>2, Zenon DEF CallSays, Says
  <2> QED
    BY <1>2, <2>5, <2>6, Zenon DEF Request
<1> QED
  BY <1>1, <1>2

\* So does one whose request removes the objects it would take away.
LEMMA RemoveSays ==
  ASSUME NEW c, NEW m, NEW kind, NEW y, ~Adding(c), Unsendable(c) <=> m = Nothing,
         ~Unsendable(c) => /\ Asks(m, c, y)
                           /\ Targets(c, table) = {o \in table : Agrees(o, kind, y)},
         Request(c, m, Removes(kind, m))
  PROVE  CallSays /\ table' \subseteq table
<1>1. CASE m = Nothing
  <2>1. table' = table /\ last' = [call |-> c, ok |-> FALSE, lost |-> FALSE] /\ Unsendable(c)
    BY <1>1, Zenon DEF Request, Refused
  <2>2. last'.call = c /\ last'.ok = FALSE /\ last'.lost = FALSE
    BY <2>1
  <2> QED
    BY <2>1, <2>2, Zenon DEF CallSays, Says
<1>2. CASE m # Nothing
  <2> DEFINE gone == Targets(c, table)
             fine == ~UnknownIface(c) /\ (gone = {} => c.flag)
  <2>1. /\ ~Unsendable(c) /\ Asks(m, c, y)
        /\ gone = {o \in table : Agrees(o, kind, y)}
    BY <1>2, Zenon
  <2>2. gone = {o \in table : Agrees(o, kind, Without({"flag"}, Read(m)))}
    BY <2>1, Zenon DEF Asks
  <2> HIDE DEF gone
  <2>3. Removes(kind, m) = [ok |-> fine, table |-> IF fine THEN table \ gone ELSE table]
    <3>1. (IfaceKnown(m) /\ (gone = {} => Read(m).flag = Num(1))) = fine
      BY <2>1, Zenon DEF Asks
    <3> HIDE DEF fine
    <3> QED
      BY <2>2, <3>1, Zenon DEF Removes
  <2>4. Removes(kind, m).ok = fine /\ Removes(kind, m).table = IF fine THEN table \ gone ELSE table
    <3> HIDE DEF fine
    <3> QED
      BY <2>3
  <2>d. Done(c, table) = table \ gone
    BY Zenon DEF Done, gone
  <2>5. CASE Answered(c, Removes(kind, m))
    <3>1. /\ table' = IF fine THEN table \ gone ELSE table
          /\ last' = [call |-> c, ok |-> fine, lost |-> FALSE]
      <4> HIDE DEF fine
      <4> QED
        BY <2>4, <2>5, Zenon DEF Answered
    <3>2. last'.call = c /\ last'.ok = fine /\ last'.lost = FALSE
      <4> HIDE DEF fine
      <4> QED
        BY <3>1
    <3> QED
      BY <2>1, <2>d, <3>1, <3>2, Zenon DEF CallSays, Says, gone
  <2>6. CASE \E t \in {table, Removes(kind, m).table} : Lost(c, t)
    <3>1. /\ table' = table \/ table' = table \ gone
          /\ last' = [call |-> c, ok |-> FALSE, lost |-> TRUE]
      <4> HIDE DEF fine
      <4> QED
        BY <2>4, <2>6, Zenon DEF Lost
    <3>2. last'.call = c /\ last'.ok = FALSE /\ last'.lost = TRUE
      BY <3>1
    <3> QED
      BY <2>1, <2>d, <3>1, <3>2, Zenon DEF CallSays, Says
  <2> QED
    BY <1>2, <2>5, <2>6, Zenon DEF Request
<1> QED
  BY <1>1, <1>2

\* An address is the one that a call is about when all its fields are.
LEMMA AddrAgrees ==
  ASSUME NEW tab, WellFormed(tab), NEW fam \in {"ip4", "ip6"}, NEW i, NEW a, NEW p
  PROVE  {o \in tab : Agrees(o, <<"addr", fam>>, [iface |-> i, ip |-> a, prefixlen |-> p])}
           = tab \intersect {[kind |-> <<"addr", fam>>, val |-> [iface |-> i, ip |-> a, prefixlen |-> p]]}
<1> DEFINE r == [iface |-> i, ip |-> a, prefixlen |-> p]
           x == [kind |-> <<"addr", fam>>, val |-> r]
<1>1. ASSUME NEW o \in tab, Agrees(o, <<"addr", fam>>, r) PROVE o = x
  <2>1. /\ o.kind = <<"addr", fam>> /\ o.val["iface"] = i /\ o.val["ip"] = a /\ o.val["prefixlen"] = p
    BY <1>1 DEF Agrees
  <2>2. IsAddr(o)
    <3>1. ~IsRoute(o)
      BY <2>1 DEF IsRoute
    <3>2. ~IsFlood(o)
      BY <2>1 DEF IsFlood
    <3> QED
      BY <1>1, <3>1, <3>2, Zenon DEF WellFormed
  <2>3. PICK fam2, j, b, q :
          o = [kind |-> <<"addr", fam2>>, val |-> [iface |-> j, ip |-> b, prefixlen |-> q]]
    BY <2>2, Zenon DEF IsAddr
  <2>4. o.kind = <<"addr", fam2>> /\ o.val = [iface |-> j, ip |-> b, prefixlen |-> q]
    BY <2>3
  <2>5. j = i /\ b = a /\ q = p
    BY <2>1, <2>4
  <2> QED
    BY <2>1, <2>3, <2>4, <2>5, Zenon
<1>2. Agrees(x, <<"addr", fam>>, r)
  BY DEF Agrees
<1> HIDE DEF x, r
<1>3. {o \in tab : Agrees(o, <<"addr", fam>>, r)} = tab \intersect {x}
  BY <1>1, <1>2, Zenon
<1> QED
  BY <1>3, Zenon DEF x, r

\* So is a flood entry.
LEMMA FloodAgrees ==
  ASSUME NEW tab, WellFormed(tab), NEW r, NEW v, NEW f, NEW a, NEW y,
         y = [type |-> Num(1), vrf |-> r, vni |-> v, af |-> f, addr |-> a]
  PROVE  {o \in tab : Agrees(o, <<"flood", "any">>, y)}
           = tab \intersect {[kind |-> <<"flood", "any">>, val |-> y]}
<1> DEFINE x == [kind |-> <<"flood", "any">>, val |-> y]
<1>1. ASSUME NEW o \in tab, Agrees(o, <<"flood", "any">>, y) PROVE o = x
  <2>1. /\ o.kind = <<"flood", "any">> /\ o.val["vrf"] = r /\ o.val["vni"] = v /\ o.val["af"] = f
        /\ o.val["addr"] = a
    BY <1>1 DEF Agrees
  <2>2. IsFlood(o)
    <3>1. ~IsRoute(o)
      BY <2>1 DEF IsRoute
    <3>2. ~IsAddr(o)
      BY <2>1 DEF IsAddr
    <3> QED
      BY <1>1, <3>1, <3>2, Zenon DEF WellFormed
  <2>3. PICK r2, v2, f2, a2 :
          o = [kind |-> <<"flood", "any">>,
               val |-> [type |-> Num(1), vrf |-> r2, vni |-> v2, af |-> f2, addr |-> a2]]
    BY <2>2, Zenon DEF IsFlood
  <2>4. o.val = [type |-> Num(1), vrf |-> r2, vni |-> v2, af |-> f2, addr |-> a2]
    BY <2>3
  <2>5. r2 = r /\ v2 = v /\ f2 = f /\ a2 = a
    BY <2>1, <2>4
  <2> QED
    BY <2>3, <2>5, Zenon
<1>2. Agrees(x, <<"flood", "any">>, y)
  BY DEF Agrees
<1> HIDE DEF x
<1> QED
  BY <1>1, <1>2, Zenon DEF x

\* A request without a flag whose fields are all filled is read as it was filled.
LEMMA PlainRead ==
  ASSUME NEW m, NEW at, m.size = L3Layout[m.type].size, at = L3Layout[m.type].at, Apart(at),
         NEW x, Fills(m.writes, at, DOMAIN at, x), DOMAIN x = DOMAIN at, x = [f \in DOMAIN x |-> x[f]]
  PROVE  Read(m) = x
<1>1. Read(m) = [f \in DOMAIN at |-> Get(m.writes, at[f])]
  BY Zenon DEF Read, Decode
<1>2. \A f \in DOMAIN at : Get(m.writes, at[f]) = x[f]
  <2>1. TAKE f \in DOMAIN at
  <2> QED
    BY <2>1, FillsRead
<1>3. [f \in DOMAIN at |-> Get(m.writes, at[f])] = [f \in DOMAIN x |-> x[f]]
  BY <1>2, Zenon
<1> QED
  BY <1>1, <1>3, Zenon

\* AddressFlush names the interface.
LEMMA FlushRead ==
  ASSUME NEW c
  PROVE  Read(FlushMsg(c)) = [iface |-> Num(c.iface)]
<1> DEFINE m == FlushMsg(c)
           at == [iface |-> Field(0, 2)]
           x == [iface |-> Num(c.iface)]
<1>1. m.type = "flush" /\ m.size = 2 /\ m.writes = {Put(0, 2, Num(c.iface))}
  BY DEF FlushMsg, Msg
<1> HIDE DEF m
<1>2. m.size = L3Layout[m.type].size /\ at = L3Layout[m.type].at
  <2>1. L3Layout[m.type] = Layout(IfaceIdSeq)
    BY <1>1, L3Layouts, Zenon
  <2> QED
    BY <1>1, <2>1, IfaceIdSeqLayout, Zenon DEF IfaceIdAt
<1>3. Apart(at)
  BY DEF Apart, Field
<1>4. Fills(m.writes, at, DOMAIN at, x)
  BY <1>1 DEF Fills, Field
<1>5. DOMAIN x = DOMAIN at /\ x = [f \in DOMAIN x |-> x[f]]
  OBVIOUS
<1> HIDE DEF at, x
<1>6. Read(m) = x
  BY <1>2, <1>3, <1>4, <1>5, PlainRead, Zenon
<1> QED
  BY <1>6, Zenon DEF x, m

\* FloodList names the type and the VRF.
LEMMA FloodListRead ==
  ASSUME NEW c
  PROVE  Read(FloodListMsg(c)) = [type |-> Num(1), vrf |-> Num(vrfID(c))]
<1> DEFINE m == FloodListMsg(c)
           at == [type |-> Field(0, 1), vrf |-> Field(2, 2)]
           x == [type |-> Num(1), vrf |-> Num(vrfID(c))]
<1>1. m.type = "flood_list" /\ m.size = 4 /\ m.writes = {Put(0, 1, Num(1)), Put(2, 2, Num(vrfID(c)))}
  BY DEF FloodListMsg, Msg, offFlood
<1> HIDE DEF m
<1>2. m.size = L3Layout[m.type].size /\ at = L3Layout[m.type].at
  <2>1. L3Layout[m.type] = Layout(FloodListSeq)
    BY <1>1, L3Layouts, Zenon
  <2> QED
    BY <1>1, <2>1, FloodListSeqLayout, Zenon DEF FloodListAt
<1>3. Apart(at)
  BY DEF Apart, Field
<1>4. Fills(m.writes, at, DOMAIN at, x)
  BY <1>1 DEF Fills, Field
<1>5. DOMAIN x = DOMAIN at /\ x = [f \in DOMAIN x |-> x[f]]
  OBVIOUS
<1> HIDE DEF at, x
<1>6. Read(m) = x
  BY <1>2, <1>3, <1>4, <1>5, PlainRead, Zenon
<1> QED
  BY <1>6, Zenon DEF x, m

\* A flush takes every address of the interface away, of both families.
LEMMA FlushSays ==
  ASSUME TableInv, NEW i, NEW c, c = [op |-> "AddressFlush", iface |-> i], AddressFlush(c)
  PROVE  CallSays /\ table' \subseteq table
<1> DEFINE m == FlushMsg(c)
           A4 == {o \in table : Agrees(o, <<"addr", "ip4">>, Read(m))}
           A6 == {o \in table : Agrees(o, <<"addr", "ip6">>, Read(m))}
           known == i \in Ifaces
<1>1. c.op = "AddressFlush" /\ c.iface = i
  OBVIOUS
<1>2. Read(m) = [iface |-> Num(i)]
  BY <1>1, FlushRead, Zenon
<1>3. IfaceKnown(m) = known
  <2>1. "iface" \in DOMAIN Read(m) /\ Read(m).iface = Num(i)
    BY <1>2
  <2>2. Num(i) \in {Num(j) : j \in Ifaces} <=> i \in Ifaces
    BY NumIs, Zenon
  <2>3. IfaceKnown(m) <=> known
    BY <2>1, <2>2, Zenon DEF IfaceKnown
  <2>4. IfaceKnown(m) \in BOOLEAN
    BY Zenon DEF IfaceKnown
  <2> HIDE DEF m
  <2> QED
    BY <2>3, <2>4
<1>4. ~Adding(c) /\ ~Unsendable(c) /\ (UnknownIface(c) <=> ~known)
  BY <1>1 DEF Adding, Unsendable, UnknownIface
<1>5. Targets(c, table) = A4 \union A6
  <2>1. Targets(c, table) = {o \in table : o.kind[1] = "addr" /\ o.val.iface = Num(i)}
    BY <1>1 DEF Targets
  <2>2. ASSUME NEW o \in table
        PROVE  o.kind[1] = "addr" <=> o.kind = <<"addr", "ip4">> \/ o.kind = <<"addr", "ip6">>
    <3>1. CASE IsAddr(o)
      BY <3>1 DEF IsAddr
    <3>2. CASE IsRoute(o)
      BY <3>2 DEF IsRoute
    <3>3. CASE IsFlood(o)
      BY <3>3 DEF IsFlood
    <3> QED
      BY <2>2, <3>1, <3>2, <3>3, Zenon DEF TableInv, WellFormed
  <2>3. ASSUME NEW o, NEW k PROVE Agrees(o, k, Read(m)) <=> o.kind = k /\ o.val.iface = Num(i)
    BY <1>2 DEF Agrees
  <2> HIDE DEF m
  <2> QED
    BY <2>1, <2>2, <2>3, Zenon
<1> DEFINE first == Flushes(<<"addr", "ip4">>, m)
<1>6. first = [ok |-> known, table |-> IF known THEN table \ A4 ELSE table]
  <2>1. {o \in table : ~Agrees(o, <<"addr", "ip4">>, Read(m))} = table \ A4
    BY Zenon
  <2> HIDE DEF A4, known
  <2> QED
    BY <1>3, <2>1, Zenon DEF Flushes
<1>7. first.ok = known /\ first.table = IF known THEN table \ A4 ELSE table
  <2> HIDE DEF first, A4, known
  <2> QED
    BY <1>6
<1> DEFINE both == IF first.ok
                   THEN {o \in first.table : ~Agrees(o, <<"addr", "ip6">>, Read(m))} ELSE table
<1>8. \/ Answered(c, [first EXCEPT !.table = both])
      \/ \E t \in {table, first.table, both} : Lost(c, t)
  BY Zenon DEF AddressFlush
<1>9. both = IF known THEN table \ (A4 \union A6) ELSE table
  <2>1. {o \in table \ A4 : ~Agrees(o, <<"addr", "ip6">>, Read(m))} = table \ (A4 \union A6)
    BY Zenon
  <2> HIDE DEF first, A4, A6, known
  <2> QED
    BY <1>7, <2>1, Zenon
<1>10. Done(c, table) = table \ (A4 \union A6) /\ HalfDone(c, table) = table \ A4
  <2>1. {o \in A4 \union A6 : o.kind[2] = "ip4"} = A4
    <3>1. (\A o \in A4 : o.kind = <<"addr", "ip4">>) /\ (\A o \in A6 : o.kind = <<"addr", "ip6">>)
      BY Zenon DEF Agrees
    <3> HIDE DEF A4, A6
    <3> QED
      BY <3>1
  <2> HIDE DEF A4, A6
  <2> QED
    BY <1>1, <1>4, <1>5, <2>1, Zenon DEF Done, HalfDone
<1> HIDE DEF A4, A6, known
<1>11. CASE \E t \in {table, first.table, both} : Lost(c, t)
  <2> HIDE DEF first, both
  <2>1. /\ table' \in {table, table \ A4, table \ (A4 \union A6)}
        /\ last' = [call |-> c, ok |-> FALSE, lost |-> TRUE]
    BY <1>7, <1>9, <1>11, Zenon DEF Lost
  <2>2. last'.call = c /\ last'.ok = FALSE /\ last'.lost = TRUE
    BY <2>1
  <2>3. table' \subseteq table
    BY <2>1, Zenon
  <2> QED
    BY <1>4, <1>10, <2>1, <2>2, <2>3, Zenon DEF CallSays, Says
<1>12. CASE Answered(c, [first EXCEPT !.table = both])
  <2>1. [first EXCEPT !.table = both] = [ok |-> known, table |-> both]
    <3> HIDE DEF first, both
    <3>1. first = [ok |-> known, table |-> first.table]
      BY <1>6
    <3> QED
      BY <3>1
  <2> HIDE DEF first, both
  <2>2. /\ table' = IF known THEN table \ (A4 \union A6) ELSE table
        /\ last' = [call |-> c, ok |-> known, lost |-> FALSE]
    BY <1>9, <1>12, <2>1, ZenonT(60) DEF Answered
  <2>3. last'.call = c /\ last'.ok = known /\ last'.lost = FALSE
    BY <2>2
  <2> QED
    BY <1>4, <1>10, <2>2, <2>3, Zenon DEF CallSays, Says
<1> QED
  BY <1>8, <1>11, <1>12, Zenon

\* One more object of a good form, or some fewer objects, leave the tables well formed.
LEMMA StaysWellFormed ==
  ASSUME NEW old, NEW new, WellFormed(old)
  PROVE  /\ new \subseteq old => WellFormed(new)
         /\ \A o : new = old \union {o} /\ (IsAddr(o) \/ IsRoute(o) \/ IsFlood(o)) => WellFormed(new)
BY Zenon DEF WellFormed

\* A step keeps the tables well formed, and does what its call says.
LEMMA L3Step ==
  ASSUME TableInv, [L3Next]_l3Vars
  PROVE  TableInv' /\ (last' # last => CallSays)
<1> SUFFICES WellFormed(table') /\ (last' # last => CallSays)
  BY Zenon DEF TableInv
<1>0. WellFormed(table)
  BY Zenon DEF TableInv
<1>f. \A c : Family(c) \in {"ip4", "ip6"}
  BY Zenon DEF Family
<1>1. ASSUME NEW c \in AddrCalls("AddressAdd"), AddressAdd(c)
      PROVE  WellFormed(table') /\ CallSays
  <2> DEFINE m == AddressMsg(c)
  <2>1. c.op = "AddressAdd"
    BY DEF AddrCalls
  <2>2. Adding(c)
    BY <2>1, Zenon DEF Adding
  <2>3. /\ Unsendable(c) <=> m = Nothing
        /\ ~Unsendable(c) => Fam(m) = Family(c) /\ Asks(m, c, AddrOf(c))
        /\ Meant(c) = [kind |-> <<"addr", Family(c)>>, val |-> AddrOf(c)]
    BY AddressAsks, Zenon
  <2>4. Request(c, m, Adds(<<"addr", Fam(m)>>, m))
    BY <1>1, Zenon DEF AddressAdd
  <2> HIDE DEF m
  <2>5. CallSays /\ (table' = table \/ table' = table \union {Meant(c)})
    BY <2>2, <2>3, <2>4, AddSays, Zenon
  <2>6. IsAddr(Meant(c))
    BY <1>f, <2>3, Zenon DEF IsAddr, AddrOf
  <2> QED
    BY <1>0, <2>5, <2>6, StaysWellFormed, Zenon
<1>2. ASSUME NEW c \in AddrCalls("AddressDel"), AddressDel(c)
      PROVE  WellFormed(table') /\ CallSays
  <2> DEFINE m == AddressMsg(c)
  <2>1. c.op = "AddressDel"
    BY DEF AddrCalls
  <2>2. ~Adding(c) /\ Targets(c, table) = table \intersect {Meant(c)}
    BY <2>1 DEF Adding, Targets
  <2>3. /\ Unsendable(c) <=> m = Nothing
        /\ ~Unsendable(c) => Fam(m) = Family(c) /\ Asks(m, c, AddrOf(c))
        /\ Meant(c) = [kind |-> <<"addr", Family(c)>>, val |-> AddrOf(c)]
    BY AddressAsks, Zenon
  <2>4. Request(c, m, Removes(<<"addr", Fam(m)>>, m))
    BY <1>2, Zenon DEF AddressDel
  <2>5. Targets(c, table) = {o \in table : Agrees(o, <<"addr", Family(c)>>, AddrOf(c))}
    <3>1. {o \in table : Agrees(o, <<"addr", Family(c)>>, AddrOf(c))}
            = table \intersect {[kind |-> <<"addr", Family(c)>>, val |-> AddrOf(c)]}
      <4>1. Family(c) \in {"ip4", "ip6"}
        BY <1>f, Zenon
      <4> QED
        BY <1>0, <4>1, AddrAgrees DEF AddrOf
    <3> QED
      BY <2>2, <2>3, <3>1, Zenon
  <2> HIDE DEF m
  <2>6. CallSays /\ table' \subseteq table
    BY <2>2, <2>3, <2>4, <2>5, RemoveSays, Zenon
  <2> QED
    BY <1>0, <2>6, StaysWellFormed, Zenon
<1>3. ASSUME NEW i \in IfaceArgs, AddressFlush([op |-> "AddressFlush", iface |-> i])
      PROVE  WellFormed(table') /\ CallSays
  <2>1. CallSays /\ table' \subseteq table
    BY <1>3, FlushSays, Zenon
  <2> QED
    BY <1>0, <2>1, StaysWellFormed, Zenon
<1>4. ASSUME NEW c \in RouteCalls("RouteAdd"), RouteAdd(c)
      PROVE  WellFormed(table') /\ CallSays
  <2> DEFINE m == RouteAddMsg(c)
  <2>1. c.op = "RouteAdd"
    BY DEF RouteCalls
  <2>2. Adding(c)
    BY <2>1, Zenon DEF Adding
  <2>3. /\ Unsendable(c) <=> m = Nothing
        /\ ~Unsendable(c) => Fam(m) = Family(c) /\ Asks(m, c, RouteOf(c))
        /\ Meant(c) = [kind |-> <<"route", Family(c)>>, val |-> RouteOf(c)]
    BY RouteAddAsks, Zenon
  <2>4. Request(c, m, Adds(<<"route", Fam(m)>>, m))
    BY <1>4, Zenon DEF RouteAdd
  <2> HIDE DEF m
  <2>5. CallSays /\ (table' = table \/ table' = table \union {Meant(c)})
    BY <2>2, <2>3, <2>4, AddSays, Zenon
  <2>6. IsRoute(Meant(c))
    BY <1>f, <2>3 DEF IsRoute
  <2> QED
    BY <1>0, <2>5, <2>6, StaysWellFormed, Zenon
<1>5. ASSUME NEW c \in RouteCalls("RouteDel"), RouteDel(c)
      PROVE  WellFormed(table') /\ CallSays
  <2> DEFINE m == RouteDelMsg(c)
  <2>1. c.op = "RouteDel"
    BY DEF RouteCalls
  <2>2. /\ ~Adding(c)
        /\ Targets(c, table) = {o \in table : Agrees(o, <<"route", Family(c)>>, RouteKey(c))}
    BY <2>1 DEF Adding, Targets, RouteKey
  <2>3. /\ Unsendable(c) <=> m = Nothing
        /\ ~Unsendable(c) => Fam(m) = Family(c) /\ Asks(m, c, RouteKey(c))
    BY RouteDelAsks, Zenon
  <2>4. Request(c, m, Removes(<<"route", Fam(m)>>, m))
    BY <1>5, Zenon DEF RouteDel
  <2> HIDE DEF m
  <2>5. CallSays /\ table' \subseteq table
    BY <2>2, <2>3, <2>4, RemoveSays, Zenon
  <2> QED
    BY <1>0, <2>5, StaysWellFormed, Zenon
<1>6. ASSUME NEW c \in FloodCalls("FloodAdd"), FloodAdd(c)
      PROVE  WellFormed(table') /\ CallSays
  <2> DEFINE m == FloodMsg(c)
  <2>1. c.op = "FloodAdd"
    BY DEF FloodCalls
  <2>2. Adding(c)
    BY <2>1, Zenon DEF Adding
  <2>3. /\ Unsendable(c) <=> m = Nothing
        /\ ~Unsendable(c) => Asks(m, c, FloodOf(c))
        /\ Meant(c) = [kind |-> <<"flood", "any">>, val |-> FloodOf(c)]
    BY FloodAsks, Zenon
  <2>4. Request(c, m, Adds(<<"flood", "any">>, m))
    BY <1>6, Zenon DEF FloodAdd
  <2> HIDE DEF m
  <2>5. CallSays /\ (table' = table \/ table' = table \union {Meant(c)})
    BY <2>2, <2>3, <2>4, AddSays, Zenon
  <2>6. IsFlood(Meant(c))
    BY <2>3, Zenon DEF IsFlood, FloodOf
  <2> QED
    BY <1>0, <2>5, <2>6, StaysWellFormed, Zenon
<1>7. ASSUME NEW c \in FloodCalls("FloodDel"), FloodDel(c)
      PROVE  WellFormed(table') /\ CallSays
  <2> DEFINE m == FloodMsg(c)
  <2>1. c.op = "FloodDel"
    BY DEF FloodCalls
  <2>2. ~Adding(c) /\ Targets(c, table) = table \intersect {Meant(c)}
    BY <2>1 DEF Adding, Targets
  <2>3. /\ Unsendable(c) <=> m = Nothing
        /\ ~Unsendable(c) => Asks(m, c, FloodOf(c))
        /\ Meant(c) = [kind |-> <<"flood", "any">>, val |-> FloodOf(c)]
    BY FloodAsks, Zenon
  <2>4. Request(c, m, Removes(<<"flood", "any">>, m))
    BY <1>7, Zenon DEF FloodDel
  <2>5. Targets(c, table) = {o \in table : Agrees(o, <<"flood", "any">>, FloodOf(c))}
    <3>1. {o \in table : Agrees(o, <<"flood", "any">>, FloodOf(c))}
            = table \intersect {[kind |-> <<"flood", "any">>, val |-> FloodOf(c)]}
      BY <1>0, FloodAgrees DEF FloodOf
    <3> QED
      BY <2>2, <2>3, <3>1, Zenon
  <2> HIDE DEF m
  <2>6. CallSays /\ table' \subseteq table
    BY <2>2, <2>3, <2>4, <2>5, RemoveSays, Zenon
  <2> QED
    BY <1>0, <2>6, StaysWellFormed, Zenon
<1>8. ASSUME OthersFlood
      PROVE  WellFormed(table') /\ last' = last
  <2>1. PICK v, vrf :
          /\ table' = table \union
               {[kind |-> <<"flood", "any">>,
                 val |-> [type |-> Num(1), vrf |-> Num(vrf), vni |-> Num(v),
                          af |-> Num(10), addr |-> <<"part of an IPv6 address">>]]}
          /\ UNCHANGED last
    BY <1>8, Zenon DEF OthersFlood
  <2> DEFINE o == [kind |-> <<"flood", "any">>,
                   val |-> [type |-> Num(1), vrf |-> Num(vrf), vni |-> Num(v),
                            af |-> Num(10), addr |-> <<"part of an IPv6 address">>]]
  <2>2. IsFlood(o)
    BY Zenon DEF IsFlood
  <2> HIDE DEF o
  <2> QED
    BY <1>0, <2>1, <2>2, StaysWellFormed, Zenon DEF o
<1>9. CASE UNCHANGED l3Vars
  BY <1>0, <1>9, Zenon DEF l3Vars
<1> QED
  BY <1>1, <1>2, <1>3, <1>4, <1>5, <1>6, <1>7, <1>8, <1>9, Zenon DEF L3Next

\* grout's tables are well formed.
LEMMA TableInvariant == L3Spec => []TableInv
<1>1. L3Init => TableInv
  BY Zenon DEF L3Init, TableInv, WellFormed
<1>2. TableInv /\ [L3Next]_l3Vars => TableInv'
  BY L3Step
<1> QED
  BY <1>1, <1>2, PTL DEF L3Spec

\* Every call on addresses, routes and flood entries that returns nil has done in
\* grout's tables what it says, one that is refused has done nothing, and one whose
\* connection is lost has done it, none of it or, a flush, its first half.
THEOREM CallsCorrect == L3Spec => CallsDoWhatTheySay
<1>1. TableInv /\ [L3Next]_l3Vars => [last' # last => CallSays]_l3Vars
  BY L3Step
<1>2. L3Spec => [][last' # last => CallSays]_l3Vars
  BY <1>1, TableInvariant, PTL DEF L3Spec
<1> QED
  BY <1>2 DEF CallsDoWhatTheySay, CallSays, Says

\* FloodList reads the fields of an entry from where grout has them.
LEMMA FloodItemRead ==
  ASSUME NEW y, NEW r, NEW v, NEW f, NEW a,
         y = [type |-> Num(1), vrf |-> r, vni |-> v, af |-> f, addr |-> a], NEW W,
         W = {Put(L3Layout.flood_item.at[h].off, L3Layout.flood_item.at[h].size, y[h]) : h \in DOMAIN y}
  PROVE  Get(W, Field(4, 4)) = v /\ Get(W, Field(8, 1)) = f /\ Get(W, Field(12, 4)) = a
<1> DEFINE at == [type |-> Field(0, 1), vrf |-> Field(2, 2), vni |-> Field(4, 4), af |-> Field(8, 1),
                  addr |-> Field(12, 4)]
<1>1. L3Layout.flood_item.at = at
  <2>1. L3Layout.flood_item = Layout(FloodSeq)
    BY L3Layouts, Zenon
  <2> QED
    BY <2>1, FloodSeqLayout, Zenon DEF FloodAt
<1>2. Apart(at)
  BY DEF Apart, Field
<1>3. DOMAIN y = DOMAIN at
  OBVIOUS
<1>4. /\ "vni" \in DOMAIN at /\ "af" \in DOMAIN at /\ "addr" \in DOMAIN at
      /\ at["vni"] = Field(4, 4) /\ at["af"] = Field(8, 1) /\ at["addr"] = Field(12, 4)
      /\ y["vni"] = v /\ y["af"] = f /\ y["addr"] = a
  BY DEF Field
<1> HIDE DEF at
<1>5. Fills(W, at, DOMAIN at, y)
  BY <1>1, <1>3, Zenon DEF Fills
<1>6. ASSUME NEW h \in DOMAIN at PROVE Get(W, at[h]) = y[h]
  BY <1>2, <1>5, FillsRead
<1> QED
  BY <1>4, <1>6, Zenon

\* What FloodList gives of well-formed tables is true.
LEMMA InvFloodListTrue == TableInv => FloodListTrue
<1> SUFFICES ASSUME TableInv, NEW vrf \in Vrfs
             PROVE  FloodList(vrf) =
               {[vni |-> o.val.vni, addr |-> IF o.val.af = Num(2) THEN o.val.addr ELSE NoIP]
                 : o \in {x \in table : x.kind[1] = "flood" /\ x.val.vrf = Vrf([vrf |-> vrf])}}
  BY Zenon DEF FloodListTrue
<1> DEFINE item(o) == {Put(L3Layout.flood_item.at[f].off, L3Layout.flood_item.at[f].size, o.val[f])
                         : f \in DOMAIN o.val}
           At(o, off, size) == Get(item(o), [off |-> off, size |-> size])
           l3 == offFlood.VTEPAddr
           Seen(o) == [vni |-> At(o, offFlood.VTEPVNI, 4),
                       addr |-> l3AddrIPv4(At(o, l3 + offL3Addr.AF, 1), At(o, l3 + offL3Addr.IPv4, 4))]
           Real(o) == [vni |-> o.val.vni, addr |-> IF o.val.af = Num(2) THEN o.val.addr ELSE NoIP]
           q == Read(FloodListMsg([vrf |-> vrf]))
           Os == {x \in table : Agrees(x, <<"flood", "any">>, q)}
           Ts == {x \in table : x.kind[1] = "flood" /\ x.val.vrf = Vrf([vrf |-> vrf])}
<1>1. FloodList(vrf) = {Seen(o) : o \in Os}
  BY Zenon DEF FloodList
<1>2. ASSUME NEW o \in table
      PROVE  (o \in Os <=> o \in Ts) /\ (o \in Ts => IsFlood(o))
  <2>1. q = [type |-> Num(1), vrf |-> Vrf([vrf |-> vrf])]
    <3>1. Vrf([vrf |-> vrf]) = Num(vrfID([vrf |-> vrf]))
      BY DEF Vrf, vrfID
    <3> QED
      BY <3>1, FloodListRead, Zenon
  <2> HIDE DEF q
  <2>2. Agrees(o, <<"flood", "any">>, q)
          <=> o.kind = <<"flood", "any">> /\ o.val["type"] = Num(1) /\ o.val["vrf"] = Vrf([vrf |-> vrf])
    BY <2>1 DEF Agrees
  <2>3. CASE IsAddr(o)
    <3>1. o.kind[1] = "addr" /\ o.kind # <<"flood", "any">>
      BY <2>3 DEF IsAddr
    <3> QED
      BY <2>2, <3>1
  <2>4. CASE IsRoute(o)
    <3>1. o.kind[1] = "route" /\ o.kind # <<"flood", "any">>
      BY <2>4 DEF IsRoute
    <3> QED
      BY <2>2, <3>1
  <2>5. CASE IsFlood(o)
    <3>1. o.kind[1] = "flood" /\ o.kind = <<"flood", "any">> /\ o.val["type"] = Num(1)
      BY <2>5 DEF IsFlood
    <3> QED
      BY <1>2, <2>2, <2>5, <3>1, Zenon
  <2> QED
    BY <1>2, <2>3, <2>4, <2>5, Zenon DEF TableInv, WellFormed
<1>3. ASSUME NEW o, IsFlood(o) PROVE Seen(o) = Real(o)
  <2>1. PICK r, v, f, a : o = [kind |-> <<"flood", "any">>,
                               val |-> [type |-> Num(1), vrf |-> r, vni |-> v, af |-> f, addr |-> a]]
    BY <1>3, Zenon DEF IsFlood
  <2>2. /\ o.val = [type |-> Num(1), vrf |-> r, vni |-> v, af |-> f, addr |-> a]
        /\ o.val.vni = v /\ o.val.af = f /\ o.val.addr = a
    BY <2>1
  <2>3. /\ Get(item(o), Field(4, 4)) = v /\ Get(item(o), Field(8, 1)) = f
        /\ Get(item(o), Field(12, 4)) = a
    <3> DEFINE W == item(o)
               y == o.val
    <3>1. W = {Put(L3Layout.flood_item.at[h].off, L3Layout.flood_item.at[h].size, y[h]) : h \in DOMAIN y}
      BY Zenon
    <3> HIDE DEF W, y
    <3>2. Get(W, Field(4, 4)) = v /\ Get(W, Field(8, 1)) = f /\ Get(W, Field(12, 4)) = a
      <4>1. y = [type |-> Num(1), vrf |-> r, vni |-> v, af |-> f, addr |-> a]
        BY <2>2, Zenon DEF y
      <4> QED
        BY <3>1, <4>1, FloodItemRead
    <3> QED
      BY <3>2, Zenon DEF W
  <2> HIDE DEF item
  <2>4. /\ offFlood.VTEPVNI = 4 /\ l3 + offL3Addr.AF = 8 /\ l3 + offL3Addr.IPv4 = 12
    BY DEF offFlood, offL3Addr
  <2>5. /\ At(o, offFlood.VTEPVNI, 4) = v /\ At(o, l3 + offL3Addr.AF, 1) = f
        /\ At(o, l3 + offL3Addr.IPv4, 4) = a
    BY <2>3, <2>4, Zenon DEF Field
  <2> HIDE DEF At, l3
  <2> QED
    BY <2>2, <2>5, Zenon DEF l3AddrIPv4
<1> HIDE DEF Seen, Real, Os, Ts
<1>4. {Seen(o) : o \in Os} = {Real(o) : o \in Ts}
  <2>1. Os \subseteq table /\ Ts \subseteq table
    BY Zenon DEF Os, Ts
  <2>2. Os = Ts /\ \A o \in Ts : Seen(o) = Real(o)
    BY <1>2, <1>3, <2>1, Zenon
  <2> QED
    BY <2>2, Zenon
<1> QED
  BY <1>1, <1>4, Zenon DEF Real, Ts

\* FloodList tells the truth.
THEOREM FloodListCorrect == L3Spec => []FloodListTrue
BY TableInvariant, InvFloodListTrue, PTL
=============================================================================
