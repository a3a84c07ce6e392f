----------------------------- MODULE Addressing ------------------------------
(***************************************************************************)
(* gatewaysFor: the gateways of the bridge that HandleAdd computes from    *)
(* the addresses of an IPAM result.  An address is a number, a prefix      *)
(* length the number of addresses in the subnet, a power of two.           *)
(***************************************************************************)
EXTENDS Naturals, Sequences, FiniteSetsExt

CONSTANTS
  Nil,       \* no gateway
  Byte,      \* values of a byte: 256 in the code
  V4, V6,    \* addresses IPAM may hand out
  Sizes,     \* subnet sizes, powers of two
  Supplied,  \* gateways IPAM may supply
  MaxIPs     \* bound on the addresses of a result

ASSUME AddressingAssumption ==
  /\ Byte \in Nat \ {0} /\ Byte % 2 = 0
  /\ V4 \subseteq Nat /\ V6 \subseteq Nat
  /\ Sizes \subseteq {n \in Nat : n = 1 \/ (n > 0 /\ n % 2 = 0)}

VARIABLE result   \* the addresses of the IPAM result, in order

IPConfigs ==
  [fam : {"v4"}, ip : V4, size : Sizes, gw : Supplied \union {Nil}]
    \union [fam : {"v6"}, ip : V6, size : Sizes, gw : Supplied \union {Nil}]

AddrInit == result = <<>>

\* The result carries one more address.
AddrNext ==
  /\ Len(result) < MaxIPs
  /\ \E ip \in IPConfigs : result' = Append(result, ip)

AddrSpec == AddrInit /\ [][AddrNext]_result

-----------------------------------------------------------------------------
Masked(ip) == ip.ip - (ip.ip % ip.size)

\* gw[len(gw)-1]++, which does not carry into the byte before it.
LastByteUp(a) == a - (a % Byte) + (((a % Byte) + 1) % Byte)

\* Mutant: the address is not masked first.
GatewayUnmasked(ip) == IF ip.gw # Nil THEN ip.gw ELSE LastByteUp(ip.ip)

Gateway(ip) == IF ip.gw # Nil THEN ip.gw ELSE LastByteUp(Masked(ip))

\* Where the addresses of a family are in a result, and the first one of them.
OfFamily(r, f) == {i \in DOMAIN r : r[i].fam = f}

FirstOf(r, f) == r[Min(OfFamily(r, f))]

\* Mutant: every address gives a gateway.
TakeEvery(gws, ip) == Append(gws, [fam |-> ip.fam, ip |-> Gateway(ip), size |-> ip.size])

\* One round of the loop: an address of a family not seen yet gives a gateway.
TakeFirstOfFamily(gws, ip) ==
  IF OfFamily(gws, ip.fam) # {} THEN gws
  ELSE Append(gws, [fam |-> ip.fam, ip |-> Gateway(ip), size |-> ip.size])

gatewaysFor(r) ==
  LET gws[i \in 0..Len(r)] ==
        IF i = 0 THEN <<>> ELSE TakeFirstOfFamily(gws[i - 1], r[i])
  IN gws[Len(r)]

-----------------------------------------------------------------------------
(* Properties                                                              *)

Subnet(ip) == Masked(ip)..(Masked(ip) + ip.size - 1)

\* The bridge gets exactly one gateway for each family of the result, that of the
\* first address, however many of them IPAM hands out and in whatever order.
OneGatewayPerFamily ==
  \A f \in {"v4", "v6"} :
    LET gws == gatewaysFor(result)
        first == FirstOf(result, f)
    IN IF OfFamily(result, f) = {} THEN OfFamily(gws, f) = {}
       ELSE \E i \in DOMAIN gws :
              /\ OfFamily(gws, f) = {i}
              /\ gws[i].ip = Gateway(first) /\ gws[i].size = first.size

\* Where IPAM supplies no gateway, gatewaysFor yields the first host address of the
\* subnet, the lowest one above the network address, although the increment does
\* not carry.  A full-length mask leaves no such address: there the gateway it
\* yields lies outside the subnet.
GatewayIsFirstHost ==
  \A g \in Range(gatewaysFor(result)) :
    LET first == FirstOf(result, g.fam)
    IN first.gw = Nil =>
         IF first.size = 1 THEN g.ip \notin Subnet(first)
         ELSE /\ g.ip \in Subnet(first) /\ g.ip > Masked(first)
              /\ \A a \in Subnet(first) : a > Masked(first) => g.ip <= a
=============================================================================
