----------------------------- MODULE MCGroutCNI -----------------------------
(* Instances of GroutCNI for TLC. *)
EXTENDS GroutCNI, TLC

CONSTANTS a1, a2, n1, n2

\* Two attachments: on one network, or on two.
OneNet == [a \in Attachments |-> n1]
TwoNets == a1 :> n1 @@ a2 :> n2

MCPortNames == {"grk-1", "grk-2"}
MCPortName == [a \in Attachments |-> IF a = a1 THEN "grk-1" ELSE "grk-2"]
MCNames == MCPortNames \union {"br-1", "br-2", "p0"}

OneBridge == n1 :> "br-1"
TwoBridges == n1 :> "br-1" @@ n2 :> "br-2"
SharedBridge == [n \in {n1, n2} |-> "br-1"]

MCAddrs == {"v4", "v6"}
MCV6 == {"v6"}
V4Only == [n \in Networks |-> {"v4"}]
DualStack == [n \in Networks |-> {"v4", "v6"}]

\* Interfaces of others: a physical port that joins a bridge, a port that has
\* taken a network's bridge name, a bridge an operator created under that name.
NoForeign == {}
ForeignPorts ==
  {[name |-> "p0", type |-> "port", joins |-> TRUE, addrs |-> {}],
   [name |-> "br-2", type |-> "port", joins |-> FALSE, addrs |-> {}]}
OperatorBridge == {[name |-> "br-1", type |-> "bridge", joins |-> FALSE, addrs |-> {"v6"}]}

Symmetry == Permutations(Procs)
=============================================================================
