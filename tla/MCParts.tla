------------------------------ MODULE MCParts --------------------------------
(***************************************************************************)
(* The parts of the plugin that share no state with each other, in one     *)
(* instance for TLC: a behaviour is one of the part that was chosen, and   *)
(* leaves the others in an initial state.                                  *)
(***************************************************************************)
EXTENDS Addressing, CniConfig, L3Api, IfaceApi, PodNetns

VARIABLE part   \* the part that runs

vars == <<part, result, conf, l3Vars, ifaceVars, podVars>>

\* One initial state of PodNetns is enough while it does not run.
Init ==
  /\ part \in {"addressing", "config", "l3", "iface", "pod"}
  /\ AddrInit /\ ConfInit /\ L3Init /\ IfaceInit /\ PodInit
  /\ part # "pod" => ips = {} /\ ~mtu /\ \A n \in DOMAIN netns : netns[n] = NoLink

Next ==
  /\ \/ part = "addressing" /\ AddrNext /\ UNCHANGED <<conf, l3Vars, ifaceVars, podVars>>
     \/ part = "config" /\ LoadConfig /\ UNCHANGED <<result, l3Vars, ifaceVars, podVars>>
     \/ part = "l3" /\ L3Next /\ UNCHANGED <<result, conf, ifaceVars, podVars>>
     \/ part = "iface" /\ IfaceNext /\ UNCHANGED <<result, conf, l3Vars, podVars>>
     \/ part = "pod" /\ PodNext /\ UNCHANGED <<result, conf, l3Vars, ifaceVars>>
  /\ UNCHANGED part

Spec == Init /\ [][Next]_vars
=============================================================================
