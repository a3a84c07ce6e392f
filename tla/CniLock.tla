------------------------------- MODULE CniLock -------------------------------
(* What the node's lock promises the handlers: at most one holder at a time. *)
CONSTANTS Procs, None

VARIABLE holder

Init == holder = None

Acquire(p) == holder = None /\ holder' = p

\* An Unlock, or the death of the holder.
Release(p) == holder = p /\ holder' = None

Next == \E p \in Procs : Acquire(p) \/ Release(p)

Spec == Init /\ [][Next]_holder
=============================================================================
