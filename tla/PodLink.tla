------------------------------- MODULE PodLink -------------------------------
(***************************************************************************)
(* The netdev of a TAP port as GroutCNI has it: the two netns functions of *)
(* ADD are one step each, that happens or fails, and grout may take the    *)
(* netdev away at any time.                                                *)
(***************************************************************************)
VARIABLES
  link,   \* "none", "host", "pod" (moved, not usable) or "up" (usable)
  call    \* what ADD is about to do: "move", "conf", "done" or "failed"

Init == link = "host" /\ call = "move"

Move == call = "move" /\ link = "host" /\ link' = "pod" /\ call' = "conf"

Configure == call = "conf" /\ link = "pod" /\ link' = "up" /\ call' = "done"

Fail == call \in {"move", "conf"} /\ call' = "failed" /\ UNCHANGED link

Vanish == link # "none" /\ link' = "none" /\ UNCHANGED call

\* The pod makes its interface unusable, or usable again.
Drift == call = "done" /\ <<link, link'>> \in {<<"up", "pod">>, <<"pod", "up">>} /\ UNCHANGED call

Next == Move \/ Configure \/ Fail \/ Vanish \/ Drift

Spec == Init /\ [][Next]_<<link, call>>
=============================================================================
