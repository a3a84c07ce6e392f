---------------------------- MODULE OrphanedIpam ----------------------------
(***************************************************************************)
(* The IPAM plugin is a child process (invoke.DelegateAdd, DelegateDel and *)
(* DelegateGC with a context that is never cancelled).  A grout-cni that   *)
(* is killed while it waits leaves the child behind: it does its work      *)
(* later, without the flock, when the runtime has long gone on.            *)
(***************************************************************************)
EXTENDS GroutCNI

VARIABLE orphans  \* IPAM children whose parent has died

varsO == <<vars, orphans>>

Work == [a_ipam |-> "reserve", ipamdel |-> "release", g_ipam |-> "collect"]

InitO == Init /\ orphans = {}

\* The process dies while its IPAM child runs.
KillParent(p) ==
  /\ pc[p] \in DOMAIN Work
  /\ Kill(p)
  /\ orphans' = orphans \union {[work |-> Work[pc[p]], call |-> req[p]]}

\* What the child does to the reservations is what AddIpam, ipamDel and gcIPAM
\* say it does; nobody reads its answer.
OrphanActs ==
  /\ \E o \in orphans :
       /\ ipam' = CASE o.work = "reserve" -> ipam \union {o.call.att}
                    [] o.work = "release" -> ipam \ {o.call.att}
                    [] o.work = "collect" ->
                         {a \in ipam : NetOf[a] = o.call.net => a \in o.call.valid}
       /\ orphans' = orphans \ {o}
  /\ UNCHANGED <<iface, link, socks, groutUp, lock, pc, req, br, port, gws, todo, err, conn, rt,
                 lost, faults>>

NextO ==
  \/ Next /\ UNCHANGED orphans
  \/ \E p \in Procs : KillParent(p)
  \/ OrphanActs

\* An orphan that can run does.
SpecO == InitO /\ [][NextO]_varsO /\ Fairness /\ RuntimeFairness /\ WF_varsO(OrphanActs)

\* A reservation that an orphaned IPAM ADD made when the runtime already took
\* the attachment for deleted is not there for ever: a GC hands it to the IPAM
\* plugin ("Let the IPAM plugin reap its own leaked reservations"), unless the
\* attachment is added again.
LateReservationReaped ==
  \A a \in Attachments : (rt[a] = "absent" /\ a \in ipam) ~> (rt[a] # "absent" \/ a \notin ipam)
=============================================================================
