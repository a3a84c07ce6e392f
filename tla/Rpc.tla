-------------------------------- MODULE Rpc ---------------------------------
(***************************************************************************)
(* What a groutapi.Client promises its callers: a call is executed by      *)
(* grout at most once, a call that returns success was executed between    *)
(* its start and its return and returns what that execution produced, and  *)
(* a call that returns an error may have been executed, or may still be.   *)
(* The promise ends when replies cannot be told apart any more (garbled):  *)
(* grout has broken the framing of the stream, or an id has come round     *)
(* while a reply that carries it was unread.                               *)
(***************************************************************************)
EXTENDS Naturals, Sequences

CONSTANT Calls

VARIABLES
  kind,     \* what a call asks for
  status,   \* of a call, as its caller sees it
  answer,   \* what a call returned: a set of table entries
  log,      \* the calls grout executed, in order
  garbled   \* replies cannot be told apart

vars == <<kind, status, answer, log, garbled>>

Kinds == {"none", "hello", "add", "list"}

Init ==
  /\ kind = [k \in Calls |-> "none"]
  /\ status = [k \in Calls |-> "unused"]
  /\ answer = [k \in Calls |-> {}]
  /\ log = <<>>
  /\ garbled = FALSE

\* The entries that the adds of l put into grout's table.
Table(l) == {l[i] : i \in {j \in DOMAIN l : kind[l[j]] = "add"}}

\* What call k produces when l was executed before it.
Produces(k, l) ==
  CASE kind[k] = "list" -> Table(l)
    [] kind[k] = "add" -> {k}
    [] OTHER -> {}

Begin(k, t) ==
  /\ status[k] = "unused"
  /\ status' = [status EXCEPT ![k] = "running"]
  /\ kind' = [kind EXCEPT ![k] = t]
  /\ UNCHANGED <<answer, log, garbled>>

Execute(k) ==
  /\ status[k] # "unused"
  /\ \A i \in DOMAIN log : log[i] # k
  /\ log' = Append(log, k)
  /\ garbled' \in {garbled, TRUE}   \* an answer that is too large
  /\ UNCHANGED <<kind, status, answer>>

Succeed(k, a) ==
  /\ status[k] = "running"
  /\ \/ garbled
     \/ \E i \in DOMAIN log : log[i] = k /\ a = Produces(k, SubSeq(log, 1, i - 1))
  /\ status' = [status EXCEPT ![k] = "ok"]
  /\ answer' = [answer EXCEPT ![k] = a]
  /\ UNCHANGED <<kind, log, garbled>>

Fail(k) ==
  /\ status[k] = "running"
  /\ status' = [status EXCEPT ![k] = "error"]
  /\ UNCHANGED <<kind, answer, log, garbled>>

Garble == garbled' = TRUE /\ UNCHANGED <<kind, status, answer, log>>

Next ==
  \/ Garble
  \/ \E k \in Calls :
       \/ \E t \in Kinds \ {"none"} : Begin(k, t)
       \/ Execute(k)
       \/ \E a \in SUBSET Calls : Succeed(k, a)
       \/ Fail(k)

Spec == Init /\ [][Next]_vars
=============================================================================
