---------------------------- MODULE GroutClient -----------------------------
(***************************************************************************)
(* groutapi.Client: goroutines that share one connection to grout.  Under  *)
(* the client's mutex a call takes the next request id, writes a header    *)
(* and a payload, and reads one reply (request) or replies up to an empty  *)
(* one (requestStream).  The other end of the stream is grout, which       *)
(* answers in order, refuses, or stops answering half way.                 *)
(***************************************************************************)
EXTENDS Naturals, Sequences

CONSTANTS
  Callers,     \* goroutines that use the client
  MaxCalls,    \* bound on the calls, the handshake included
  IdMod,       \* number of request ids: 2^32 in the code
  FaultKinds,  \* ways in which grout may misbehave
  MaxFaults,   \* bound on how often
  None

ASSUME ClientAssumption ==
  /\ None \notin Callers
  /\ MaxCalls \in Nat \ {0}
  /\ IdMod \in Nat \ {0}
  /\ MaxFaults \in Nat

VARIABLES
  kind, status, answer, log, garbled,  \* of the calls, as in module Rpc
  pc,       \* where each goroutine is
  call,     \* the call it makes, 0 when it makes none
  id,       \* local id of request and requestStream
  items,    \* local items of requestStream
  mu,       \* holder of Client.mu, or None
  reqID,    \* Client.reqID
  client,   \* the Client: "none", "hello" in Dial, "ready", "closed"
  peer,     \* grout has its end of the connection open
  toGrout,  \* written by the client, not yet read by grout
  toClient, \* written by grout, not yet read by the client
  table,    \* grout's interfaces: the adds it executed, in order
  refused,  \* ghost: calls that grout answered with an error status
  faults    \* misbehaviour so far

callVars == <<kind, status, answer>>
wire == <<peer, toGrout, toClient>>
vars == <<kind, status, answer, log, garbled, pc, call, id, items, mu, reqID, client, peer,
          toGrout, toClient, table, refused, faults>>

Calls == 1..MaxCalls
ReqIds == 0..(IdMod - 1)

R == INSTANCE Rpc

\* responseHeader and payload.  len says what PayloadLen announces and what
\* follows: nothing, all of it, less than it ("cut"), more than maxMsgLen
\* ("huge"), or that these bytes are no header at all ("junk").
Reply(i, s, l, b) == [forID |-> i, status |-> s, len |-> l, body |-> b]

Replies ==
  [forID : ReqIds, status : {0, 1}, len : {"zero", "full", "cut", "huge", "junk"},
   body : SUBSET Calls]

\* The two writes of writeRequest.
Writes == [part : {"header", "payload"}, id : ReqIds, call : Calls]

TypeOK ==
  /\ kind \in [Calls -> R!Kinds]
  /\ status \in [Calls -> {"unused", "running", "ok", "error"}]
  /\ answer \in [Calls -> SUBSET Calls]
  /\ log \in Seq(Calls)
  /\ garbled \in BOOLEAN
  /\ pc \in [Callers -> {"idle", "lock", "header", "payload", "read", "body"}]
  /\ call \in [Callers -> Calls \union {0}]
  /\ id \in [Callers -> ReqIds]
  /\ items \in [Callers -> SUBSET Calls]
  /\ mu \in Callers \union {None}
  /\ reqID \in ReqIds
  /\ client \in {"none", "hello", "ready", "closed"}
  /\ peer \in BOOLEAN
  /\ toGrout \in Seq(Writes)
  /\ toClient \in Seq(Replies)
  /\ table \in Seq(Calls)
  /\ refused \subseteq Calls
  /\ faults \in 0..MaxFaults

Init ==
  /\ R!Init
  /\ pc = [c \in Callers |-> "idle"]
  /\ call = [c \in Callers |-> 0]
  /\ id = [c \in Callers |-> 0]
  /\ items = [c \in Callers |-> {}]
  /\ mu = None
  /\ reqID = 0
  /\ client = "none"
  /\ peer = FALSE
  /\ toGrout = <<>>
  /\ toClient = <<>>
  /\ table = <<>>
  /\ refused = {}
  /\ faults = 0

-----------------------------------------------------------------------------
(* The client                                                              *)

Goto(c, l) == pc' = [pc EXCEPT ![c] = l]

\* Goroutine c starts the next call, one of kind t.
Start(c, t) ==
  /\ pc[c] = "idle"
  /\ \E k \in Calls :
       /\ status[k] = "unused"
       /\ \A j \in 1..(k - 1) : status[j] # "unused"
       /\ call' = [call EXCEPT ![c] = k]
       /\ kind' = [kind EXCEPT ![k] = t]
       /\ status' = [status EXCEPT ![k] = "running"]
  /\ Goto(c, "lock")
  /\ UNCHANGED <<answer, log, garbled, id, items, mu, reqID, toGrout, toClient, table, refused,
                 faults>>

\* Dial connects, then shakes hands; without a listener there is no client.
Dial(c) ==
  /\ client = "none"
  /\ \/ /\ Start(c, "hello")
        /\ client' = "hello"
        /\ peer' = TRUE
     \/ /\ client' = "closed"
        /\ UNCHANGED <<callVars, log, garbled, pc, call, id, items, mu, reqID, wire, table, refused, faults>>

Call(c, t) ==
  /\ client = "ready" /\ t \in {"add", "list"}
  /\ Start(c, t)
  /\ UNCHANGED <<client, peer>>

\* Ids that the client has not seen the last of.
PendingIds == {toGrout[i].id : i \in DOMAIN toGrout} \union {toClient[i].forID : i \in DOMAIN toClient}

\* Mutant: the mutex is not taken.
LockFree(c) ==
  /\ pc[c] = "lock"
  /\ mu' = c
  /\ reqID' = (reqID + 1) % IdMod
  /\ id' = [id EXCEPT ![c] = reqID']
  /\ garbled' = (garbled \/ reqID' \in PendingIds)
  /\ Goto(c, "header")
  /\ UNCHANGED <<callVars, log, call, items, client, wire, table, refused, faults>>

\* Mutant: the id is kept in a wider counter.
LockNoWrap(c) ==
  /\ pc[c] = "lock" /\ mu = None
  /\ mu' = c
  /\ reqID' = reqID + 1
  /\ id' = [id EXCEPT ![c] = reqID']
  /\ Goto(c, "header")
  /\ UNCHANGED <<callVars, log, garbled, call, items, client, wire, table, refused, faults>>

\* c.mu.Lock and nextID, which wraps.  An id that comes round while an old reply
\* with it is to be read can no longer tell the replies apart.
Lock(c) ==
  /\ pc[c] = "lock" /\ mu = None
  /\ mu' = c
  /\ reqID' = (reqID + 1) % IdMod
  /\ id' = [id EXCEPT ![c] = reqID']
  /\ garbled' = (garbled \/ reqID' \in PendingIds)
  /\ Goto(c, "header")
  /\ UNCHANGED <<callVars, log, call, items, client, wire, table, refused, faults>>

\* Mutant: an error return keeps the mutex.
ReturnKeepsMutex(c, st, a) ==
  /\ status' = [status EXCEPT ![call[c]] = st]
  /\ answer' = [answer EXCEPT ![call[c]] = a]
  /\ Goto(c, "idle")
  /\ call' = [call EXCEPT ![c] = 0]
  /\ items' = [items EXCEPT ![c] = {}]
  /\ mu' = IF st = "ok" THEN None ELSE mu
  /\ client' = IF client # "hello" THEN client ELSE IF st = "ok" THEN "ready" ELSE "closed"
  /\ UNCHANGED <<kind, log, garbled>>

\* The call of c returns, which releases the mutex; Dial closes the connection
\* of a handshake that failed.
Return(c, st, a) ==
  /\ status' = [status EXCEPT ![call[c]] = st]
  /\ answer' = [answer EXCEPT ![call[c]] = a]
  /\ Goto(c, "idle")
  /\ call' = [call EXCEPT ![c] = 0]
  /\ items' = [items EXCEPT ![c] = {}]
  /\ mu' = None
  /\ client' = IF client # "hello" THEN client ELSE IF st = "ok" THEN "ready" ELSE "closed"
  /\ UNCHANGED <<kind, log, garbled>>

\* One of the two writes of writeRequest; it fails once grout has closed.
Write(c, part, next) ==
  /\ pc[c] = part
  /\ \/ /\ peer
        /\ toGrout' = Append(toGrout, [part |-> part, id |-> id[c], call |-> call[c]])
        /\ Goto(c, next)
        /\ UNCHANGED <<callVars, log, garbled, call, items, mu, client>>
     \/ ~peer /\ Return(c, "error", {}) /\ UNCHANGED toGrout
  /\ UNCHANGED <<id, reqID, peer, toClient, table, refused, faults>>

\* Mutant: the id of the reply is not compared.
AcceptsAnyId(c, f) == f.len \notin {"cut", "huge"} /\ f.status = 0

\* readResponse delivered a reply to c's request that carries no error.
Accepts(c, f) == f.len \notin {"cut", "huge"} /\ f.forID = id[c] /\ f.status = 0

\* A request takes one reply, a stream ends with a reply that has no payload.
EndsCall(c, f) == kind[call[c]] # "list" \/ f.len = "zero"

Junk == Reply(0, 0, "junk", {})

\* What the bytes of f are taken for; junk can look like any header.
TakenFor(f) ==
  IF f = Junk
  THEN {Reply(i, s, l, {}) : i \in ReqIds, s \in {0, 1}, l \in {"zero", "full", "huge"}}
  ELSE {f}

\* What request and requestStream make of reply f.
Take(c, f) ==
  \/ Accepts(c, f) /\ EndsCall(c, f) /\ Return(c, "ok", items[c] \union f.body)
  \/ /\ Accepts(c, f) /\ ~EndsCall(c, f)
     /\ items' = [items EXCEPT ![c] = items[c] \union f.body]
     /\ Goto(c, "read")
     /\ UNCHANGED <<callVars, log, garbled, call, mu, client>>
  \/ ~Accepts(c, f) /\ Return(c, "error", {})

\* readResponse finds a header and its payload.  The payload of a reply that is
\* too large stays unread.
Read(c) ==
  /\ pc[c] = "read" /\ toClient # <<>>
  /\ \E f \in TakenFor(Head(toClient)) : Take(c, f)
  /\ toClient' = IF Head(toClient) = Junk THEN toClient ELSE Tail(toClient)
  /\ UNCHANGED <<id, reqID, peer, toGrout, table, refused, faults>>

\* Junk announces a payload that it is too short for: ReadFull takes all there is
\* and waits for more ...
ReadShort(c) ==
  /\ toClient # <<>>
  /\ pc[c] = "body" \/ (pc[c] = "read" /\ Head(toClient) = Junk)
  /\ Goto(c, "body")
  /\ toClient' = <<>>
  /\ UNCHANGED <<callVars, log, garbled, call, id, items, mu, reqID, client, peer, toGrout, table,
                 refused, faults>>

\* ... which may come, the replies to earlier calls; what is left of them is junk.
ReadRest(c) ==
  /\ pc[c] = "body" /\ toClient # <<>>
  /\ \E f \in TakenFor(Junk) : f.len = "full" /\ Take(c, f)
  /\ toClient' = <<Junk>>
  /\ UNCHANGED <<id, reqID, peer, toGrout, table, refused, faults>>

\* End of file before a reply, or in it.
ReadEOF(c) ==
  /\ pc[c] \in {"read", "body"} /\ toClient = <<>> /\ ~peer
  /\ Return(c, "error", {})
  /\ UNCHANGED <<id, reqID, wire, table, refused, faults>>

Close ==
  /\ client = "ready" /\ \A c \in Callers : pc[c] = "idle"
  /\ client' = "closed"
  /\ UNCHANGED <<callVars, log, garbled, pc, call, id, items, mu, reqID, wire, table, refused, faults>>

-----------------------------------------------------------------------------
(* grout, from how the client uses it                                      *)

\* The replies to request r: to a list one per table entry and an empty one.
RepliesTo(r) ==
  LET entry(e) == Reply(r.id, 0, "full", {e})
      end == Reply(r.id, 0, "zero", {})
  IN CASE kind[r.call] = "list" ->
            [i \in DOMAIN table |-> entry(table[i])] \o <<end>>
       [] kind[r.call] = "add" -> <<entry(r.call)>>
       [] OTHER -> <<end>>

Misbehaves(f) ==
  /\ f \in FaultKinds
  /\ faults < MaxFaults
  /\ faults' = faults + 1

\* A reply that breaks off: some replies, then perhaps a header without its payload.
Broken(r, n, cut) ==
  SubSeq(RepliesTo(r), 1, n) \o IF cut THEN <<Reply(r.id, 0, "cut", {})>> ELSE <<>>

\* What the client has to read once grout writes s; behind junk all is junk.
Behind(s) == IF toClient # <<>> /\ toClient[Len(toClient)] = Junk THEN toClient ELSE toClient \o s

\* grout reads a request, executes it and answers, once or by mistake twice;
\* dies while it answers; answers with too large a reply; or refuses.
Serve ==
  /\ peer /\ Len(toGrout) >= 2
  /\ toGrout' = SubSeq(toGrout, 3, Len(toGrout))
  /\ LET r == Head(toGrout)
     IN \/ /\ log' = Append(log, r.call)
           /\ table' = IF kind[r.call] = "add" THEN Append(table, r.call) ELSE table
           /\ \/ /\ toClient' = Behind(RepliesTo(r))
                 /\ UNCHANGED <<peer, garbled, faults>>
              \/ /\ Misbehaves("dup")
                 /\ toClient' = Behind(RepliesTo(r) \o RepliesTo(r))
                 /\ UNCHANGED <<peer, garbled>>
              \/ /\ Misbehaves("cut")
                 /\ \E n \in 0..(Len(RepliesTo(r)) - 1), cut \in BOOLEAN :
                      toClient' = Behind(Broken(r, n, cut))
                 /\ peer' = FALSE
                 /\ UNCHANGED garbled
              \/ /\ Misbehaves("huge")
                 /\ toClient' = Behind(<<Reply(r.id, 0, "huge", {}), Junk>>)
                 /\ garbled' = TRUE
                 /\ UNCHANGED peer
           /\ UNCHANGED <<callVars, refused>>
        \/ /\ \E n \in 0..(Len(RepliesTo(r)) - 1) :
                toClient' = Behind(SubSeq(RepliesTo(r), 1, n) \o <<Reply(r.id, 1, "zero", {})>>)
           /\ refused' = refused \union {r.call}
           /\ UNCHANGED <<callVars, log, garbled, peer, table, faults>>
  /\ UNCHANGED <<pc, call, id, items, mu, reqID, client>>

\* grout dies, or drops the connection, with requests unread.
Hangup ==
  /\ peer /\ Misbehaves("hangup")
  /\ peer' = FALSE
  /\ UNCHANGED <<callVars, log, garbled, pc, call, id, items, mu, reqID, client, toGrout,
                 toClient, table, refused>>

-----------------------------------------------------------------------------
Step(c) ==
  \/ Lock(c) \/ Write(c, "header", "payload") \/ Write(c, "payload", "read")
  \/ Read(c) \/ ReadShort(c) \/ ReadRest(c) \/ ReadEOF(c)

Next ==
  \/ \E c \in Callers : Dial(c) \/ Step(c) \/ \E t \in {"add", "list"} : Call(c, t)
  \/ Serve \/ Hangup \/ Close

Spec == Init /\ [][Next]_vars

\* A goroutine that can go on does, Go's mutex starves nobody, and grout gets
\* to every request it was sent.
Fairness ==
  /\ \A c \in Callers : WF_vars(Step(c)) /\ SF_vars(Lock(c))
  /\ WF_vars(Serve)

FairSpec == Spec /\ Fairness

-----------------------------------------------------------------------------
(* Properties                                                              *)

\* The client keeps the promise of module Rpc: no call is executed twice, and
\* the ids of request and requestStream match every reply to its own call,
\* whatever is refused, duplicated or cut off, until replies cannot be told apart.
ImplementsRpc == R!Spec

\* While grout behaves, a call fails only if grout refused that very call: the
\* mutex keeps the calls of goroutines from reading each other's replies.
NoSpuriousError ==
  faults = 0 => \A k \in Calls : status[k] = "error" => k \in refused

\* Every call returns as long as grout answers or hangs up, and its replies can be
\* told apart.  The code has no other way out, since it sets no deadline: in a
\* stream whose framing is lost, readResponse may wait for bytes that never come.
CallReturns == \A c \in Callers : pc[c] # "idle" ~> (pc[c] = "idle" \/ garbled)
=============================================================================
