----------------------- MODULE GroutClientSteps_proofs -----------------------
(***************************************************************************)
(* The inductive invariant of the client: what is on the wire, which       *)
(* requests and replies belong to the call that holds the mutex, and that  *)
(* its replies add up to what grout executed.  Every step of a client, and *)
(* the end of a connection, keeps it; the steps of grout follow in         *)
(* GroutClient_proofs.                                                     *)
(***************************************************************************)
EXTENDS GroutClient, SequenceTheorems, TLAPS

InCall == {"header", "payload", "read", "body"}

\* The calls of the goroutines, and the mutex.
CallOK(c) ==
  /\ pc[c] = "idle" => call[c] = 0
  /\ pc[c] # "idle" => call[c] \in Calls /\ status[call[c]] = "running"
  /\ pc[c] \in InCall => mu = c /\ id[c] = reqID
  /\ pc[c] \notin {"read", "body"} \/ kind[call[c]] # "list" => items[c] = {}
  /\ pc[c] = "body" => garbled

\* A call that has not returned has returned nothing.
Unanswered == \A k \in Calls : status[k] \in {"unused", "running"} => answer[k] = {}

CallsApart == \A c, d \in Callers : c # d /\ call[c] = call[d] => call[c] = 0

Logged(k) == \E i \in DOMAIN log : log[i] = k

Sent(k) == \E i \in DOMAIN toGrout : toGrout[i].call = k

\* What was sent and executed: requests of calls that were made, once each.
LogOK ==
  /\ \A i, j \in DOMAIN log : log[i] = log[j] => i = j
  /\ \A k \in Calls : Logged(k) \/ Sent(k) => status[k] # "unused"
  /\ \A k \in Calls : ~(Logged(k) /\ Sent(k))
  /\ \A c \in Callers : pc[c] \in {"lock", "header"} => ~Logged(call[c]) /\ ~Sent(call[c])
  /\ \A k \in Calls : (\E i \in DOMAIN table : table[i] = k) <=> Logged(k) /\ kind[k] = "add"

\* Requests on the wire are pairs, of different calls; only the last one may
\* still lack its payload.
Paired ==
  /\ \A i \in DOMAIN toGrout : i % 2 = 1 /\ i + 1 \in DOMAIN toGrout =>
       toGrout[i + 1].call = toGrout[i].call
  /\ \A i, j \in DOMAIN toGrout : i % 2 = 1 /\ toGrout[i].call = toGrout[j].call => j \in {i, i + 1}
  /\ peer => \A c \in Callers :
       pc[c] = "payload" => Len(toGrout) % 2 = 1 /\ toGrout[Len(toGrout)].call = call[c]
  /\ peer /\ (\A c \in Callers : pc[c] # "payload") => Len(toGrout) % 2 = 0

\* No reply was duplicated, and the framing of the stream is intact.
Synced == (faults = 0 \/ "dup" \notin FaultKinds) /\ ~garbled

\* Replies are matched by their ids.
Matched == ~garbled

\* f ends the call of c well.
Completes(c, f) == f.forID = id[c] /\ Accepts(c, f) /\ EndsCall(c, f)

\* What c has when it has read its replies up to the j-th.
Has(c, j, x) ==
  x \in items[c] \/ \E i \in 1..j : toClient[i].forID = id[c] /\ x \in toClient[i].body

Product(k, i) == R!Produces(k, SubSeq(log, 1, i - 1))

\* The replies that c is going to read.
WireOK(c) ==
  /\ peer => \A i \in DOMAIN toGrout : (toGrout[i].id = id[c]) <=> (toGrout[i].call = call[c])
  /\ pc[c] \in {"header", "payload"} \/ (peer /\ Sent(call[c])) =>
       items[c] = {} /\ \A i \in DOMAIN toClient : toClient[i].forID # id[c]
  /\ \A j \in DOMAIN toClient : Completes(c, toClient[j]) =>
       \E i \in DOMAIN log : log[i] = call[c] /\ \A x \in Calls : Has(c, j, x) <=> x \in Product(call[c], i)

\* In a stream that is in step, only the call that holds the mutex has anything
\* on the wire, and the reply that ends it is the last.
InStep ==
  /\ (\A c \in Callers : pc[c] \notin InCall) => toClient = <<>> /\ (peer => toGrout = <<>>)
  /\ \A c \in Callers : pc[c] \in InCall =>
       /\ peer => \A i \in DOMAIN toGrout : toGrout[i].call = call[c] /\ toGrout[i].id = id[c]
       /\ pc[c] \in {"header", "payload"} \/ (peer /\ toGrout # <<>>) => toClient = <<>>
       /\ \A j \in DOMAIN toClient :
            /\ toClient[j].forID = id[c]
            /\ ~Accepts(c, toClient[j]) \/ EndsCall(c, toClient[j]) => j = Len(toClient)
            /\ toClient[j].status = 1 => call[c] \in refused

\* A grout that behaves keeps the connection.
Behaves ==
  faults = 0 =>
    /\ ~garbled
    /\ \A c \in Callers : pc[c] # "idle" => peer
    /\ client = "ready" => peer
    /\ \A j \in DOMAIN toClient : toClient[j].len \in {"zero", "full"}

\* Before Dial there is nothing.
Fresh ==
  client = "none" =>
    ~peer /\ toGrout = <<>> /\ toClient = <<>> /\ \A c \in Callers : pc[c] = "idle"

ClientInv ==
  /\ TypeOK /\ Fresh /\ Unanswered
  /\ \A c \in Callers : CallOK(c)
  /\ CallsApart /\ LogOK /\ Paired /\ Behaves /\ NoSpuriousError
  /\ ~garbled => \A j \in DOMAIN toClient : toClient[j].len \in {"zero", "full", "cut"}
  /\ Synced => InStep
  /\ Matched => \A c \in Callers : pc[c] \in InCall => WireOK(c)

-----------------------------------------------------------------------------
\* What the log has to satisfy depends on nothing else.
LEMMA SameLog ==
  ASSUME LogOK, UNCHANGED <<kind, status, log, pc, call, toGrout, table>>
  PROVE  LogOK'
<1>1. \A x : Logged(x)' = Logged(x) /\ Sent(x)' = Sent(x)
  BY Zenon DEF Logged, Sent
<1> QED
  BY <1>1 DEF LogOK

\* A record of the fields of a reply is one.
LEMMA ReplyType ==
  ASSUME NEW i \in ReqIds, NEW s \in {0, 1}, NEW l \in {"zero", "full", "cut", "huge", "junk"},
         NEW b \in SUBSET Calls
  PROVE  /\ Reply(i, s, l, b) \in Replies
         /\ Reply(i, s, l, b).forID = i /\ Reply(i, s, l, b).status = s
         /\ Reply(i, s, l, b).len = l /\ Reply(i, s, l, b).body = b
BY DEF Reply, Replies

\* Junk is no reply, but stands on the stream like one.
LEMMA JunkType == Junk \in Replies /\ Junk.status = 0 /\ Junk.len = "junk" /\ Junk.body = {}
<1>1. 0 \in ReqIds
  BY ClientAssumption DEF ReqIds
<1> QED
  BY <1>1, ReplyType DEF Junk

\* What grout answers to a request: replies that carry the id of the request,
\* of which only the last can end a list, and that together carry what the
\* execution of the request produces.
LEMMA RepliesFacts ==
  ASSUME TypeOK, LogOK, NEW r \in Writes
  PROVE  /\ RepliesTo(r) \in Seq(Replies) /\ Len(RepliesTo(r)) > 0
         /\ \A j \in 1..Len(RepliesTo(r)) :
              /\ RepliesTo(r)[j].forID = r.id /\ RepliesTo(r)[j].status = 0
              /\ RepliesTo(r)[j].len \in {"zero", "full"}
              /\ kind[r.call] # "list" \/ RepliesTo(r)[j].len = "zero" => j = Len(RepliesTo(r))
         /\ \A x \in Calls : x \in R!Produces(r.call, log) <=>
              \E j \in 1..Len(RepliesTo(r)) : x \in RepliesTo(r)[j].body
<1> DEFINE end == Reply(r.id, 0, "zero", {})
           entry(e) == Reply(r.id, 0, "full", {e})
           es == [i \in DOMAIN table |-> entry(table[i])]
<1>0. /\ r.id \in ReqIds /\ r.call \in Calls /\ end \in Replies /\ end.forID = r.id
      /\ end.status = 0 /\ end.len = "zero" /\ end.body = {}
  BY ReplyType DEF Writes
<1>1. \A e \in Calls : /\ entry(e) \in Replies /\ entry(e).forID = r.id
                       /\ entry(e).status = 0 /\ entry(e).len = "full" /\ entry(e).body = {e}
  BY <1>0, ReplyType
<1>2. CASE kind[r.call] = "list"
  <2>1. RepliesTo(r) = es \o <<end>>
    BY <1>2 DEF RepliesTo
  <2>2. table \in Seq(Calls) /\ DOMAIN table = 1..Len(table) /\ Len(table) \in Nat
    BY DEF TypeOK
  <2>3. es \in Seq(Replies) /\ Len(es) = Len(table) /\ \A i \in 1..Len(table) : es[i] = entry(table[i])
    <3> HIDE DEF entry
    <3>1. es \in [1..Len(table) -> Replies]
      BY <1>1, <2>2
    <3> QED
      BY <2>2, <3>1, SeqDef
  <2>4. <<end>> \in Seq(Replies) /\ Len(<<end>>) = 1 /\ <<end>>[1] = end
    BY <1>0
  <2> HIDE DEF es, end, entry
  <2>5. /\ RepliesTo(r) \in Seq(Replies) /\ Len(RepliesTo(r)) = Len(table) + 1
        /\ \A j \in 1..Len(table) : RepliesTo(r)[j] = entry(table[j])
        /\ RepliesTo(r)[Len(table) + 1] = end
    BY <2>1, <2>2, <2>3, <2>4, ConcatProperties
  <2>6. \A x \in Calls : x \in R!Produces(r.call, log) <=> \E i \in 1..Len(table) : table[i] = x
    <3>1. R!Produces(r.call, log) = R!Table(log)
      BY <1>2 DEF R!Produces
    <3>2. \A x \in Calls : x \in R!Table(log) <=> Logged(x) /\ kind[x] = "add"
      BY DEF R!Table, Logged
    <3> QED
      BY <2>2, <3>1, <3>2 DEF LogOK
  <2>7. \A j \in 1..Len(table) : table[j] \in Calls
    BY <2>2
  <2>8. \A x \in Calls : (\E j \in 1..Len(RepliesTo(r)) : x \in RepliesTo(r)[j].body)
                           <=> \E i \in 1..Len(table) : table[i] = x
    BY <1>0, <1>1, <2>2, <2>5, <2>7
  <2>9. \A j \in 1..Len(RepliesTo(r)) :
          /\ RepliesTo(r)[j].forID = r.id /\ RepliesTo(r)[j].status = 0
          /\ RepliesTo(r)[j].len \in {"zero", "full"}
          /\ RepliesTo(r)[j].len = "zero" => j = Len(RepliesTo(r))
    BY <1>0, <1>1, <2>2, <2>5, <2>7
  <2> QED
    BY <1>2, <2>2, <2>5, <2>6, <2>8, <2>9
<1>3. CASE kind[r.call] # "list"
  <2>1. PICK f \in Replies : /\ RepliesTo(r) = <<f>>
                             /\ f.forID = r.id /\ f.status = 0 /\ f.len \in {"zero", "full"}
                             /\ f.body = R!Produces(r.call, log)
    <3>1. CASE kind[r.call] = "add"
      BY <1>0, <1>1, <3>1 DEF RepliesTo, R!Produces
    <3>2. CASE kind[r.call] # "add"
      BY <1>0, <1>3, <3>2, Zenon DEF RepliesTo, R!Produces
    <3> QED
      BY <3>1, <3>2
  <2> QED
    BY <1>3, <2>1
<1> QED
  BY <1>2, <1>3

\* What grout may add to the stream when it serves request r.
Answer(r, T) ==
  /\ T \in Seq(Replies)
  /\ \A j \in 1..Len(T) : T[j].status = 1 => r.call \in refused'
  /\ ~garbled' =>
       /\ \A j \in 1..Len(T) : T[j].forID = r.id /\ T[j].len \in {"zero", "full", "cut"}
       /\ \A j \in 1..Len(T) :
            T[j].status = 0 /\ T[j].len # "cut" /\ (kind[r.call] # "list" \/ T[j].len = "zero") =>
              /\ log' = Append(log, r.call)
              /\ \A x \in Calls : x \in R!Produces(r.call, log) <=> \E i \in 1..j : x \in T[i].body
  /\ faults' = 0 => \A j \in 1..Len(T) : T[j].len \in {"zero", "full"}
  /\ Synced' => \A j \in 1..Len(T) :
       T[j].status = 1 \/ T[j].len \in {"cut", "zero"} \/ kind[r.call] # "list" => j = Len(T)

\* The start of the replies, which cannot end a call.
LEMMA CutReplies ==
  ASSUME TypeOK, LogOK, NEW r \in Writes, NEW n \in 0..(Len(RepliesTo(r)) - 1)
  PROVE  /\ SubSeq(RepliesTo(r), 1, n) \in Seq(Replies) /\ Len(SubSeq(RepliesTo(r), 1, n)) = n
         /\ \A j \in 1..n : /\ SubSeq(RepliesTo(r), 1, n)[j].forID = r.id
                            /\ SubSeq(RepliesTo(r), 1, n)[j].status = 0
                            /\ SubSeq(RepliesTo(r), 1, n)[j].len = "full"
                            /\ kind[r.call] = "list"
<1> DEFINE s == RepliesTo(r)
           t == SubSeq(s, 1, n)
<1>1. /\ s \in Seq(Replies) /\ Len(s) \in Nat
      /\ \A j \in 1..Len(s) : /\ s[j].forID = r.id /\ s[j].status = 0 /\ s[j].len \in {"zero", "full"}
                              /\ kind[r.call] # "list" \/ s[j].len = "zero" => j = Len(s)
  BY RepliesFacts
<1> HIDE DEF s
<1>2. /\ t \in Seq(Replies) /\ Len(t) = n
      /\ \A j \in 1..n : t[j] = s[j]
  <2>1. n \in Int /\ 0 <= n /\ n < Len(s)
    BY <1>1 DEF s
  <2>2. \A i \in 1..n : s[i] \in Replies
    BY <1>1, <2>1
  <2>3. /\ t \in Seq(Replies) /\ Len(t) = IF 1 <= n THEN n - 1 + 1 ELSE 0
        /\ \A i \in 1..(n - 1 + 1) : t[i] = s[1 + i - 1]
    BY <2>1, <2>2, SubSeqProperties
  <2> QED
    BY <2>1, <2>3
<1> QED
  BY <1>1, <1>2 DEF s

\* A refusal or a reply that breaks off follows such a start.
LEMMA CutAnswer ==
  ASSUME TypeOK, LogOK, NEW r \in Writes, NEW n \in 0..(Len(RepliesTo(r)) - 1),
         NEW f \in Replies, f.forID = r.id,
         \/ f.status = 1 /\ f.len = "zero" /\ r.call \in refused'
         \/ f.status = 0 /\ f.len = "cut" /\ faults' # 0
  PROVE  Answer(r, SubSeq(RepliesTo(r), 1, n) \o <<f>>)
<1> DEFINE t == SubSeq(RepliesTo(r), 1, n)
           T == t \o <<f>>
<1>1. /\ t \in Seq(Replies) /\ Len(t) = n
      /\ \A j \in 1..n : /\ t[j].forID = r.id /\ t[j].status = 0 /\ t[j].len = "full"
                         /\ kind[r.call] = "list"
  BY CutReplies
<1>2. n \in Nat /\ <<f>> \in Seq(Replies) /\ Len(<<f>>) = 1 /\ <<f>>[1] = f
  BY RepliesFacts
<1> HIDE DEF t
<1>3. /\ T \in Seq(Replies) /\ Len(T) = n + 1 /\ T[n + 1] = f
      /\ \A j \in 1..n : T[j] = t[j]
  <2>1. t \in Seq(Replies) /\ Len(t) = n /\ n \in Nat /\ f \in Replies
    BY <1>1, <1>2
  <2> QED
    BY <2>1
<1> HIDE DEF T
<1>4. \A j \in 1..Len(T) : j \in 1..n \/ j = n + 1
  BY <1>2, <1>3
<1>5. \A j \in 1..Len(T) :
        T[j].forID = r.id /\ T[j].len \in {"zero", "full", "cut"} /\ (T[j].status = 1 => r.call \in refused')
  BY <1>1, <1>3, <1>4
<1>6. \A j \in 1..Len(T) :
        ~(T[j].status = 0 /\ T[j].len # "cut" /\ (kind[r.call] # "list" \/ T[j].len = "zero"))
  BY <1>1, <1>3, <1>4
<1>7. \A j \in 1..Len(T) :
        T[j].status = 1 \/ T[j].len \in {"cut", "zero"} \/ kind[r.call] # "list" => j = Len(T)
  BY <1>1, <1>3, <1>4
<1>8. faults' = 0 => \A j \in 1..Len(T) : T[j].len \in {"zero", "full"}
  BY <1>1, <1>3, <1>4
<1>9. Answer(r, T)
  BY <1>3, <1>5, <1>6, <1>7, <1>8 DEF Answer
<1> QED
  BY <1>9 DEF T, t

\* Every way in which Serve answers the request at the head of the stream.
LEMMA ServeAnswers ==
  ASSUME TypeOK, LogOK, Serve
  PROVE  Head(toGrout) \in Writes /\ \E T : toClient' = toClient \o T /\ Answer(Head(toGrout), T)
<1> DEFINE r == Head(toGrout)
           s == RepliesTo(r)
<1>0. r \in Writes /\ toClient \in Seq(Replies) /\ faults \in Nat
  BY ClientAssumption DEF Serve, TypeOK
<1> HIDE DEF r
<1>1. /\ s \in Seq(Replies) /\ Len(s) \in Nat /\ Len(s) > 0
      /\ \A j \in 1..Len(s) : /\ s[j].forID = r.id /\ s[j].status = 0 /\ s[j].len \in {"zero", "full"}
                              /\ kind[r.call] # "list" \/ s[j].len = "zero" => j = Len(s)
      /\ \A x \in Calls : x \in R!Produces(r.call, log) <=> \E j \in 1..Len(s) : x \in s[j].body
  BY <1>0, RepliesFacts
<1>2. CASE log' = Append(log, r.call) /\ toClient' = toClient \o s
  <2> HIDE DEF s
  <2>1. Answer(r, s)
    BY <1>1, <1>2, SMTT(60) DEF Answer
  <2> QED
    BY <1>0, <1>2, <2>1 DEF r
<1>3. CASE log' = Append(log, r.call) /\ Misbehaves("dup") /\ toClient' = toClient \o (s \o s)
  <2> HIDE DEF s
  <2> DEFINE T == s \o s
  <2>1. /\ T \in Seq(Replies) /\ Len(T) = Len(s) + Len(s)
        /\ \A j \in 1..(Len(s) + Len(s)) : T[j] = IF j <= Len(s) THEN s[j] ELSE s[j - Len(s)]
    BY <1>1, ConcatProperties
  <2>2. toClient' = toClient \o T
    BY <1>3, Zenon
  <2>3. faults' # 0 /\ ~Synced'
    BY <1>0, <1>3 DEF Misbehaves, Synced
  <2> HIDE DEF T
  <2>4. \A j \in 1..Len(T) :
          T[j].forID = r.id /\ T[j].len \in {"zero", "full"} /\ T[j].status = 0
    BY <1>1, <2>1, SMTT(60)
  <2>5. \A j \in 1..Len(T) : T[j].status = 0 /\ (kind[r.call] # "list" \/ T[j].len = "zero") =>
          j = Len(s) \/ j = Len(s) + Len(s)
    <3> SUFFICES ASSUME NEW j \in 1..Len(T), kind[r.call] # "list" \/ T[j].len = "zero"
                 PROVE  j = Len(s) \/ j = Len(s) + Len(s)
      OBVIOUS
    <3>1. CASE j <= Len(s)
      BY <1>1, <2>1, <3>1
    <3>2. CASE j > Len(s)
      <4>1. j - Len(s) \in 1..Len(s) /\ T[j] = s[j - Len(s)]
        BY <1>1, <2>1, <3>2
      <4> QED
        BY <1>1, <4>1
    <3> QED
      BY <1>1, <2>1, <3>1, <3>2
  <2>6. \A x \in Calls, j \in 1..Len(T) : j \in {Len(s), Len(s) + Len(s)} =>
          (x \in R!Produces(r.call, log) <=> \E i \in 1..j : x \in T[i].body)
    <3> SUFFICES ASSUME NEW x \in Calls, NEW j \in {Len(s), Len(s) + Len(s)}
                 PROVE  (\E i \in 1..Len(s) : x \in s[i].body) <=> \E i \in 1..j : x \in T[i].body
      BY <1>1
    <3>1. ASSUME NEW i \in 1..Len(s), x \in s[i].body PROVE i \in 1..j /\ x \in T[i].body
      BY <1>1, <2>1, <3>1
    <3>2. ASSUME NEW i \in 1..j, x \in T[i].body PROVE \E m \in 1..Len(s) : x \in s[m].body
      <4>1. CASE i <= Len(s)
        BY <1>1, <2>1, <3>2, <4>1
      <4>2. CASE i > Len(s)
        <5>1. i - Len(s) \in 1..Len(s) /\ T[i] = s[i - Len(s)]
          BY <1>1, <2>1, <4>2
        <5> QED
          BY <3>2, <5>1
      <4> QED
        BY <1>1, <4>1, <4>2
    <3> QED
      BY <3>1, <3>2
  <2>7. Answer(r, T)
    <3>1. \A j \in 1..Len(T) : T[j].status # 1
      BY <2>4
    <3>2. \A j \in 1..Len(T) :
            T[j].status = 0 /\ T[j].len # "cut" /\ (kind[r.call] # "list" \/ T[j].len = "zero") =>
              /\ log' = Append(log, r.call)
              /\ \A x \in Calls : x \in R!Produces(r.call, log) <=> \E i \in 1..j : x \in T[i].body
      BY <1>3, <2>5, <2>6
    <3>3. \A j \in 1..Len(T) : T[j].forID = r.id /\ T[j].len \in {"zero", "full", "cut"}
      BY <2>4
    <3> QED
      BY <2>1, <2>3, <2>4, <3>1, <3>2, <3>3, Zenon DEF Answer
  <2> QED
    BY <1>0, <2>2, <2>7 DEF r
<1>4. ASSUME NEW n \in 0..(Len(s) - 1), NEW cut \in BOOLEAN, Misbehaves("cut"),
             toClient' = toClient \o Broken(r, n, cut)
      PROVE  \E T : toClient' = toClient \o T /\ Answer(r, T)
  <2>1. faults' # 0
    BY <1>0, <1>4 DEF Misbehaves
  <2>2. CASE cut
    <3> DEFINE f == Reply(r.id, 0, "cut", {})
    <3>1. f \in Replies /\ f.forID = r.id /\ f.status = 0 /\ f.len = "cut"
      BY <1>0, ReplyType DEF Writes
    <3>2. Broken(r, n, cut) = SubSeq(s, 1, n) \o <<f>>
      BY <2>2 DEF Broken
    <3> QED
      BY <1>0, <1>4, <2>1, <3>1, <3>2, CutAnswer, Zenon
  <2>3. CASE ~cut
    <3> DEFINE T == SubSeq(s, 1, n)
    <3>1. /\ T \in Seq(Replies) /\ Len(T) = n /\ n \in Nat
          /\ \A j \in 1..n : /\ T[j].forID = r.id /\ T[j].status = 0 /\ T[j].len = "full"
                             /\ kind[r.call] = "list"
      BY <1>0, <1>1, CutReplies
    <3>2. Broken(r, n, cut) = T
      BY <2>3, <3>1, ConcatEmptySeq DEF Broken
    <3> HIDE DEF T
    <3>3. Answer(r, T)
      BY <3>1, <2>1 DEF Answer
    <3> QED
      BY <1>4, <3>2, <3>3, ZenonT(60)
  <2> QED
    BY <2>2, <2>3, SMTT(60)
<1>5. CASE /\ Misbehaves("huge") /\ garbled'
           /\ toClient' = toClient \o <<Reply(r.id, 0, "huge", {}), Junk>>
  <2> DEFINE f == Reply(r.id, 0, "huge", {})
             g == Junk
  <2>1. f \in Replies /\ g \in Replies /\ f.status = 0 /\ g.status = 0
    <3>1. r.id \in ReqIds
      BY <1>0 DEF Writes
    <3> QED
      BY <3>1, JunkType, ReplyType
  <2>2. faults' # 0
    BY <1>0, <1>5 DEF Misbehaves
  <2> HIDE DEF f, g
  <2>3. <<f, g>> \in Seq(Replies) /\ \A j \in 1..Len(<<f, g>>) : <<f, g>>[j].status = 0
    BY <2>1
  <2>4. Answer(r, <<f, g>>)
    BY <1>5, <2>2, <2>3 DEF Answer, Synced
  <2>5. toClient' = toClient \o <<f, g>>
    BY <1>5 DEF f, g
  <2> QED
    BY <1>0, <2>4, <2>5, Zenon DEF r
<1>6. ASSUME NEW n \in 0..(Len(s) - 1), refused' = refused \union {r.call},
             toClient' = toClient \o (SubSeq(s, 1, n) \o <<Reply(r.id, 1, "zero", {})>>)
      PROVE  \E T : toClient' = toClient \o T /\ Answer(r, T)
  <2> DEFINE f == Reply(r.id, 1, "zero", {})
  <2>1. f \in Replies /\ f.forID = r.id /\ f.status = 1 /\ f.len = "zero"
    BY <1>0, ReplyType DEF Writes
  <2>5. Answer(r, SubSeq(s, 1, n) \o <<f>>)
    BY <1>0, <1>6, <2>1, CutAnswer, Zenon
  <2> QED
    BY <1>6, <2>5, Zenon
<1>7. CASE toClient' = toClient
  <2>1. Answer(r, <<>>)
    BY DEF Answer
  <2>2. toClient' = toClient \o <<>>
    BY <1>0, <1>7, ConcatEmptySeq
  <2> QED
    BY <1>0, <2>1, <2>2, Zenon DEF r
<1>8. ASSUME toClient' # toClient
      PROVE  \/ log' = Append(log, r.call) /\ toClient' = toClient \o s
             \/ log' = Append(log, r.call) /\ Misbehaves("dup") /\ toClient' = toClient \o (s \o s)
             \/ /\ Misbehaves("cut")
                /\ \E n \in 0..(Len(s) - 1), cut \in BOOLEAN : toClient' = toClient \o Broken(r, n, cut)
             \/ /\ Misbehaves("huge") /\ garbled'
                /\ toClient' = toClient \o <<Reply(r.id, 0, "huge", {}), Junk>>
             \/ /\ refused' = refused \union {r.call}
                /\ \E n \in 0..(Len(s) - 1) :
                     toClient' = toClient \o (SubSeq(s, 1, n) \o <<Reply(r.id, 1, "zero", {})>>)
  <2>1. \A t : Behind(t) # toClient => Behind(t) = toClient \o t
    BY Zenon DEF Behind
  <2> QED
    BY <1>8, <2>1, Zenon DEF Serve, r
<1>9. \E T : toClient' = toClient \o T /\ Answer(r, T)
  BY <1>2, <1>3, <1>4, <1>5, <1>6, <1>7, <1>8, Zenon DEF r
<1> QED
  BY <1>0, <1>9, Zenon DEF r

-----------------------------------------------------------------------------
\* Everything holds before Dial.
LEMMA ClientInit == Init => ClientInv
<1> SUFFICES ASSUME Init PROVE ClientInv
  OBVIOUS
<1> USE ClientAssumption
<1>1. TypeOK
  <2>1. 0 \in ReqIds /\ 0 \in 0..MaxFaults
    BY DEF ReqIds
  <2>2. /\ kind \in [Calls -> R!Kinds]
        /\ status \in [Calls -> {"unused", "running", "ok", "error"}]
        /\ answer \in [Calls -> SUBSET Calls]
    BY DEF Init, R!Init, R!Kinds
  <2>3. /\ pc \in [Callers -> {"idle", "lock", "header", "payload", "read", "body"}]
        /\ call \in [Callers -> Calls \union {0}]
        /\ id \in [Callers -> ReqIds]
        /\ items \in [Callers -> SUBSET Calls]
    BY <2>1 DEF Init
  <2>4. log \in Seq(Calls) /\ toGrout \in Seq(Writes) /\ toClient \in Seq(Replies) /\ table \in Seq(Calls)
    BY DEF Init, R!Init
  <2>5. garbled \in BOOLEAN /\ peer \in BOOLEAN
    BY Zenon DEF Init, R!Init
  <2>6. /\ mu \in Callers \union {None} /\ client \in {"none", "hello", "ready", "closed"}
        /\ refused \subseteq Calls /\ reqID \in ReqIds /\ faults \in 0..MaxFaults
    BY <2>1 DEF Init
  <2> QED
    BY <2>2, <2>3, <2>4, <2>5, <2>6, ZenonT(60) DEF TypeOK
<1>2. Fresh /\ Unanswered /\ Behaves /\ NoSpuriousError
  BY DEF Init, R!Init, Fresh, Unanswered, Behaves, NoSpuriousError
<1>3. /\ \A c \in Callers : CallOK(c)
      /\ CallsApart
      /\ \A c \in Callers : pc[c] \notin InCall
  BY DEF Init, R!Init, CallOK, CallsApart, InCall
<1>4. log = <<>> /\ toGrout = <<>> /\ table = <<>> /\ toClient = <<>>
  BY DEF Init, R!Init
<1>5. LogOK
  BY <1>4 DEF LogOK, Logged, Sent
<1>6. Paired
  BY <1>4 DEF Paired, Init
<1>8. InStep
  BY <1>3, <1>4 DEF InStep
<1> QED
  BY <1>1, <1>2, <1>3, <1>4, <1>5, <1>6, <1>8, SMTT(60) DEF ClientInv

\* The bytes a client reads are a reply, or junk that looks like one.
LEMMA TakenForType ==
  ASSUME NEW f \in Replies, NEW g \in TakenFor(f)
  PROVE  /\ g \in Replies
         /\ f # Junk => g = f
<1>1. CASE f = Junk
  <2>1. PICK i \in ReqIds, st \in {0, 1}, l \in {"zero", "full", "huge"} : g = Reply(i, st, l, {})
    BY <1>1, SMTT(30) DEF TakenFor
  <2> QED
    BY <1>1, <2>1, ReplyType
<1>2. CASE f # Junk
  BY <1>2 DEF TakenFor
<1> QED
  BY <1>1, <1>2

\* What a return changes keeps its type.
LEMMA ReturnType ==
  ASSUME TypeOK, NEW c \in Callers, NEW st \in {"ok", "error"}, NEW a \in SUBSET Calls, Return(c, st, a),
         toGrout' \in Seq(Writes), toClient' \in Seq(Replies),
         UNCHANGED <<id, reqID, peer, table, refused, faults>>
  PROVE  TypeOK'
BY Zenon DEF TypeOK, Return, Goto, Calls, ReqIds, Writes, Replies

\* What Serve leaves alone, and what changes with what.
LEMMA ServeShape ==
  ASSUME Serve
  PROVE  /\ peer /\ Len(toGrout) >= 2 /\ toGrout' = SubSeq(toGrout, 3, Len(toGrout))
         /\ \/ /\ log' = Append(log, Head(toGrout).call)
               /\ table' = IF kind[Head(toGrout).call] = "add" THEN Append(table, Head(toGrout).call) ELSE table
               /\ refused' = refused
            \/ /\ UNCHANGED <<log, table, garbled, peer, faults>>
               /\ refused' = refused \union {Head(toGrout).call}
         /\ \/ faults' = faults /\ peer' = peer /\ garbled' = garbled
            \/ /\ faults < MaxFaults /\ faults' = faults + 1
               /\ peer' = peer \/ peer' = FALSE
               /\ garbled' = garbled \/ garbled' = TRUE
         /\ UNCHANGED <<kind, status, answer, pc, call, id, items, mu, reqID, client>>
BY Zenon DEF Serve, Misbehaves, callVars

\* Every step keeps the types.
LEMMA TypeStep == ClientInv /\ [Next]_vars => TypeOK'
<1> SUFFICES ASSUME ClientInv, [Next]_vars PROVE TypeOK'
  OBVIOUS
<1>0. TypeOK /\ LogOK
  BY DEF ClientInv
<1>1. ASSUME NEW c \in Callers, NEW t \in {"hello", "add", "list"}, Start(c, t),
             peer' \in BOOLEAN, client' \in {"none", "hello", "ready", "closed"}
      PROVE  TypeOK'
  BY <1>0, <1>1, SMTT(60) DEF TypeOK, Start, Goto, R!Kinds, Writes, Calls, ReqIds, Replies
<1>2. ASSUME NEW c \in Callers, Dial(c) PROVE TypeOK'
  <2>1. CASE Start(c, "hello") /\ client' = "hello" /\ peer' = TRUE
    BY <1>1, <2>1
  <2>2. CASE /\ client' = "closed"
             /\ UNCHANGED <<callVars, log, garbled, pc, call, id, items, mu, reqID, wire, table, refused, faults>>
    BY <1>0, <2>2 DEF TypeOK, callVars, wire, Writes, Replies
  <2> QED
    BY <1>2, <2>1, <2>2, Zenon DEF Dial
<1>3. ASSUME NEW c \in Callers, NEW t \in {"add", "list"}, Call(c, t) PROVE TypeOK'
  <2>1. peer' \in BOOLEAN /\ client' \in {"none", "hello", "ready", "closed"}
    BY <1>0, <1>3 DEF Call, TypeOK
  <2> QED
    BY <1>1, <1>3, <2>1 DEF Call
<1>4. ASSUME NEW c \in Callers, Lock(c) PROVE TypeOK'
  <2>1. reqID' \in ReqIds
    BY <1>0, <1>4, ClientAssumption DEF TypeOK, Lock, ReqIds
  <2> QED
    BY <1>0, <1>4, <2>1, ZenonT(60) DEF TypeOK, Lock, Goto, callVars, wire, Writes, Replies
<1>5. ASSUME NEW c \in Callers, NEW p \in {"header", "payload"}, NEW n \in {"payload", "read"}, Write(c, p, n)
      PROVE  TypeOK'
  <2>1. CASE /\ toGrout' = Append(toGrout, [part |-> p, id |-> id[c], call |-> call[c]])
             /\ Goto(c, n)
             /\ UNCHANGED <<callVars, log, garbled, call, items, mu, client>>
    <3>1. call[c] \in Calls /\ id[c] \in ReqIds
      BY <1>0, <1>5, ZenonT(60) DEF Write, ClientInv, CallOK, TypeOK
    <3> DEFINE w == [part |-> p, id |-> id[c], call |-> call[c]]
    <3>2. w \in Writes
      BY <3>1 DEF Writes
    <3>3. toGrout' = Append(toGrout, w)
      BY <2>1
    <3> HIDE DEF w
    <3>4. toGrout' \in Seq(Writes)
      BY <1>0, <3>2, <3>3 DEF TypeOK
    <3> QED
      BY <1>0, <1>5, <2>1, <3>4, ZenonT(60) DEF TypeOK, Write, Goto, callVars, Writes, Replies
  <2>2. CASE Return(c, "error", {}) /\ UNCHANGED toGrout
    <3>1. /\ toGrout' \in Seq(Writes) /\ toClient' \in Seq(Replies)
          /\ UNCHANGED <<id, reqID, peer, table, refused, faults>>
      BY <1>0, <1>5, <2>2, ZenonT(60) DEF TypeOK, Write
    <3> QED
      BY <1>0, <2>2, <3>1, ReturnType, SMTT(60)
  <2> QED
    BY <1>5, <2>1, <2>2 DEF Write
<1>6. ASSUME NEW c \in Callers, Read(c) \/ ReadRest(c) PROVE TypeOK'
  <2>1. toClient' \in Seq(Replies) /\ UNCHANGED <<id, reqID, peer, toGrout, table, refused, faults>>
    <3>1. toClient \in Seq(Replies) /\ Junk \in Replies
      BY <1>0, JunkType, Zenon DEF TypeOK
    <3>2. CASE Read(c)
      BY <3>1, <3>2 DEF Read
    <3>3. CASE ReadRest(c)
      BY <3>1, <3>3 DEF ReadRest
    <3> QED
      BY <1>6, <3>2, <3>3
  <2>2. PICK f \in Replies : Take(c, f)
    <3>1. CASE Read(c)
      <4>1. Head(toClient) \in Replies
        BY <1>0, <3>1 DEF Read, TypeOK
      <4> QED
        BY <3>1, <4>1, TakenForType, Zenon DEF Read
    <3>2. CASE ReadRest(c)
      BY <3>2, JunkType, TakenForType, Zenon DEF ReadRest
    <3> QED
      BY <1>6, <3>1, <3>2
  <2>3. items[c] \union f.body \in SUBSET Calls
    BY <1>0 DEF Replies, TypeOK
  <2>4. toGrout' \in Seq(Writes)
    BY <1>0, <2>1, Zenon DEF TypeOK
  <2>5. CASE /\ items' = [items EXCEPT ![c] = items[c] \union f.body]
             /\ Goto(c, "read")
             /\ UNCHANGED <<callVars, log, garbled, call, mu, client>>
    BY <1>0, <2>1, <2>3, <2>4, <2>5, ZenonT(60) DEF TypeOK, Goto, callVars, Writes, Replies
  <2>6. CASE Return(c, "ok", items[c] \union f.body) \/ Return(c, "error", {})
    BY <1>0, <2>1, <2>3, <2>4, <2>6, ReturnType, SMTT(60)
  <2> QED
    BY <2>2, <2>5, <2>6, Zenon DEF Take
<1>s. ASSUME NEW c \in Callers, ReadShort(c) PROVE TypeOK'
  <2>1. toClient' \in Seq(Replies)
    BY <1>s DEF ReadShort
  <2> QED
    BY <1>0, <1>s, <2>1, ZenonT(60) DEF TypeOK, ReadShort, Goto, callVars, Writes, Replies
<1>7. ASSUME NEW c \in Callers, ReadEOF(c) PROVE TypeOK'
  BY <1>0, <1>7, ReturnType, SMTT(60) DEF ReadEOF, wire, TypeOK
<1>8. CASE Serve
  <2>1. toClient' \in Seq(Replies)
    <3>1. PICK T : toClient' = toClient \o T /\ Answer(Head(toGrout), T)
      BY <1>0, <1>8, ServeAnswers, Zenon
    <3>2. toClient \in Seq(Replies) /\ T \in Seq(Replies)
      BY <1>0, <3>1, ZenonT(60) DEF TypeOK, Answer
    <3> QED
      BY <3>1, <3>2, ConcatProperties
  <2>2. Head(toGrout) \in Writes /\ toGrout' \in Seq(Writes)
    BY <1>0, <1>8 DEF Serve, TypeOK
  <2>3. log' \in Seq(Calls) /\ table' \in Seq(Calls) /\ refused' \subseteq Calls
    <3>1. Head(toGrout).call \in Calls
      BY <2>2 DEF Writes
    <3>2. log \in Seq(Calls) /\ table \in Seq(Calls) /\ refused \subseteq Calls
      BY <1>0 DEF TypeOK
    <3>3. CASE /\ log' = Append(log, Head(toGrout).call) /\ refused' = refused
               /\ table' = IF kind[Head(toGrout).call] = "add" THEN Append(table, Head(toGrout).call) ELSE table
      BY <3>1, <3>2, <3>3
    <3>4. CASE log' = log /\ table' = table /\ refused' = refused \union {Head(toGrout).call}
      BY <3>1, <3>2, <3>4
    <3> QED
      BY <1>8, <3>3, <3>4, ServeShape, Zenon
  <2>4. peer' \in BOOLEAN /\ garbled' \in BOOLEAN /\ faults' \in 0..MaxFaults
    <3>1. peer \in BOOLEAN /\ garbled \in BOOLEAN /\ faults \in 0..MaxFaults
      BY <1>0 DEF TypeOK
    <3>2. peer' \in BOOLEAN /\ garbled' \in BOOLEAN
      <4>1. (peer' = peer \/ peer' = FALSE) /\ (garbled' = garbled \/ garbled' = TRUE)
        BY <1>8, ServeShape, Zenon
      <4> QED
        BY <3>1, <4>1, Zenon
    <3>3. faults' = faults \/ (faults < MaxFaults /\ faults' = faults + 1)
      BY <1>8, ServeShape, Zenon
    <3> QED
      BY <3>1, <3>2, <3>3, ClientAssumption
  <2>5. UNCHANGED <<kind, status, answer, pc, call, id, items, mu, reqID, client>>
    BY <1>8, ServeShape, Zenon
  <2> QED
    BY <1>0, <2>1, <2>2, <2>3, <2>4, <2>5, ZenonT(60) DEF TypeOK
<1>9. CASE Hangup
  <2>1. faults' \in 0..MaxFaults
    BY <1>0, <1>9, ClientAssumption, SMTT(60) DEF Hangup, Misbehaves, TypeOK
  <2> QED
    BY <1>0, <1>9, <2>1, ZenonT(60) DEF Hangup, TypeOK, callVars
<1>10. CASE Close
  BY <1>0, <1>10 DEF Close, TypeOK, callVars, wire, Writes, Replies
<1>11. CASE UNCHANGED vars
  BY <1>0, <1>11, ZenonT(60) DEF vars, TypeOK, Writes, Replies
<1> QED
  BY <1>2, <1>3, <1>4, <1>5, <1>6, <1>7, <1>s, <1>8, <1>9, <1>10, <1>11, ZenonT(60) DEF Next, Step

-----------------------------------------------------------------------------
\* What an executed call produced does not change: not when the log grows, and
\* not when the kinds of other calls are set.
LEMMA ProductSame ==
  ASSUME TypeOK, TypeOK', NEW i \in 1..Len(log), NEW k \in Calls,
         log' = log \/ \E x \in Calls : log' = Append(log, x),
         kind'[k] = kind[k], \A j \in 1..Len(log) : kind'[log[j]] = kind[log[j]]
  PROVE  i \in DOMAIN log' /\ log'[i] = log[i] /\ Product(k, i)' = Product(k, i)
<1> DEFINE l == SubSeq(log, 1, i - 1)
           m == SubSeq(log', 1, i - 1)
<1>1. log \in Seq(Calls) /\ Len(log) \in Nat /\ log' \in Seq(Calls) /\ Len(log') \in Nat
  BY DEF TypeOK
<1>2. Len(log') >= Len(log) /\ \A j \in 1..Len(log) : log'[j] = log[j]
  BY <1>1, SMTT(60)
<1>3. l \in Seq(Calls) /\ Len(l) = i - 1 /\ \A j \in 1..(i - 1) : l[j] = log[j]
  <2>1. i - 1 \in Int /\ \A j \in 1..(i - 1) : log[j] \in Calls
    BY <1>1
  <2> QED
    BY <1>1, <2>1, SubSeqProperties
<1>4. m \in Seq(Calls) /\ Len(m) = i - 1 /\ \A j \in 1..(i - 1) : m[j] = log[j]
  <2>1. i - 1 \in Int /\ \A j \in 1..(i - 1) : log'[j] \in Calls /\ log'[j] = log[j]
    BY <1>1, <1>2, SMTT(60)
  <2> QED
    BY <1>1, <2>1, SubSeqProperties
<1> HIDE DEF l, m
<1>5. DOMAIN l = 1..(i - 1) /\ DOMAIN m = 1..(i - 1)
  BY <1>3, <1>4
<1>6. l = m
  BY <1>3, <1>4, <1>5, SeqDef, SMTT(60)
<1>7. {j \in DOMAIN l : kind'[l[j]] = "add"} = {j \in DOMAIN l : kind[l[j]] = "add"}
  BY <1>1, <1>3, <1>5, SMTT(60)
<1>8. Product(k, i)' = Product(k, i)
  <2>1. Product(k, i) = CASE kind[k] = "list" -> {l[j] : j \in {jj \in DOMAIN l : kind[l[jj]] = "add"}}
                          [] kind[k] = "add" -> {k}
                          [] OTHER -> {}
    BY DEF Product, R!Produces, R!Table, l
  <2>2. Product(k, i)' = CASE kind'[k] = "list" -> {m[j] : j \in {jj \in DOMAIN m : kind'[m[jj]] = "add"}}
                           [] kind'[k] = "add" -> {k}
                           [] OTHER -> {}
    BY DEF Product, R!Produces, R!Table, m
  <2>3. {m[j] : j \in {jj \in DOMAIN m : kind'[m[jj]] = "add"}}
          = {l[j] : j \in {jj \in DOMAIN l : kind[l[jj]] = "add"}}
    BY <1>6, <1>7, Zenon
  <2> QED
    BY <2>1, <2>2, <2>3, Zenon
<1> QED
  BY <1>1, <1>2, <1>8, SMTT(60)

\* A call that starts, and the connection that Dial makes for the first one.
LEMMA BeginStep ==
  ASSUME ClientInv, TypeOK', NEW c \in Callers, NEW t \in {"hello", "add", "list"}, Start(c, t),
         \/ client = "none" /\ client' = "hello" /\ peer' = TRUE
         \/ client = "ready" /\ client' = "ready" /\ peer' = peer
  PROVE  ClientInv'
<1>1. PICK k \in Calls : /\ status[k] = "unused"
                         /\ call' = [call EXCEPT ![c] = k]
                         /\ kind' = [kind EXCEPT ![k] = t]
                         /\ status' = [status EXCEPT ![k] = "running"]
  BY Zenon DEF Start
<1>2. /\ TypeOK /\ Fresh /\ CallsApart /\ LogOK /\ Paired /\ Behaves /\ NoSpuriousError
      /\ Unanswered /\ \A d \in Callers : CallOK(d)
      /\ ~garbled => \A j \in DOMAIN toClient : toClient[j].len \in {"zero", "full", "cut"}
  BY DEF ClientInv
<1>3. /\ pc[c] = "idle" /\ pc' = [pc EXCEPT ![c] = "lock"]
      /\ UNCHANGED <<answer, log, garbled, id, items, mu, reqID, toGrout, toClient, table, refused, faults>>
  BY ZenonT(60) DEF Start, Goto
<1>4. /\ call'[c] = k /\ pc'[c] = "lock" /\ \A d \in Callers : d # c => call'[d] = call[d] /\ pc'[d] = pc[d]
      /\ status'[k] = "running" /\ kind'[k] = t
      /\ \A x \in Calls : x # k => status'[x] = status[x] /\ kind'[x] = kind[x]
  BY <1>1, <1>2, <1>3, SMTT(60) DEF TypeOK
<1>5. /\ \A d \in Callers : call[d] # k
      /\ ~Logged(k) /\ ~Sent(k)
  <2>1. k # 0
    BY DEF Calls
  <2> QED
    BY <1>1, <1>2, <2>1 DEF CallOK, LogOK
<1>6. client = "none" => toGrout = <<>> /\ toClient = <<>> /\ \A d \in Callers : pc[d] = "idle"
  BY <1>2 DEF Fresh
<1>7. \A d \in Callers : CallOK(d)'
  <2> TAKE d \in Callers
  <2>1. CASE d = c
    BY <1>2, <1>3, <1>4, <2>1, ZenonT(60) DEF CallOK, InCall
  <2>2. CASE d # c
    BY <1>1, <1>2, <1>3, <1>4, <1>5, <2>2, SMTT(60) DEF CallOK, InCall
  <2> QED
    BY <2>1, <2>2
<1>8. CallsApart'
  BY <1>2, <1>4, <1>5, ZenonT(60) DEF CallsApart
<1>9. LogOK'
  <2>1. \A x \in Calls : Logged(x)' = Logged(x) /\ Sent(x)' = Sent(x)
    BY <1>3, Zenon DEF Logged, Sent
  <2>2. /\ \A i, j \in DOMAIN log' : log'[i] = log'[j] => i = j
        /\ \A x \in Calls : Logged(x)' \/ Sent(x)' => status'[x] # "unused"
        /\ \A x \in Calls : ~(Logged(x)' /\ Sent(x)')
    <3>1. \A i, j \in DOMAIN log' : log'[i] = log'[j] => i = j
      BY <1>2, <1>3, Zenon DEF LogOK
    <3>2. \A x \in Calls : ~(Logged(x)' /\ Sent(x)')
      BY <1>2, <2>1, Zenon DEF LogOK
    <3>3. \A x \in Calls : Logged(x)' \/ Sent(x)' => status'[x] # "unused"
      <4>1. \A x \in Calls : Logged(x) \/ Sent(x) => status[x] # "unused" /\ x # k
        BY <1>2, <1>5, Zenon DEF LogOK
      <4> QED
        BY <1>4, <2>1, <4>1, Zenon
    <3> QED
      BY <3>1, <3>2, <3>3, Zenon
  <2>3. \A d \in Callers : pc'[d] \in {"lock", "header"} => ~Logged(call[d])' /\ ~Sent(call[d])'
    BY <1>2, <1>3, <1>4, <1>5, SMTT(60) DEF LogOK, Logged, Sent
  <2>4. \A x \in Calls : (\E i \in DOMAIN table' : table'[i] = x) <=> Logged(x)' /\ kind'[x] = "add"
    <3>1. \A x \in Calls : (\E i \in DOMAIN table : table[i] = x) <=> Logged(x) /\ kind[x] = "add"
      BY <1>2, Zenon DEF LogOK
    <3>2. \A x \in Calls : Logged(x) => kind'[x] = kind[x]
      BY <1>4, <1>5, Zenon
    <3>3. table' = table
      BY <1>3, Zenon
    <3> QED
      BY <2>1, <3>1, <3>2, <3>3, Zenon
  <2> QED
    BY <2>2, <2>3, <2>4, Zenon DEF LogOK, Logged, Sent
<1>10. \A d \in Callers : (pc'[d] = "payload") = (pc[d] = "payload")
  BY <1>3, <1>4
<1>11. Paired'
  <2>1. CASE peer' = peer
    BY <1>2, <1>3, <1>4, <1>10, <2>1, ZenonT(60) DEF Paired
  <2>2. CASE client = "none"
    BY <1>3, <1>4, <1>6, <2>2, SMTT(60) DEF Paired
  <2> QED
    BY <2>1, <2>2, Zenon
<1>13. Fresh' /\ Unanswered' /\ Behaves' /\ NoSpuriousError'
  BY <1>1, <1>2, <1>3, <1>4, ZenonT(60) DEF Fresh, Unanswered, Behaves, NoSpuriousError
<1>14. Synced' => InStep'
  <2>1. SUFFICES ASSUME Synced, InStep PROVE InStep'
    BY <1>3, Zenon DEF Synced, ClientInv
  <2>2. \A d \in Callers : (pc'[d] \in InCall) = (pc[d] \in InCall)
    BY <1>3, <1>4 DEF InCall
  <2>3. (\A d \in Callers : pc'[d] \notin InCall) => toClient' = <<>> /\ (peer' => toGrout' = <<>>)
    BY <1>3, <1>6, <2>1, <2>2, Zenon DEF InStep
  <2>4. ASSUME NEW d \in Callers, pc'[d] \in InCall
        PROVE  /\ d # c /\ peer' = peer /\ call'[d] = call[d] /\ kind'[call[d]] = kind[call[d]]
               /\ pc'[d] = pc[d] /\ pc[d] \in InCall
    BY <1>2, <1>4, <1>5, <1>6, <2>4, ZenonT(60) DEF InCall, CallOK
  <2>5. ASSUME NEW d \in Callers, pc'[d] \in InCall
        PROVE  /\ peer' => \A i \in DOMAIN toGrout' : toGrout'[i].call = call'[d] /\ toGrout'[i].id = id'[d]
               /\ pc'[d] \in {"header", "payload"} \/ (peer' /\ toGrout' # <<>>) => toClient' = <<>>
               /\ \A j \in DOMAIN toClient' :
                    /\ toClient'[j].forID = id'[d]
                    /\ ~Accepts(d, toClient[j])' \/ EndsCall(d, toClient[j])' => j = Len(toClient')
                    /\ toClient'[j].status = 1 => call'[d] \in refused'
    BY <1>3, <2>1, <2>4, <2>5, SMTT(60) DEF InStep, Accepts, EndsCall
  <2> QED
    BY <2>3, <2>5, SMTT(60) DEF InStep
<1>15. Matched' => \A d \in Callers : pc'[d] \in InCall => WireOK(d)'
  <2>1. SUFFICES ASSUME Matched, NEW d \in Callers, pc'[d] \in InCall PROVE WireOK(d)'
    BY <1>3 DEF Matched
  <2>2. /\ d # c /\ peer' = peer /\ call'[d] = call[d] /\ call[d] \in Calls
        /\ kind'[call[d]] = kind[call[d]] /\ pc'[d] = pc[d] /\ pc[d] \in InCall
    BY <1>2, <1>4, <1>5, <1>6, <2>1, Zenon DEF InCall, CallOK
  <2>3. WireOK(d)
    BY <2>1, <2>2, Zenon DEF ClientInv
  <2>4. \A i \in 1..Len(log) : Product(call[d], i)' = Product(call[d], i)
    <3>1. \A j \in 1..Len(log) : kind'[log[j]] = kind[log[j]]
      <4>1. log \in Seq(Calls)
        BY <1>2, Zenon DEF TypeOK
      <4>2. DOMAIN log = 1..Len(log) /\ \A j \in 1..Len(log) : log[j] \in Calls
        BY <4>1
      <4> QED
        BY <1>4, <1>5, <4>2, Zenon DEF Logged
    <3> QED
      BY <1>2, <1>3, <2>2, <3>1, ProductSame, ZenonT(60)
  <2>5. \A j \in DOMAIN toClient' : Completes(d, toClient[j])' =>
          \E i \in DOMAIN log' : log'[i] = call'[d] /\ \A x \in Calls : Has(d, j, x)' <=> x \in Product(call[d], i)'
    <3>1. \A j \in DOMAIN toClient : Completes(d, toClient[j])' <=> Completes(d, toClient[j])
      BY <1>3, <2>2, Zenon DEF Completes, Accepts, EndsCall
    <3>2. \A j \in DOMAIN toClient, x \in Calls : Has(d, j, x)' <=> Has(d, j, x)
      BY <1>3, Zenon DEF Has
    <3>3. SUFFICES ASSUME NEW j \in DOMAIN toClient, Completes(d, toClient[j])'
                   PROVE  \E i \in DOMAIN log' : /\ log'[i] = call'[d]
                                                 /\ \A x \in Calls : Has(d, j, x)' <=> x \in Product(call[d], i)'
      BY <1>3, Zenon
    <3>4. PICK i \in DOMAIN log : log[i] = call[d] /\ \A x \in Calls : Has(d, j, x) <=> x \in Product(call[d], i)
      BY <2>3, <3>1, <3>3, ZenonT(60) DEF WireOK
    <3>5. i \in 1..Len(log)
      <4>1. log \in Seq(Calls)
        BY <1>2, Zenon DEF TypeOK
      <4>2. DOMAIN log = 1..Len(log)
        BY <4>1
      <4> QED
        BY <3>4, <4>2, Zenon
    <3> QED
      BY <1>3, <2>2, <2>4, <3>2, <3>4, <3>5, Zenon
  <2> QED
    BY <1>3, <2>2, <2>3, <2>5, ZenonT(60) DEF WireOK, Sent
<1> QED
  BY <1>2, <1>3, <1>7, <1>8, <1>9, <1>11, <1>13, <1>14, <1>15, ZenonT(60) DEF ClientInv

\* The mutex: one goroutine is in a call.
LEMMA OneInCall ==
  ASSUME ClientInv, NEW c \in Callers, NEW d \in Callers, pc[c] \in InCall, pc[d] \in InCall
  PROVE  c = d
BY DEF ClientInv, CallOK

\* A call takes the mutex and an id, which no request or reply carries, or else the
\* replies can no longer be told apart.
LEMMA LockStep ==
  ASSUME ClientInv, TypeOK', NEW c \in Callers, Lock(c)
  PROVE  ClientInv'
<1>1. /\ TypeOK /\ Fresh /\ Unanswered /\ CallsApart /\ LogOK /\ Paired /\ Behaves /\ NoSpuriousError
      /\ \A d \in Callers : CallOK(d)
      /\ ~garbled => \A j \in DOMAIN toClient : toClient[j].len \in {"zero", "full", "cut"}
  BY DEF ClientInv
<1>2. /\ pc[c] = "lock" /\ mu = None /\ mu' = c /\ reqID' = (reqID + 1) % IdMod
      /\ garbled' = (garbled \/ reqID' \in PendingIds)
      /\ UNCHANGED <<kind, status, answer, log, call, items, client, peer, toGrout, toClient,
                     table, refused, faults>>
  BY Zenon DEF Lock, callVars, wire
<1>3. /\ pc'[c] = "header" /\ id'[c] = reqID'
      /\ \A d \in Callers : d # c => pc'[d] = pc[d] /\ id'[d] = id[d]
  BY <1>1, Zenon DEF Lock, Goto, TypeOK
<1>4. \A d \in Callers : pc[d] \notin InCall
  BY <1>1, <1>2, ClientAssumption DEF CallOK
<1>5. \A d \in Callers : pc'[d] \in InCall => d = c
  BY <1>3, <1>4, Zenon
<1>6. call[c] \in Calls /\ status[call[c]] = "running" /\ ~Logged(call[c]) /\ ~Sent(call[c])
  BY <1>1, <1>2, Zenon DEF CallOK, LogOK
<1>7. \A d \in Callers : CallOK(d)'
  BY <1>1, <1>2, <1>3, <1>4, Zenon DEF CallOK, InCall
<1>8. CallsApart' /\ Unanswered' /\ NoSpuriousError'
  BY <1>1, <1>2, Zenon DEF CallsApart, Unanswered, NoSpuriousError
<1>f. Fresh'
  BY <1>1, <1>2, <1>3, Zenon DEF Fresh
<1>s. Synced => toClient = <<>> /\ (peer => toGrout = <<>>)
  BY <1>4, Zenon DEF ClientInv, InStep
<1>9. Behaves'
  <2>1. SUFFICES ASSUME faults = 0 PROVE Behaves'
    BY <1>2, Zenon DEF Behaves
  <2>2. ~garbled /\ peer
    BY <1>1, <1>2, <2>1, Zenon DEF Behaves
  <2>3. toClient = <<>> /\ toGrout = <<>>
    BY <1>s, <2>1, <2>2, Zenon DEF Synced
  <2>4. PendingIds = {}
    BY <2>3 DEF PendingIds
  <2>5. ~garbled'
    BY <1>2, <2>2, <2>4, Zenon
  <2> QED
    BY <1>1, <1>2, <2>2, <2>5, Zenon DEF Behaves
<1>10. LogOK'
  <2>1. \A x \in Calls : Logged(x)' = Logged(x) /\ Sent(x)' = Sent(x)
    BY <1>2, Zenon DEF Logged, Sent
  <2>2. \A d \in Callers : pc'[d] \in {"lock", "header"} => ~Logged(call[d])' /\ ~Sent(call[d])'
    <3> SUFFICES ASSUME NEW d \in Callers, pc'[d] \in {"lock", "header"} PROVE ~Logged(call[d])' /\ ~Sent(call[d])'
      BY Zenon
    <3>1. call'[d] = call[d] /\ ~Logged(call[d]) /\ ~Sent(call[d])
      BY <1>1, <1>2, <1>3, <1>6, Zenon DEF LogOK
    <3> QED
      BY <1>2, <3>1, Zenon DEF Logged, Sent
  <2>3. /\ \A i, j \in DOMAIN log' : log'[i] = log'[j] => i = j
        /\ \A x \in Calls : Logged(x)' \/ Sent(x)' => status'[x] # "unused"
        /\ \A x \in Calls : ~(Logged(x)' /\ Sent(x)')
    BY <1>1, <1>2, <2>1, Zenon DEF LogOK
  <2>4. \A x \in Calls : (\E i \in DOMAIN table' : table'[i] = x) <=> Logged(x)' /\ kind'[x] = "add"
    BY <1>1, <1>2, <2>1, ZenonT(60) DEF LogOK
  <2> QED
    BY <2>2, <2>3, <2>4, Zenon DEF LogOK, Logged, Sent
<1>11. Paired'
  <2>1. \A d \in Callers : pc'[d] # "payload" /\ pc[d] # "payload"
    BY <1>3, <1>4, ZenonT(60) DEF InCall
  <2> QED
    BY <1>1, <1>2, <2>1 DEF Paired
<1>12. ~garbled' => ~garbled
  BY <1>2, Zenon
<1>13. ASSUME ~garbled'
       PROVE  /\ \A i \in DOMAIN toGrout : toGrout[i].id # reqID'
              /\ \A i \in DOMAIN toClient : toClient[i].forID # reqID'
  BY <1>2, <1>13, Zenon DEF PendingIds
<1>14. Matched' => \A d \in Callers : pc'[d] \in InCall => WireOK(d)'
  <2>1. SUFFICES ASSUME ~garbled' PROVE WireOK(c)'
    BY <1>5, Zenon DEF Matched
  <2>2. peer' => \A i \in DOMAIN toGrout' : (toGrout'[i].id = id'[c]) <=> (toGrout'[i].call = call'[c])
    BY <1>2, <1>3, <1>6, <1>13, <2>1, Zenon DEF Sent
  <2>3. items'[c] = {} /\ \A i \in DOMAIN toClient' : toClient'[i].forID # id'[c]
    BY <1>1, <1>2, <1>3, <1>13, <2>1, ZenonT(60) DEF CallOK
  <2> QED
    BY <2>2, <2>3, Zenon DEF WireOK, Completes
<1>15. Synced' => InStep'
  <2>1. SUFFICES ASSUME Synced PROVE InStep'
    BY <1>2, <1>12, Zenon DEF Synced
  <2>2. toClient = <<>> /\ (peer => toGrout = <<>>)
    BY <1>s, <2>1, Zenon
  <2> QED
    BY <1>2, <1>3, <2>2 DEF InStep
<1> QED
  BY <1>1, <1>2, <1>7, <1>8, <1>f, <1>9, <1>10, <1>11, <1>12, <1>14, <1>15, ZenonT(60) DEF ClientInv

\* One of the two writes of a request arrives on the wire.
WriteArrives(c, p, n) ==
  /\ \/ p = "header" /\ n = "payload"
     \/ p = "payload" /\ n = "read"
  /\ pc[c] = p /\ peer /\ Goto(c, n)
  /\ toGrout' = Append(toGrout, [part |-> p, id |-> id[c], call |-> call[c]])
  /\ UNCHANGED <<kind, status, answer, log, garbled, call, items, mu, client, id, reqID, peer,
                 toClient, table, refused, faults>>

LEMMA WriteStep ==
  ASSUME ClientInv, TypeOK', NEW c \in Callers, NEW p, NEW n, WriteArrives(c, p, n)
  PROVE  ClientInv'
<1> DEFINE N == Len(toGrout)
<1>0. /\ peer
      /\ UNCHANGED <<kind, status, answer, log, garbled, call, items, mu, client, id, reqID, peer,
                     toClient, table, refused, faults>>
  BY DEF WriteArrives
<1>1. /\ TypeOK /\ Fresh /\ Unanswered /\ CallsApart /\ LogOK /\ Paired /\ Behaves /\ NoSpuriousError
      /\ \A d \in Callers : CallOK(d)
      /\ ~garbled => \A j \in DOMAIN toClient : toClient[j].len \in {"zero", "full", "cut"}
  BY Zenon DEF ClientInv
<1>2. /\ (p = "header" /\ n = "payload") \/ (p = "payload" /\ n = "read")
      /\ pc[c] = p /\ pc[c] \in InCall /\ pc'[c] = n /\ pc'[c] \in InCall
      /\ \A d \in Callers : d # c => pc'[d] = pc[d]
  <2>1. pc \in [Callers -> {"idle", "lock", "header", "payload", "read", "body"}]
    BY <1>1 DEF TypeOK
  <2>2. pc' = [pc EXCEPT ![c] = n]
    BY DEF WriteArrives, Goto
  <2>3. pc'[c] = n /\ \A d \in Callers : d # c => pc'[d] = pc[d]
    BY <2>1, <2>2
  <2>4. pc[c] = p /\ ((p = "header" /\ n = "payload") \/ (p = "payload" /\ n = "read"))
    BY Zenon DEF WriteArrives
  <2> QED
    BY <2>3, <2>4, ZenonT(60) DEF InCall
<1>3. \A d \in Callers : pc[d] \in InCall \/ pc'[d] \in InCall => d = c
  BY <1>2, OneInCall, ZenonT(60)
<1>4. N \in Nat /\ DOMAIN toGrout = 1..N
  BY <1>1 DEF TypeOK
<1>n. N \in Nat
  BY <1>4
<1>5. /\ DOMAIN toGrout' = 1..(N + 1) /\ Len(toGrout') = N + 1
      /\ \A i \in 1..N : toGrout'[i] = toGrout[i]
      /\ toGrout'[N + 1].call = call[c] /\ toGrout'[N + 1].id = id[c]
  <2> DEFINE w == [part |-> p, id |-> id[c], call |-> call[c]]
  <2>1. toGrout \in Seq(Writes) /\ toGrout' = Append(toGrout, w)
    BY <1>1, Zenon DEF TypeOK, WriteArrives
  <2>2. w.call = call[c] /\ w.id = id[c]
    OBVIOUS
  <2> HIDE DEF w
  <2>3. Len(toGrout') = N + 1 /\ DOMAIN toGrout' = 1..(N + 1) /\ toGrout'[N + 1] = w
    BY <2>1
  <2>4. \A i \in 1..N : toGrout'[i] = toGrout[i]
    BY <2>1
  <2> QED
    BY <2>2, <2>3, <2>4, Zenon
<1>6. call[c] \in Calls /\ status[call[c]] = "running" /\ mu = c /\ id[c] = reqID /\ items[c] = {}
  BY <1>1, <1>2, ZenonT(60) DEF CallOK, InCall
<1> HIDE DEF N
<1>7. \A d \in Callers : CallOK(d)'
  BY <1>0, <1>1, <1>2, <1>3, <1>6 DEF CallOK, InCall
<1>8. CallsApart' /\ Unanswered' /\ NoSpuriousError'
  BY <1>0, <1>1, Zenon DEF CallsApart, Unanswered, NoSpuriousError
<1>9. Fresh' /\ Behaves'
  BY <1>0, <1>1, <1>2 DEF Fresh, Behaves
<1>10. p = "payload" => N % 2 = 1 /\ toGrout[N].call = call[c] /\ N \in 1..N
  <2>1. SUFFICES ASSUME p = "payload" PROVE N % 2 = 1 /\ toGrout[N].call = call[c] /\ N \in 1..N
    BY Zenon
  <2>2. N % 2 = 1 /\ toGrout[N].call = call[c]
    BY <1>0, <1>1, <1>2, <2>1 DEF Paired, N
  <2> QED
    BY <1>n, <2>2
<1>11. p = "header" => N % 2 = 0 /\ ~Sent(call[c]) /\ ~Logged(call[c])
  <2>1. SUFFICES ASSUME p = "header" PROVE N % 2 = 0 /\ ~Sent(call[c]) /\ ~Logged(call[c])
    BY Zenon
  <2>2. \A d \in Callers : pc[d] # "payload"
    BY <1>2, <1>3, <2>1, Zenon DEF InCall
  <2>3. N % 2 = 0
    BY <1>0, <1>1, <2>2, Zenon DEF Paired, N
  <2> QED
    BY <1>1, <1>2, <2>1, <2>3, Zenon DEF LogOK
<1>12. ~Logged(call[c])
  <2>1. p = "payload" => Sent(call[c])
    BY <1>4, <1>10, ZenonT(60) DEF Sent
  <2> QED
    BY <1>1, <1>2, <1>6, <1>11, <2>1, Zenon DEF LogOK
<1>13. \A k \in Calls : Logged(k)' = Logged(k) /\ (Sent(k)' <=> Sent(k) \/ k = call[c])
  <2>1. \A i \in 1..N : i \in 1..(N + 1)
    BY <1>n
  <2>2. N + 1 \in 1..(N + 1) /\ \A i \in 1..(N + 1) : i \in 1..N \/ i = N + 1
    <3> HIDE DEF N
    <3> QED
      BY <1>n
  <2>3. \A k \in Calls : Sent(k)' <=> Sent(k) \/ k = call[c]
    BY <1>4, <1>5, <2>1, <2>2 DEF Sent
  <2> QED
    BY <1>0, <2>3, Zenon DEF Logged
<1>14. LogOK'
  <2>1. \A d \in Callers : pc'[d] \in {"lock", "header"} =>
          d # c /\ pc'[d] = pc[d] /\ call[d] \in Calls /\ call[d] # call[c]
    <3>1. \A d \in Callers : pc'[d] \in {"lock", "header"} => d # c /\ pc'[d] = pc[d]
      BY <1>2, Zenon
    <3>2. \A d \in Callers : pc[d] \in {"lock", "header"} => call[d] \in Calls
      BY <1>1 DEF CallOK
    <3>3. call[c] # 0
      BY <1>6 DEF Calls
    <3> QED
      BY <1>1, <3>1, <3>2, <3>3 DEF CallsApart
  <2>2. \A d \in Callers : pc'[d] \in {"lock", "header"} => ~Logged(call[d])' /\ ~Sent(call[d])'
    <3> SUFFICES ASSUME NEW d \in Callers, pc'[d] \in {"lock", "header"} PROVE ~Logged(call[d])' /\ ~Sent(call[d])'
      BY Zenon
    <3>1. call'[d] = call[d] /\ call[d] \in Calls /\ call[d] # call[c] /\ ~Logged(call[d]) /\ ~Sent(call[d])
      BY <1>0, <1>1, <2>1, Zenon DEF LogOK
    <3>2. \A k \in Calls : k # call[c] /\ ~Logged(k) /\ ~Sent(k) => /\ \A i \in DOMAIN log' : log'[i] # k
                                                                    /\ \A i \in DOMAIN toGrout' : toGrout'[i].call # k
      BY <1>13, ZenonT(60) DEF Logged, Sent
    <3> QED
      BY <3>1, <3>2 DEF Logged, Sent
  <2>3. \A k \in Calls : Logged(k)' \/ Sent(k)' => status'[k] # "unused"
    BY <1>0, <1>1, <1>6, <1>13 DEF LogOK
  <2>4. \A k \in Calls : ~(Logged(k)' /\ Sent(k)')
    BY <1>1, <1>12, <1>13, ZenonT(60) DEF LogOK
  <2>5. /\ \A i, j \in DOMAIN log' : log'[i] = log'[j] => i = j
        /\ \A k \in Calls : (\E i \in DOMAIN table' : table'[i] = k) <=> Logged(k)' /\ kind'[k] = "add"
    BY <1>0, <1>1, <1>13 DEF LogOK
  <2> QED
    BY <2>2, <2>3, <2>4, <2>5, Zenon DEF LogOK
<1>15. Paired'
  <2>1. \A i \in 1..N : i % 2 = 1 /\ i + 1 \in 1..N => toGrout[i + 1].call = toGrout[i].call
    BY <1>1, <1>4, Zenon DEF Paired
  <2>2. \A i, j \in 1..N : i % 2 = 1 /\ toGrout[i].call = toGrout[j].call => j \in {i, i + 1}
    BY <1>1, <1>4, Zenon DEF Paired
  <2>3. \A d \in Callers : pc'[d] = "payload" => d = c /\ p = "header"
    BY <1>2, <1>3 DEF InCall
  <2>4. CASE p = "header"
    <3>0. N % 2 = 0
      BY <1>11, <2>4
    <3>1. (N + 1) % 2 = 1
      BY <1>n, <3>0
    <3>2. \A i \in 1..N : toGrout[i].call # call[c]
      BY <1>4, <1>11, <2>4 DEF Sent
    <3>3. \A i \in 1..(N + 1) : i % 2 = 1 /\ i + 1 \in 1..(N + 1) => i \in 1..N /\ i + 1 \in 1..N
      BY <1>n, <3>0, SMTT(60)
    <3>4. \A i, j \in 1..(N + 1) : i % 2 = 1 /\ toGrout'[i].call = toGrout'[j].call => j \in {i, i + 1}
      <4>1. \A i \in 1..(N + 1) : i \in 1..N \/ i = N + 1
        BY <1>n
      <4> QED
        BY <1>5, <2>2, <3>2, <4>1
    <3>5. \A i \in 1..(N + 1) : i % 2 = 1 /\ i + 1 \in 1..(N + 1) => toGrout'[i + 1].call = toGrout'[i].call
      BY <1>5, <2>1, <3>3
    <3>6. pc'[c] = "payload"
      BY <1>2, <2>4, Zenon
    <3>7. Len(toGrout') % 2 = 1 /\ toGrout'[Len(toGrout')].call = call'[c]
      BY <1>0, <1>5, <3>1
    <3>8. \A i \in DOMAIN toGrout' : i % 2 = 1 /\ i + 1 \in DOMAIN toGrout' => toGrout'[i + 1].call = toGrout'[i].call
      BY <1>5, <3>5, Zenon
    <3>9. \A i, j \in DOMAIN toGrout' : i % 2 = 1 /\ toGrout'[i].call = toGrout'[j].call => j \in {i, i + 1}
      BY <1>5, <3>4, Zenon
    <3> QED
      BY <2>3, <3>6, <3>7, <3>8, <3>9, Zenon DEF Paired
  <2>5. CASE p = "payload"
    <3>0. N % 2 = 1
      BY <1>10, <2>5
    <3>1. (N + 1) % 2 = 0
      BY <1>n, <3>0
    <3>2. \A i \in 1..N : i % 2 = 1 /\ toGrout[i].call = call[c] => i = N
      <4> SUFFICES ASSUME NEW i \in 1..N, i % 2 = 1, toGrout[i].call = call[c] PROVE i = N
        OBVIOUS
      <4>1. N = i \/ N = i + 1
        BY <1>10, <2>2, <2>5
      <4>2. i + 1 = N => FALSE
        <5>1. ASSUME i + 1 = N PROVE (i + 1) % 2 = 0
          BY SMTT(60)
        <5> QED
          BY <3>0, <5>1
      <4> QED
        BY <4>1, <4>2
    <3>3. \A i, j \in 1..(N + 1) : i % 2 = 1 /\ toGrout'[i].call = toGrout'[j].call => j \in {i, i + 1}
      <4>1. \A i \in 1..(N + 1) : i \in 1..N \/ i = N + 1
        BY <1>n
      <4>2. \A i \in 1..(N + 1) : i % 2 = 1 => i \in 1..N
        BY <1>n, <3>1
      <4> QED
        BY <1>5, <2>2, <3>2, <4>1, <4>2, ZenonT(60)
    <3>4. \A i \in 1..(N + 1) : i % 2 = 1 /\ i + 1 \in 1..(N + 1) => toGrout'[i + 1].call = toGrout'[i].call
      <4> SUFFICES ASSUME NEW i \in 1..(N + 1), i % 2 = 1, i + 1 \in 1..(N + 1)
                   PROVE  toGrout'[i + 1].call = toGrout'[i].call
        BY Zenon
      <4>1. CASE i = N
        BY <1>5, <1>10, <2>5, <4>1, ZenonT(60)
      <4>2. CASE i # N
        <5>1. i \in 1..N /\ i + 1 \in 1..N
          BY <1>n, <4>2
        <5> QED
          BY <1>5, <2>1, <5>1
      <4> QED
        BY <4>1, <4>2
    <3>5. Len(toGrout') % 2 = 0
      BY <1>5, <3>1
    <3>6. \A d \in Callers : pc'[d] # "payload"
      BY <2>3, <2>5
    <3>7. \A i \in DOMAIN toGrout' : i % 2 = 1 /\ i + 1 \in DOMAIN toGrout' => toGrout'[i + 1].call = toGrout'[i].call
      BY <1>5, <3>4, Zenon
    <3>8. \A i, j \in DOMAIN toGrout' : i % 2 = 1 /\ toGrout'[i].call = toGrout'[j].call => j \in {i, i + 1}
      BY <1>5, <3>3, Zenon
    <3> QED
      BY <3>5, <3>6, <3>7, <3>8, Zenon DEF Paired
  <2> QED
    BY <1>2, <2>4, <2>5, Zenon
<1>17. Matched' => \A d \in Callers : pc'[d] \in InCall => WireOK(d)'
  <2>1. SUFFICES ASSUME Matched PROVE WireOK(c)'
    BY <1>0, <1>3, Zenon DEF Matched
  <2>2. WireOK(c)
    BY <1>2, <2>1, Zenon DEF ClientInv
  <2>3. \A i \in DOMAIN toGrout' : (toGrout'[i].id = id'[c]) <=> (toGrout'[i].call = call'[c])
    <3>1. \A i \in 1..(N + 1) : i \in 1..N \/ i = N + 1
      BY <1>n
    <3>2. \A i \in 1..N : (toGrout[i].id = id[c]) <=> (toGrout[i].call = call[c])
      BY <1>0, <1>4, <2>2, Zenon DEF WireOK
    <3> QED
      BY <1>0, <1>5, <3>1, <3>2
  <2>4. items[c] = {} /\ \A i \in DOMAIN toClient : toClient[i].forID # id[c]
    BY <1>2, <2>2, ZenonT(60) DEF WireOK
  <2> QED
    BY <1>0, <2>3, <2>4, Zenon DEF WireOK, Completes
<1>18. Synced' => InStep'
  <2>1. SUFFICES ASSUME Synced, InStep PROVE InStep'
    BY <1>0, Zenon DEF Synced, ClientInv
  <2>2. toClient' = <<>>
    BY <1>0, <1>2, <2>1, ZenonT(60) DEF InStep
  <2>3. \A i \in DOMAIN toGrout' : toGrout'[i].call = call'[c] /\ toGrout'[i].id = id'[c]
    <3>1. \A i \in 1..(N + 1) : i \in 1..N \/ i = N + 1
      BY <1>n, SMTT(60)
    <3>2. \A i \in 1..N : toGrout[i].call = call[c] /\ toGrout[i].id = id[c]
      BY <1>0, <1>2, <1>4, <2>1 DEF InStep
    <3> QED
      BY <1>0, <1>5, <3>1, <3>2, SMTT(60)
  <2> QED
    BY <1>2, <1>3, <2>2, <2>3 DEF InStep
<1> QED
  BY <1>0, <1>1, <1>7, <1>8, <1>9, <1>14, <1>15, <1>17, <1>18, ZenonT(60) DEF ClientInv

\* A call returns: with an error only if grout refused it or misbehaved, and
\* with nothing left on a stream that is in step.
Returns(c, st, a) ==
  /\ pc[c] \in InCall /\ (peer => pc[c] \in {"read", "body"})
  /\ Return(c, st, a)
  /\ UNCHANGED <<id, reqID, peer, toGrout, table, refused, faults>>
  /\ ~garbled => \A j \in DOMAIN toClient' : \E i \in DOMAIN toClient : toClient'[j] = toClient[i]
  /\ faults = 0 /\ st = "error" => call[c] \in refused
  /\ Synced => toClient' = <<>> /\ (peer => toGrout = <<>>)

LEMMA ReturnStep ==
  ASSUME ClientInv, TypeOK', NEW c \in Callers, NEW st \in {"ok", "error"}, NEW a, Returns(c, st, a)
  PROVE  ClientInv'
<1>0. /\ UNCHANGED <<id, reqID, peer, toGrout, table, refused, faults, kind, log, garbled>>
      /\ pc[c] \in InCall /\ (peer => pc[c] \in {"read", "body"})
  BY Zenon DEF Returns, Return
<1>1. /\ TypeOK /\ Fresh /\ Unanswered /\ CallsApart /\ LogOK /\ Paired /\ Behaves /\ NoSpuriousError
      /\ \A d \in Callers : CallOK(d)
      /\ ~garbled => \A j \in DOMAIN toClient : toClient[j].len \in {"zero", "full", "cut"}
  BY Zenon DEF ClientInv
<1>2. /\ mu' = None
      /\ client' = IF client # "hello" THEN client ELSE IF st = "ok" THEN "ready" ELSE "closed"
  BY Zenon DEF Returns, Return
<1>3. /\ call[c] \in Calls /\ call[c] # 0 /\ status[call[c]] = "running" /\ mu = c
      /\ pc[c] # "idle" /\ pc[c] # "lock"
  <2>1. pc[c] \in InCall /\ CallOK(c)
    BY <1>0, <1>1, Zenon
  <2>2. pc[c] # "idle" /\ pc[c] # "lock"
    BY <2>1, Zenon DEF InCall
  <2>3. call[c] \in Calls /\ status[call[c]] = "running" /\ mu = c
    BY <2>1, <2>2, Zenon DEF CallOK
  <2>4. 0 \notin Calls
    BY DEF Calls
  <2> QED
    BY <2>2, <2>3, <2>4, Zenon
<1>4. /\ pc'[c] = "idle" /\ call'[c] = 0 /\ items'[c] = {}
      /\ \A d \in Callers : d # c => pc'[d] = pc[d] /\ call'[d] = call[d] /\ items'[d] = items[d]
  <2>1. /\ pc' = [pc EXCEPT ![c] = "idle"] /\ call' = [call EXCEPT ![c] = 0]
        /\ items' = [items EXCEPT ![c] = {}]
    BY Zenon DEF Returns, Return, Goto
  <2>2. DOMAIN pc = Callers /\ DOMAIN call = Callers /\ DOMAIN items = Callers
    BY <1>1, Zenon DEF TypeOK
  <2> QED
    BY <2>1, <2>2, Zenon
<1>5. /\ status'[call[c]] = st
      /\ \A k \in Calls : k # call[c] => status'[k] = status[k] /\ answer'[k] = answer[k]
  <2>1. status' = [status EXCEPT ![call[c]] = st] /\ answer' = [answer EXCEPT ![call[c]] = a]
    BY DEF Returns, Return
  <2>2. DOMAIN status = Calls /\ DOMAIN answer = Calls
    BY <1>1, Zenon DEF TypeOK
  <2> QED
    BY <1>3, <2>1, <2>2, Zenon
<1>6. /\ \A d \in Callers : pc[d] \in InCall => d = c
      /\ \A d \in Callers : pc'[d] \notin InCall
  BY <1>0, <1>4, OneInCall, ZenonT(60) DEF InCall
<1>7. \A d \in Callers : d # c => call[d] # call[c]
  BY <1>1, <1>3 DEF CallsApart
<1>8. \A d \in Callers : CallOK(d)'
  <2> TAKE d \in Callers
  <2>1. CASE d = c
    BY <1>4, <2>1, Zenon DEF CallOK, InCall
  <2>2. CASE d # c
    <3>1. CallOK(d) /\ pc[d] \notin InCall /\ call[d] # call[c]
      BY <1>1, <1>6, <1>7, <2>2, Zenon
    <3> QED
      BY <1>0, <1>4, <1>5, <2>2, <3>1, Zenon DEF CallOK, InCall
  <2> QED
    BY <2>1, <2>2
<1>9. CallsApart'
  BY <1>1, <1>4, Zenon DEF CallsApart
<1>10. Unanswered'
  BY <1>1, <1>5, Zenon DEF Unanswered
<1>11. NoSpuriousError'
  <2>1. faults = 0 /\ st = "error" => call[c] \in refused
    BY Zenon DEF Returns
  <2> QED
    BY <1>0, <1>1, <1>3, <1>5, <2>1, Zenon DEF NoSpuriousError
<1>12. Fresh'
  BY <1>1, <1>2, <1>3, Zenon DEF Fresh
<1>13. ~garbled => \A j \in DOMAIN toClient' : \E i \in DOMAIN toClient : toClient'[j] = toClient[i]
  BY Zenon DEF Returns
<1>14. Behaves'
  <2>1. SUFFICES ASSUME faults = 0
                 PROVE  /\ ~garbled' /\ (\A d \in Callers : pc'[d] # "idle" => peer') /\ (client' = "ready" => peer')
                        /\ \A j \in DOMAIN toClient' : toClient'[j].len \in {"zero", "full"}
    BY <1>0, Zenon DEF Behaves
  <2>2. ~garbled /\ peer /\ \A j \in DOMAIN toClient : toClient[j].len \in {"zero", "full"}
    BY <1>1, <1>3, <2>1 DEF Behaves
  <2> QED
    BY <1>0, <1>13, <2>2, Zenon
<1>15. LogOK'
  <2>1. \A k \in Calls : Logged(k)' = Logged(k) /\ Sent(k)' = Sent(k)
    BY <1>0, Zenon DEF Logged, Sent
  <2>2. \A d \in Callers : pc'[d] \in {"lock", "header"} => ~Logged(call[d])' /\ ~Sent(call[d])'
    <3> SUFFICES ASSUME NEW d \in Callers, pc'[d] \in {"lock", "header"} PROVE ~Logged(call[d])' /\ ~Sent(call[d])'
      BY Zenon
    <3>1. call'[d] = call[d] /\ ~Logged(call[d]) /\ ~Sent(call[d])
      BY <1>1, <1>4, ZenonT(60) DEF LogOK
    <3> QED
      BY <1>0, <3>1, Zenon DEF Logged, Sent
  <2>3. \A k \in Calls : Logged(k)' \/ Sent(k)' => status'[k] # "unused"
    <3>1. \A k \in Calls : Logged(k) \/ Sent(k) => status[k] # "unused"
      BY <1>1, Zenon DEF LogOK
    <3> QED
      BY <1>5, <2>1, <3>1
  <2>4. \A k \in Calls : ~(Logged(k)' /\ Sent(k)')
    BY <1>1, <2>1, Zenon DEF LogOK
  <2>5. /\ \A i, j \in DOMAIN log' : log'[i] = log'[j] => i = j
        /\ \A k \in Calls : (\E i \in DOMAIN table' : table'[i] = k) <=> Logged(k)' /\ kind'[k] = "add"
    BY <1>0, <1>1, <2>1, ZenonT(60) DEF LogOK
  <2> QED
    BY <2>2, <2>3, <2>4, <2>5, Zenon DEF LogOK
<1>16. Paired'
  <2>1. /\ \A d \in Callers : pc'[d] # "payload"
        /\ peer => \A d \in Callers : pc[d] # "payload"
    BY <1>0, <1>6 DEF InCall
  <2> QED
    BY <1>0, <1>1, <2>1, Zenon DEF Paired
<1>18. ~garbled' => \A j \in DOMAIN toClient' : toClient'[j].len \in {"zero", "full", "cut"}
  BY <1>0, <1>1, <1>13
<1>19. Synced' => InStep'
  <2>1. Synced => toClient' = <<>> /\ (peer => toGrout = <<>>)
    BY Zenon DEF Returns
  <2> QED
    BY <1>0, <1>6, <2>1, Zenon DEF Synced, InStep
<1> QED
  BY <1>6, <1>8, <1>9, <1>10, <1>11, <1>12, <1>14, <1>15, <1>16, <1>18, <1>19, ZenonT(60) DEF ClientInv

\* A call fails to write, and returns.
LEMMA WriteFails ==
  ASSUME ClientInv, TypeOK', NEW c \in Callers, pc[c] \in {"header", "payload"}, ~peer, Return(c, "error", {}),
         UNCHANGED <<toGrout, id, reqID, peer, toClient, table, refused, faults>>
  PROVE  ClientInv'
<1>1. pc[c] \in InCall /\ pc[c] # "idle"
  BY Zenon DEF InCall
<1>2. faults # 0
  BY <1>1 DEF ClientInv, Behaves
<1>3. Synced => toClient = <<>>
  BY <1>1, Zenon DEF ClientInv, InStep
<1>4. \A j \in DOMAIN toClient' : \E i \in DOMAIN toClient : toClient'[j] = toClient[i]
  BY Zenon
<1>5. Returns(c, "error", {})
  BY <1>1, <1>2, <1>3, <1>4 DEF Returns
<1> QED
  BY <1>5, ReturnStep

\* A call finds the end of the stream, and returns.
LEMMA EOFStep ==
  ASSUME ClientInv, TypeOK', NEW c \in Callers, ReadEOF(c)
  PROVE  ClientInv'
<1>1. /\ pc[c] \in {"read", "body"} /\ toClient = <<>> /\ ~peer /\ Return(c, "error", {})
      /\ UNCHANGED <<toGrout, id, reqID, peer, toClient, table, refused, faults>>
  BY Zenon DEF ReadEOF, wire
<1>2. faults # 0
  BY <1>1 DEF ClientInv, Behaves
<1>3. pc[c] \in InCall
  BY <1>1 DEF InCall
<1>4. \A j \in DOMAIN toClient' : \E i \in DOMAIN toClient : toClient'[j] = toClient[i]
  BY <1>1, Zenon
<1>5. Returns(c, "error", {})
  BY <1>1, <1>2, <1>3, <1>4, Zenon DEF Returns
<1> QED
  BY <1>5, ReturnStep, Zenon

\* Goroutine c takes the head of the stream for the reply f.
Reads(c, f) ==
  /\ pc[c] = "read" /\ toClient # <<>>
  /\ f \in TakenFor(Head(toClient))
  /\ toClient' = IF Head(toClient) = Junk THEN toClient ELSE Tail(toClient)

\* While the framing is intact, that is the reply at the head.
LEMMA HeadFacts ==
  ASSUME ClientInv, NEW c \in Callers, NEW f, Reads(c, f)
  PROVE  /\ f \in Replies /\ toClient \in Seq(Replies) /\ Len(toClient) \in Nat /\ Len(toClient) >= 1
         /\ toClient[1] = Head(toClient) /\ 1 \in DOMAIN toClient
         /\ \A j \in DOMAIN toClient' : \E i \in DOMAIN toClient : toClient'[j] = toClient[i]
         /\ ~garbled => f = Head(toClient) /\ toClient' = Tail(toClient)
<1>1. toClient \in Seq(Replies) /\ toClient # <<>>
  BY DEF ClientInv, TypeOK, Reads
<1>2. /\ Len(toClient) \in Nat /\ Len(toClient) >= 1 /\ DOMAIN toClient = 1..Len(toClient)
      /\ Head(toClient) \in Replies /\ toClient[1] = Head(toClient) /\ 1 \in DOMAIN toClient
  BY <1>1, SMTT(60)
<1>3. f \in Replies /\ (Head(toClient) # Junk => f = Head(toClient))
  BY <1>2, TakenForType, Zenon DEF Reads
<1>4. \A j \in DOMAIN toClient' : \E i \in DOMAIN toClient : toClient'[j] = toClient[i]
  <2>1. CASE toClient' = toClient
    BY <2>1
  <2>2. CASE toClient' = Tail(toClient)
    <3>1. DOMAIN toClient' = 1..(Len(toClient) - 1) /\ \A j \in 1..(Len(toClient) - 1) : toClient'[j] = toClient[j + 1]
      BY <1>1, <1>2, <2>2
    <3>2. \A j \in 1..(Len(toClient) - 1) : j + 1 \in DOMAIN toClient
      BY <1>2
    <3> QED
      BY <3>1, <3>2
  <2> QED
    BY <2>1, <2>2 DEF Reads
<1>5. ~garbled => Head(toClient) # Junk
  <2>1. ~garbled => toClient[1].len \in {"zero", "full", "cut"}
    BY <1>2, Zenon DEF ClientInv
  <2> QED
    BY <1>2, <2>1, JunkType
<1>6. Head(toClient) # Junk => toClient' = Tail(toClient)
  BY Zenon DEF Reads
<1> QED
  BY <1>1, <1>2, <1>3, <1>4, <1>5, <1>6, ZenonT(60)

\* On a stream that is in step, the reply that ends a call is the last one.
LEMMA LastReply ==
  ASSUME ClientInv, NEW c \in Callers, NEW f, Reads(c, f), ~Accepts(c, f) \/ EndsCall(c, f)
  PROVE  /\ Synced => toClient' = <<>> /\ (peer => toGrout = <<>>)
         /\ faults = 0 /\ ~Accepts(c, f) => call[c] \in refused
<1>0. pc[c] = "read" /\ toClient # <<>> /\ pc[c] \in InCall
  BY Zenon DEF Reads, InCall
<1>1. /\ f \in Replies /\ toClient \in Seq(Replies)
      /\ toClient[1] = Head(toClient) /\ 1 \in DOMAIN toClient
      /\ ~garbled => f = Head(toClient) /\ toClient' = Tail(toClient)
  BY HeadFacts
<1>2. ASSUME Synced PROVE toClient' = <<>> /\ (peer => toGrout = <<>>)
  <2>0. InStep /\ ~garbled
    BY <1>2 DEF ClientInv, Synced
  <2>1. f = toClient[1] /\ toClient' = Tail(toClient)
    BY <1>1, <2>0, Zenon
  <2>2. 1 = Len(toClient)
    BY <1>0, <1>1, <2>0, <2>1, ZenonT(60) DEF InStep
  <2>3. peer => toGrout = <<>>
    BY <1>0, <2>0 DEF InStep
  <2>4. toClient' = <<>>
    BY <1>1, <2>1, <2>2
  <2> QED
    BY <2>3, <2>4, Zenon
<1>3. ASSUME faults = 0, ~Accepts(c, f) PROVE call[c] \in refused
  <2>1. Synced /\ InStep /\ toClient[1].len \in {"zero", "full"}
    BY <1>1, <1>3, Zenon DEF ClientInv, Behaves, Synced
  <2>2. f = toClient[1]
    BY <1>1, <2>1, Zenon DEF Synced
  <2>3. f.forID = id[c] /\ (f.status = 1 => call[c] \in refused)
    BY <1>0, <1>1, <2>1, <2>2 DEF InStep
  <2>4. f.status \in {0, 1}
    BY <1>1, ZenonT(60) DEF Replies
  <2> QED
    BY <1>3, <2>1, <2>2, <2>3, <2>4, Zenon DEF Accepts
<1> QED
  BY <1>2, <1>3

\* An entry of a list: the call keeps it and reads on.
ReadsOn(c, f) ==
  /\ Reads(c, f) /\ Accepts(c, f) /\ ~EndsCall(c, f)
  /\ items' = [items EXCEPT ![c] = items[c] \union f.body]
  /\ UNCHANGED <<kind, status, answer, log, garbled, pc, call, mu, client, id, reqID, peer, toGrout,
                 table, refused, faults>>

LEMMA ReadOnStep ==
  ASSUME ClientInv, TypeOK', NEW c \in Callers, NEW f, ReadsOn(c, f), ~garbled
  PROVE  ClientInv'
<1> DEFINE N == Len(toClient)
<1>0. UNCHANGED <<kind, status, answer, log, garbled, pc, call, mu, client, id, reqID, peer, toGrout,
                  table, refused, faults>>
  BY Zenon DEF ReadsOn
<1>1. /\ TypeOK /\ Fresh /\ Unanswered /\ CallsApart /\ LogOK /\ Paired /\ Behaves /\ NoSpuriousError
      /\ \A d \in Callers : CallOK(d)
      /\ ~garbled => \A j \in DOMAIN toClient : toClient[j].len \in {"zero", "full", "cut"}
  BY DEF ClientInv
<1>2. /\ f = Head(toClient) /\ toClient' = Tail(toClient) /\ f = toClient[1] /\ 1 \in DOMAIN toClient
      /\ toClient \in Seq(Replies) /\ N \in Nat /\ N >= 1
      /\ \A j \in DOMAIN toClient' : \E i \in DOMAIN toClient : toClient'[j] = toClient[i]
  <2>1. Reads(c, f) /\ ~garbled
    BY Zenon DEF ReadsOn
  <2>2. /\ toClient \in Seq(Replies) /\ N \in Nat /\ N >= 1
        /\ toClient[1] = Head(toClient) /\ 1 \in DOMAIN toClient
        /\ \A j \in DOMAIN toClient' : \E i \in DOMAIN toClient : toClient'[j] = toClient[i]
        /\ f = Head(toClient) /\ toClient' = Tail(toClient)
    BY <2>1, HeadFacts
  <2> QED
    BY <2>2, Zenon
<1>n. N \in Nat /\ N >= 1
  BY <1>2
<1>3. DOMAIN toClient = 1..N /\ DOMAIN toClient' = 1..(N - 1) /\ Len(toClient') = N - 1
  <2>1. toClient \in Seq(Replies) /\ toClient # <<>> /\ toClient' = Tail(toClient)
    BY <1>2
  <2> QED
    BY <2>1
<1>4. \A j \in 1..(N - 1) : toClient'[j] = toClient[j + 1]
  <2>1. toClient \in Seq(Replies) /\ toClient # <<>> /\ toClient' = Tail(toClient)
    BY <1>2
  <2> QED
    BY <2>1
<1>5. /\ kind[call[c]] = "list" /\ f.forID = id[c]
      /\ items'[c] = items[c] \union f.body /\ \A d \in Callers : d # c => items'[d] = items[d]
  BY <1>1, Zenon DEF ReadsOn, Accepts, EndsCall, TypeOK
<1>6. pc[c] = "read" /\ pc[c] \in InCall /\ \A d \in Callers : pc[d] \in InCall => d = c
  BY OneInCall, Zenon DEF ReadsOn, Reads, InCall
<1> HIDE DEF N
<1>7. \A d \in Callers : CallOK(d)'
  <2> TAKE d \in Callers
  <2>1. CASE d = c
    BY <1>0, <1>1, <1>5, <1>6, <2>1, Zenon DEF CallOK
  <2>2. CASE d # c
    BY <1>0, <1>1, <1>5, <2>2, Zenon DEF CallOK
  <2> QED
    BY <2>1, <2>2
<1>8. CallsApart' /\ Unanswered' /\ NoSpuriousError'
  BY <1>0, <1>1, ZenonT(60) DEF CallsApart, Unanswered, NoSpuriousError
<1>9. Paired'
  BY <1>0, <1>1, ZenonT(60) DEF Paired
<1>10. LogOK'
  <2>1. UNCHANGED <<kind, status, log, pc, call, toGrout, table>>
    BY <1>0
  <2> QED
    BY <1>1, <2>1, SameLog, Zenon
<1>11. Fresh'
  BY <1>0, <1>1, <1>6, ZenonT(60) DEF Fresh
<1>12. Behaves'
  BY <1>0, <1>1, <1>2 DEF Behaves
<1>14. ~garbled' => \A j \in DOMAIN toClient' : toClient'[j].len \in {"zero", "full", "cut"}
  BY <1>0, <1>1, <1>2, Zenon
<1>15. \A j \in 1..(N - 1) : j + 1 \in 1..N /\ (j + 1 = N => j = N - 1) /\ j \in Nat
  BY <1>n
<1>16. Synced' => InStep'
  <2>1. SUFFICES ASSUME Synced, InStep PROVE InStep'
    BY <1>0, Zenon DEF Synced, ClientInv
  <2>2. peer => toGrout = <<>>
    BY <1>2, <1>6, <2>1, SMTT(60) DEF InStep
  <2>3. \A j \in DOMAIN toClient' :
          /\ toClient'[j].forID = id'[c]
          /\ ~Accepts(c, toClient[j])' \/ EndsCall(c, toClient[j])' => j = Len(toClient')
          /\ toClient'[j].status = 1 => call'[c] \in refused'
    <3>1. \A j \in 1..N : /\ toClient[j].forID = id[c]
                          /\ ~Accepts(c, toClient[j]) \/ EndsCall(c, toClient[j]) => j = N
                          /\ toClient[j].status = 1 => call[c] \in refused
      BY <1>3, <1>6, <2>1, Zenon DEF InStep, N
    <3> SUFFICES ASSUME NEW j \in 1..(N - 1)
                 PROVE  /\ toClient'[j].forID = id'[c]
                        /\ ~Accepts(c, toClient[j])' \/ EndsCall(c, toClient[j])' => j = N - 1
                        /\ toClient'[j].status = 1 => call'[c] \in refused'
      BY <1>3, Zenon
    <3>2. j + 1 \in 1..N /\ toClient'[j] = toClient[j + 1] /\ (j + 1 = N => j = N - 1)
      BY <1>4, <1>15, Zenon
    <3> QED
      BY <1>0, <3>1, <3>2 DEF Accepts, EndsCall
  <2>4. pc'[c] \notin {"header", "payload"} /\ (peer' => toGrout' = <<>>)
    BY <1>0, <1>6, <2>2, Zenon
  <2>5. \A d \in Callers : pc'[d] \in InCall => d = c
    BY <1>0, <1>6
  <2>6. pc'[c] \in InCall
    BY <1>0, <1>6
  <2>7. peer' => \A i \in DOMAIN toGrout' : FALSE
    BY <2>4
  <2> QED
    BY <2>3, <2>4, <2>5, <2>6, <2>7, Zenon DEF InStep
<1>17. Matched' => \A d \in Callers : pc'[d] \in InCall => WireOK(d)'
  <2>1. SUFFICES ASSUME Matched PROVE WireOK(c)'
    BY <1>0, <1>6, ZenonT(60) DEF Matched
  <2>2. WireOK(c)
    BY <1>6, <2>1 DEF ClientInv
  <2>3. ~(peer /\ Sent(call[c]))
    BY <1>2, <1>5, <2>2, Zenon DEF WireOK
  <2>4. ASSUME NEW j \in 1..(N - 1), Completes(c, toClient[j])'
        PROVE  \E i \in DOMAIN log : log[i] = call[c] /\ \A x \in Calls : Has(c, j, x)' <=> x \in Product(call[c], i)
    <3>1. j + 1 \in DOMAIN toClient /\ toClient'[j] = toClient[j + 1]
      BY <1>3, <1>4, <1>15
    <3>n. j \in Nat
      BY <1>15, ZenonT(60)
    <3>2. Completes(c, toClient[j + 1])
      BY <1>0, <2>4, <3>1, ZenonT(60) DEF Completes, Accepts, EndsCall
    <3>3. PICK i \in DOMAIN log :
            log[i] = call[c] /\ \A x \in Calls : Has(c, j + 1, x) <=> x \in Product(call[c], i)
      BY <2>2, <3>1, <3>2, Zenon DEF WireOK
    <3>4. \A x \in Calls : Has(c, j, x)' <=> Has(c, j + 1, x)
      <4> SUFFICES ASSUME NEW x \in Calls PROVE Has(c, j, x)' <=> Has(c, j + 1, x)
        BY Zenon
      <4>1. Has(c, j, x)' <=> \/ x \in items[c] \/ x \in f.body
                              \/ \E i1 \in 1..j : toClient[i1 + 1].forID = id[c] /\ x \in toClient[i1 + 1].body
        <5>1. \A i1 \in 1..j : i1 \in 1..(N - 1)
          BY <1>n
        <5>2. \A i1 \in 1..j : toClient'[i1] = toClient[i1 + 1]
          BY <1>4, <5>1
        <5> QED
          BY <1>0, <1>5, <5>2, Zenon DEF Has
      <4>2. (\E i1 \in 1..(j + 1) : toClient[i1].forID = id[c] /\ x \in toClient[i1].body)
              <=> \/ x \in f.body
                  \/ \E i1 \in 1..j : toClient[i1 + 1].forID = id[c] /\ x \in toClient[i1 + 1].body
        <5>1. \A i1 \in 1..(j + 1) : i1 = 1 \/ (i1 - 1 \in 1..j /\ (i1 - 1) + 1 = i1)
          BY <3>n
        <5>2. 1 \in 1..(j + 1) /\ \A i1 \in 1..j : i1 + 1 \in 1..(j + 1)
          BY <3>n
        <5>3. toClient[1].forID = id[c] /\ toClient[1].body = f.body
          BY <1>2, <1>5
        <5> QED
          BY <5>1, <5>2, <5>3, Zenon
      <4> QED
        BY <4>1, <4>2, Zenon DEF Has
    <3> QED
      BY <3>3, <3>4, Zenon
  <2>5. \A i \in DOMAIN log : Product(call[c], i)' = Product(call[c], i)
    BY <1>0 DEF Product, R!Produces, R!Table
  <2>6. \A j \in DOMAIN toClient' : Completes(c, toClient[j])' =>
          \E i \in DOMAIN log' : log'[i] = call'[c] /\ \A x \in Calls : Has(c, j, x)' <=> x \in Product(call[c], i)'
    <3>1. SUFFICES ASSUME NEW j \in 1..(N - 1), Completes(c, toClient[j])'
                   PROVE  \E i \in DOMAIN log' : /\ log'[i] = call'[c]
                                                 /\ \A x \in Calls : Has(c, j, x)' <=> x \in Product(call[c], i)'
      BY <1>3, Zenon
    <3>2. PICK i \in DOMAIN log : log[i] = call[c] /\ \A x \in Calls : Has(c, j, x)' <=> x \in Product(call[c], i)
      BY <2>4, <3>1, Zenon
    <3>3. Product(call[c], i)' = Product(call[c], i)
      BY <2>5, ZenonT(60)
    <3> QED
      BY <1>0, <3>2, <3>3, Zenon
  <2>7. ~(peer' /\ Sent(call[c])') /\ pc'[c] \notin {"header", "payload"}
    BY <1>0, <1>6, <2>3 DEF Sent
  <2>8. peer' => \A i \in DOMAIN toGrout' : (toGrout'[i].id = id'[c]) <=> (toGrout'[i].call = call'[c])
    BY <1>0, <2>2, Zenon DEF WireOK
  <2> QED
    BY <2>6, <2>7, <2>8, Zenon DEF WireOK
<1> QED
  BY <1>7, <1>8, <1>9, <1>10, <1>11, <1>12, <1>14, <1>16, <1>17, ZenonT(60) DEF ClientInv

\* Once replies cannot be told apart, a call that stays in readResponse, or reads on,
\* has nothing to keep but its place and its lock.
Lingers(c, n) ==
  /\ pc[c] \in {"read", "body"} /\ n \in {"read", "body"} /\ garbled
  /\ pc' = [pc EXCEPT ![c] = n]
  /\ \A d \in Callers : d # c \/ kind[call[d]] # "list" => items'[d] = items[d]
  /\ UNCHANGED <<kind, status, answer, log, garbled, call, mu, client, id, reqID, peer, toGrout,
                 table, refused, faults>>

LEMMA LingerStep ==
  ASSUME ClientInv, TypeOK', NEW c \in Callers, NEW n, Lingers(c, n)
  PROVE  ClientInv'
<1>0. /\ garbled
      /\ UNCHANGED <<kind, status, answer, log, garbled, call, mu, client, id, reqID, peer, toGrout,
                     table, refused, faults>>
  BY Zenon DEF Lingers
<1>1. /\ TypeOK /\ Fresh /\ Unanswered /\ CallsApart /\ LogOK /\ Paired /\ Behaves /\ NoSpuriousError
      /\ \A d \in Callers : CallOK(d)
  BY Zenon DEF ClientInv
<1>2. /\ pc[c] \in {"read", "body"} /\ pc'[c] \in {"read", "body"}
      /\ \A d \in Callers : d # c => pc'[d] = pc[d]
  BY <1>1, Zenon DEF Lingers, TypeOK
<1>3. \A d \in Callers : d # c \/ kind[call[d]] # "list" => items'[d] = items[d]
  BY Zenon DEF Lingers
<1>4. \A d \in Callers : CallOK(d)'
  <2> TAKE d \in Callers
  <2>1. CASE d = c
    <3>1. /\ call[c] \in Calls /\ status[call[c]] = "running" /\ mu = c /\ id[c] = reqID
          /\ kind[call[c]] # "list" => items[c] = {}
      BY <1>1, <1>2, Zenon DEF CallOK, InCall
    <3> QED
      BY <1>0, <1>2, <1>3, <2>1, <3>1, Zenon DEF CallOK, InCall
  <2>2. CASE d # c
    <3>1. CallOK(d) /\ pc'[d] = pc[d] /\ items'[d] = items[d]
      BY <1>1, <1>2, <1>3, <2>2, Zenon
    <3> QED
      BY <1>0, <3>1, Zenon DEF CallOK
  <2> QED
    BY <2>1, <2>2
<1>5. CallsApart' /\ Unanswered' /\ NoSpuriousError'
  BY <1>0, <1>1, Zenon DEF CallsApart, Unanswered, NoSpuriousError
<1>6. Fresh' /\ Behaves'
  <2>1. faults # 0 /\ client # "none"
    BY <1>0, <1>1, <1>2, Zenon DEF Behaves, Fresh
  <2> QED
    BY <1>0, <2>1, Zenon DEF Behaves, Fresh
<1>7. \A d \in Callers : /\ pc'[d] = "payload" <=> pc[d] = "payload"
                         /\ pc'[d] \in {"lock", "header"} <=> pc[d] \in {"lock", "header"}
  BY <1>2, Zenon
<1>8. Paired'
  BY <1>0, <1>1, <1>7, Zenon DEF Paired
<1>9. LogOK'
  <2>1. \A x : Logged(x)' = Logged(x) /\ Sent(x)' = Sent(x)
    BY <1>0, Zenon DEF Logged, Sent
  <2>2. \A d \in Callers : pc'[d] \in {"lock", "header"} => ~Logged(call[d])' /\ ~Sent(call[d])'
    <3> SUFFICES ASSUME NEW d \in Callers, pc'[d] \in {"lock", "header"} PROVE ~Logged(call[d])' /\ ~Sent(call[d])'
      BY Zenon
    <3>1. call'[d] = call[d] /\ ~Logged(call[d]) /\ ~Sent(call[d])
      BY <1>0, <1>1, <1>7, Zenon DEF LogOK
    <3> QED
      BY <1>0, <3>1, Zenon DEF Logged, Sent
  <2> QED
    BY <1>0, <1>1, <2>1, <2>2, Zenon DEF LogOK
<1> QED
  BY <1>0, <1>4, <1>5, <1>6, <1>8, <1>9, Zenon DEF ClientInv, Synced, Matched

\* A call in a payload that is too short for its header has lost the framing.
LEMMA BodyGarbled ==
  ASSUME ClientInv, NEW c \in Callers, pc[c] = "body"
  PROVE  garbled /\ faults # 0 /\ ~Synced
BY Zenon DEF ClientInv, CallOK, Behaves, Synced

\* What readResponse delivers ends the call, adds to a list, or is an error.
LEMMA ReadStep ==
  ASSUME ClientInv, TypeOK', NEW c \in Callers, Read(c)
  PROVE  ClientInv'
<1>1. PICK f \in TakenFor(Head(toClient)) : Take(c, f)
  BY Zenon DEF Read
<1>2. /\ pc[c] = "read" /\ toClient # <<>> /\ pc[c] \in InCall
      /\ UNCHANGED <<id, reqID, peer, toGrout, table, refused, faults>>
  BY Zenon DEF Read, InCall
<1>3. Reads(c, f)
  BY <1>1, <1>2, Zenon DEF Read, Reads
<1>4. \A j \in DOMAIN toClient' : \E i \in DOMAIN toClient : toClient'[j] = toClient[i]
  BY <1>3, HeadFacts, Zenon
<1>5. CASE Accepts(c, f) /\ EndsCall(c, f) /\ Return(c, "ok", items[c] \union f.body)
  <2>1. Synced => toClient' = <<>> /\ (peer => toGrout = <<>>)
    BY <1>3, <1>5, LastReply
  <2>2. Returns(c, "ok", items[c] \union f.body)
    BY <1>2, <1>4, <1>5, <2>1, Zenon DEF Returns
  <2> QED
    BY <2>2, ReturnStep, ZenonT(60)
<1>6. CASE ~Accepts(c, f) /\ Return(c, "error", {})
  <2>1. /\ Synced => toClient' = <<>> /\ (peer => toGrout = <<>>)
        /\ faults = 0 => call[c] \in refused
    BY <1>3, <1>6, LastReply
  <2>2. Returns(c, "error", {})
    BY <1>2, <1>4, <1>6, <2>1, Zenon DEF Returns
  <2> QED
    BY <2>2, ReturnStep, Zenon
<1>7. CASE /\ Accepts(c, f) /\ ~EndsCall(c, f)
           /\ items' = [items EXCEPT ![c] = items[c] \union f.body]
           /\ Goto(c, "read")
           /\ UNCHANGED <<callVars, log, garbled, call, mu, client>>
  <2>1. /\ UNCHANGED <<kind, status, answer, log, garbled, call, mu, client, id, reqID, peer, toGrout,
                       table, refused, faults>>
        /\ pc' = [pc EXCEPT ![c] = "read"] /\ kind[call[c]] = "list"
    BY <1>2, <1>7, Zenon DEF callVars, Goto, EndsCall
  <2>2. pc \in [Callers -> {"idle", "lock", "header", "payload", "read", "body"}] /\ DOMAIN items = Callers
    BY Zenon DEF ClientInv, TypeOK
  <2>3. CASE garbled
    <3>1. \A d \in Callers : d # c \/ kind[call[d]] # "list" => items'[d] = items[d]
      BY <1>7, <2>1, <2>2, Zenon
    <3>2. Lingers(c, "read")
      BY <1>2, <2>1, <2>3, <3>1, Zenon DEF Lingers
    <3> QED
      BY <3>2, LingerStep, Zenon
  <2>4. CASE ~garbled
    <3>1. pc' = pc
      BY <1>2, <2>1, <2>2, Zenon
    <3>2. ReadsOn(c, f)
      BY <1>3, <1>7, <2>1, <3>1, Zenon DEF ReadsOn
    <3> QED
      BY <2>4, <3>2, ReadOnStep, Zenon
  <2> QED
    BY <2>3, <2>4
<1> QED
  BY <1>1, <1>5, <1>6, <1>7, Zenon DEF Take

\* Junk is too short for the payload that it seems to announce.
LEMMA ReadShortStep ==
  ASSUME ClientInv, TypeOK', NEW c \in Callers, ReadShort(c)
  PROVE  ClientInv'
<1>1. garbled /\ pc[c] \in {"read", "body"}
  <2>1. CASE pc[c] = "body"
    BY <2>1, BodyGarbled, Zenon
  <2>2. CASE pc[c] = "read" /\ Head(toClient) = Junk
    <3>1. toClient \in Seq(Replies) /\ toClient # <<>>
      BY DEF ClientInv, TypeOK, ReadShort
    <3>2. 1 \in DOMAIN toClient /\ toClient[1] = Junk
      BY <2>2, <3>1
    <3> QED
      BY <2>2, <3>2, JunkType, Zenon DEF ClientInv
  <2> QED
    BY <2>1, <2>2, Zenon DEF ReadShort
<1>2. Lingers(c, "body")
  BY <1>1, Zenon DEF ReadShort, Goto, Lingers, callVars
<1> QED
  BY <1>2, LingerStep, Zenon

\* The bytes of other replies fill it up.
LEMMA ReadRestStep ==
  ASSUME ClientInv, TypeOK', NEW c \in Callers, ReadRest(c)
  PROVE  ClientInv'
<1>1. PICK f : Take(c, f)
  BY Zenon DEF ReadRest
<1>2. /\ pc[c] = "body" /\ pc[c] \in InCall
      /\ UNCHANGED <<id, reqID, peer, toGrout, table, refused, faults>>
  BY Zenon DEF ReadRest, InCall
<1>3. garbled /\ faults # 0 /\ ~Synced
  BY <1>2, BodyGarbled, Zenon
<1>4. ASSUME NEW st \in {"ok", "error"}, NEW a, Return(c, st, a) PROVE ClientInv'
  <2>1. Returns(c, st, a)
    BY <1>2, <1>3, <1>4, Zenon DEF Returns
  <2> QED
    BY <2>1, ReturnStep, Zenon
<1>5. CASE /\ ~EndsCall(c, f)
           /\ items' = [items EXCEPT ![c] = items[c] \union f.body]
           /\ Goto(c, "read")
           /\ UNCHANGED <<callVars, log, garbled, call, mu, client>>
  <2>1. DOMAIN items = Callers /\ kind[call[c]] = "list"
    BY <1>5, Zenon DEF ClientInv, TypeOK, EndsCall
  <2>2. \A d \in Callers : d # c \/ kind[call[d]] # "list" => items'[d] = items[d]
    BY <1>5, <2>1, Zenon
  <2>3. Lingers(c, "read")
    BY <1>2, <1>3, <1>5, <2>2, Zenon DEF Lingers, Goto, callVars
  <2> QED
    BY <2>3, LingerStep, Zenon
<1> QED
  BY <1>1, <1>4, <1>5, Zenon DEF Take

\* Steps that only close the client, and the end of the connection.
LEMMA CloseStep ==
  ASSUME ClientInv, TypeOK', client' = "closed",
         UNCHANGED <<callVars, log, garbled, pc, call, id, items, mu, reqID, wire, table, refused, faults>>
  PROVE  ClientInv'
<1>0. /\ TypeOK /\ Fresh /\ Unanswered /\ CallsApart /\ LogOK /\ Paired /\ Behaves /\ NoSpuriousError
      /\ \A d \in Callers : CallOK(d)
      /\ ~garbled => \A j \in DOMAIN toClient : toClient[j].len \in {"zero", "full", "cut"}
      /\ Synced => InStep
      /\ Matched => \A d \in Callers : pc[d] \in InCall => WireOK(d)
  BY Zenon DEF ClientInv
<1>1. /\ client' = "closed"
      /\ UNCHANGED <<kind, status, answer, log, garbled, pc, call, id, items, mu, reqID, peer, toGrout, toClient,
                     table, refused, faults>>
  BY ZenonT(60) DEF callVars, wire
<1>2. /\ \A d \in Callers : CallOK(d)'
      /\ CallsApart' /\ Unanswered' /\ NoSpuriousError' /\ Paired'
  <2>1. \A d \in Callers : CallOK(d)'
    <3>1. /\ pc' = pc /\ call' = call /\ status' = status /\ mu' = mu /\ id' = id /\ reqID' = reqID
          /\ kind' = kind /\ items' = items /\ garbled' = garbled
      BY <1>1, Zenon
    <3>2. ASSUME NEW d \in Callers
          PROVE  CallOK(d)'
      <4>1. CallOK(d)
        BY <1>0, Zenon
      <4> QED
        BY <3>1, <4>1, SMTT(30) DEF CallOK
    <3> QED
      BY <3>2, Zenon
  <2>2. CallsApart' /\ Unanswered' /\ NoSpuriousError'
    BY <1>0, <1>1, Zenon DEF CallsApart, Unanswered, NoSpuriousError
  <2>3. Paired'
    BY <1>0, <1>1, Zenon DEF Paired
  <2> QED
    BY <2>1, <2>2, <2>3, ZenonT(60)
<1>3. Fresh' /\ Behaves'
  <2>1. Fresh'
    BY <1>0, <1>1, Zenon DEF Fresh
  <2>2. Behaves'
    <3>1. /\ faults' = faults /\ garbled' = garbled /\ pc' = pc /\ peer' = peer /\ toClient' = toClient
          /\ client' = "closed"
      BY <1>1, Zenon
    <3>2. Behaves
      BY <1>0, Zenon
    <3> QED
      BY <3>1, <3>2 DEF Behaves
  <2> QED
    BY <2>1, <2>2, Zenon
<1>4. LogOK'
  <2>1. UNCHANGED <<kind, status, log, pc, call, toGrout, table>>
    BY <1>1, Zenon
  <2> QED
    BY <1>0, <2>1, SameLog, Zenon
<1>5. ~garbled' => \A j \in DOMAIN toClient' : toClient'[j].len \in {"zero", "full", "cut"}
  <2>1. garbled' = garbled /\ toClient' = toClient
    BY <1>1, Zenon
  <2>2. ~garbled => \A j \in DOMAIN toClient : toClient[j].len \in {"zero", "full", "cut"}
    BY <1>0, Zenon
  <2> QED
    BY <2>1, <2>2
<1>6. Synced' => InStep'
  <2>1. Synced' = Synced
    BY <1>1, SMTT(60) DEF Synced
  <2>2. InStep => InStep'
    BY <1>1, SMTT(60) DEF InStep, Accepts, EndsCall
  <2> QED
    BY <1>0, <2>1, <2>2, ZenonT(60)
<1>7. Matched' => \A d \in Callers : pc'[d] \in InCall => WireOK(d)'
  <2>1. \A d \in Callers : WireOK(d)' = WireOK(d)
    BY <1>1 DEF WireOK, Sent, Completes, Accepts, EndsCall, Has, Product, R!Produces, R!Table
  <2>2. Matched' = Matched
    BY <1>1 DEF Matched
  <2> QED
    BY <1>0, <1>1, <2>1, <2>2, Zenon
<1> QED
  BY <1>2, <1>3, <1>4, <1>5, <1>6, <1>7, Zenon DEF ClientInv

LEMMA HangupStep ==
  ASSUME ClientInv, TypeOK', Hangup
  PROVE  ClientInv'
<1>1. /\ peer /\ peer' = FALSE /\ faults' = faults + 1
      /\ UNCHANGED <<kind, status, answer, log, garbled, pc, call, id, items, mu, reqID, client, toGrout, toClient,
                     table, refused>>
  BY ZenonT(60) DEF Hangup, Misbehaves, callVars
<1>2. faults' # 0
  BY <1>1, ClientAssumption DEF ClientInv, TypeOK
<1>3. /\ \A d \in Callers : CallOK(d)'
      /\ CallsApart' /\ Unanswered' /\ NoSpuriousError' /\ Paired' /\ Fresh' /\ Behaves'
  BY <1>1, <1>2, Zenon DEF ClientInv, CallOK, CallsApart, Unanswered, NoSpuriousError, Paired, Fresh, Behaves
<1>4. LogOK'
  <2>1. LogOK
    BY Zenon DEF ClientInv
  <2> QED
    BY <1>1, <2>1, SameLog, ZenonT(60)
<1>5. ~garbled' => \A j \in DOMAIN toClient' : toClient'[j].len \in {"zero", "full", "cut"}
  BY <1>1, Zenon DEF ClientInv
<1>6. Synced' => InStep'
  <2>1. SUFFICES ASSUME Synced' PROVE InStep'
    OBVIOUS
  <2>2. Synced
    BY <1>1, <1>2, <2>1 DEF Synced
  <2> QED
    <3>1. InStep
      BY <2>2, Zenon DEF ClientInv
    <3> QED
      BY <1>1, <3>1, Zenon DEF InStep, Accepts, EndsCall
<1>7. Matched' => \A d \in Callers : pc'[d] \in InCall => WireOK(d)'
  <2>1. SUFFICES ASSUME Matched', NEW d \in Callers, pc'[d] \in InCall PROVE WireOK(d)'
    BY Zenon
  <2>2. Matched
    BY <1>1, <1>2, <2>1 DEF Matched
  <2>3. WireOK(d)
    BY <1>1, <2>1, <2>2, Zenon DEF ClientInv
  <2>4. /\ \A j \in DOMAIN toClient : Completes(d, toClient[j])' <=> Completes(d, toClient[j])
        /\ \A j \in DOMAIN toClient, x \in Calls : Has(d, j, x)' <=> Has(d, j, x)
        /\ \A i \in DOMAIN log : Product(call[d], i)' = Product(call[d], i)
    BY <1>1, Zenon DEF Completes, Accepts, EndsCall, Has, Product, R!Produces, R!Table
  <2> QED
    BY <1>1, <2>3, <2>4, ZenonT(60) DEF WireOK
<1> QED
  BY <1>3, <1>4, <1>5, <1>6, <1>7, ZenonT(60) DEF ClientInv
==============================================================================
