------------------------- MODULE GroutClient_proofs --------------------------
(***************************************************************************)
(* The client keeps the promise of module Rpc, and grout's refusals are    *)
(* the only errors while grout behaves, for any number of goroutines,      *)
(* calls, request ids and faults: what grout does keeps the invariant of   *)
(* GroutClientSteps_proofs as well, and the theorems follow.               *)
(***************************************************************************)
EXTENDS GroutClientSteps_proofs

\* The requests after the one that grout serves are those of other calls.
LEMMA ServeRequests ==
  ASSUME ClientInv, Serve
  PROVE  LET r == Head(toGrout)
         IN /\ r \in Writes /\ r = toGrout[1] /\ 1 \in DOMAIN toGrout
            /\ Sent(r.call) /\ ~Logged(r.call) /\ status[r.call] # "unused"
            /\ Len(toGrout) \in Nat /\ Len(toGrout) >= 2 /\ DOMAIN toGrout = 1..Len(toGrout)
            /\ Len(toGrout') = Len(toGrout) - 2 /\ DOMAIN toGrout' = 1..(Len(toGrout) - 2)
            /\ \A i \in 1..(Len(toGrout) - 2) : toGrout'[i] = toGrout[i + 2] /\ i + 2 \in DOMAIN toGrout
            /\ \A i \in DOMAIN toGrout : toGrout[i].call = r.call => i \in {1, 2}
            /\ \A c \in Callers : pc[c] \in {"lock", "header", "payload"} => call[c] # r.call
<1> DEFINE r == Head(toGrout)
           N == Len(toGrout)
<1>1. TypeOK /\ LogOK /\ Paired /\ \A c \in Callers : CallOK(c)
  BY Zenon DEF ClientInv
<1>2. peer /\ N >= 2 /\ toGrout' = SubSeq(toGrout, 3, N)
  BY Zenon DEF Serve
<1>3. toGrout \in Seq(Writes) /\ N \in Nat /\ DOMAIN toGrout = 1..N
  BY <1>1 DEF TypeOK
<1>4. r = toGrout[1] /\ 1 \in DOMAIN toGrout /\ r \in Writes
  BY <1>2, <1>3
<1>5. /\ Len(toGrout') = N - 2 /\ DOMAIN toGrout' = 1..(N - 2)
      /\ \A i \in 1..(N - 2) : toGrout'[i] = toGrout[i + 2] /\ i + 2 \in DOMAIN toGrout
  <2>1. \A i \in 3..N : toGrout[i] \in Writes
    BY <1>3
  <2>2. /\ SubSeq(toGrout, 3, N) \in Seq(Writes)
        /\ Len(SubSeq(toGrout, 3, N)) = IF 3 <= N THEN N - 3 + 1 ELSE 0
        /\ \A i \in 1..(N - 3 + 1) : SubSeq(toGrout, 3, N)[i] = toGrout[3 + i - 1]
    BY <1>3, <2>1, SubSeqProperties
  <2>3. Len(toGrout') = N - 2 /\ toGrout' \in Seq(Writes)
    BY <1>2, <1>3, <2>2
  <2>4. \A i \in 1..(N - 2) : i \in 1..(N - 3 + 1) /\ 3 + i - 1 = i + 2 /\ i + 2 \in 1..N
    BY <1>3
  <2> QED
    BY <1>2, <1>3, <2>2, <2>3, <2>4
<1>6. Sent(r.call) /\ r.call \in Calls
  BY <1>4, Zenon DEF Sent, Writes
<1>7. ~Logged(r.call) /\ status[r.call] # "unused"
  BY <1>1, <1>6 DEF LogOK
<1>8. \A i \in DOMAIN toGrout : toGrout[i].call = r.call => i \in {1, 2}
  <2>1. \A i \in DOMAIN toGrout : 1 % 2 = 1 /\ toGrout[1].call = toGrout[i].call => i \in {1, 1 + 1}
    BY <1>1, <1>4, Zenon DEF Paired
  <2> HIDE DEF r
  <2> QED
    BY <1>4, <2>1
<1>9. \A c \in Callers : pc[c] \in {"lock", "header", "payload"} => call[c] # r.call
  <2>1. \A c \in Callers : pc[c] \in {"lock", "header"} => call[c] # r.call
    BY <1>1, <1>6, Zenon DEF LogOK
  <2>2. ASSUME NEW c \in Callers, pc[c] = "payload" PROVE call[c] # r.call
    <3>1. N % 2 = 1 /\ toGrout[N].call = call[c]
      BY <1>1, <1>2, <2>2, Zenon DEF Paired
    <3>2. N \in DOMAIN toGrout /\ N \notin {1, 2}
      BY <1>2, <1>3, <3>1
    <3> QED
      BY <1>8, <3>1, <3>2, Zenon
  <2> QED
    BY <2>1, <2>2, Zenon
<1> QED
  BY <1>2, <1>3, <1>4, <1>5, <1>6, <1>7, <1>8, <1>9, ZenonT(60)

\* The log and the wire to grout after a request was served.
LEMMA ServeLog ==
  ASSUME ClientInv, TypeOK', Serve
  PROVE  LogOK' /\ Paired'
<1> DEFINE r == Head(toGrout)
           N == Len(toGrout)
<1>1. TypeOK /\ LogOK /\ Paired /\ \A c \in Callers : CallOK(c)
  BY Zenon DEF ClientInv
<1>2. UNCHANGED <<kind, status, pc, call>>
  BY ServeShape
<1>3. /\ r \in Writes /\ r = toGrout[1] /\ 1 \in DOMAIN toGrout
      /\ Sent(r.call) /\ ~Logged(r.call) /\ status[r.call] # "unused"
      /\ N \in Nat /\ N >= 2 /\ DOMAIN toGrout = 1..N
      /\ Len(toGrout') = N - 2 /\ DOMAIN toGrout' = 1..(N - 2)
      /\ \A i \in 1..(N - 2) : toGrout'[i] = toGrout[i + 2] /\ i + 2 \in DOMAIN toGrout
      /\ \A i \in DOMAIN toGrout : toGrout[i].call = r.call => i \in {1, 2}
      /\ \A c \in Callers : pc[c] \in {"lock", "header", "payload"} => call[c] # r.call
  BY ServeRequests, Zenon
<1>4. \/ /\ log' = Append(log, r.call)
         /\ table' = IF kind[r.call] = "add" THEN Append(table, r.call) ELSE table
      \/ log' = log /\ table' = table
  BY ServeShape, Zenon
<1>5. r.call \in Calls
  BY <1>3, Zenon DEF Writes
<1>6. log \in Seq(Calls) /\ table \in Seq(Calls)
  BY <1>1 DEF TypeOK
<1> HIDE DEF r, N
<1>7. \A k \in Calls : Sent(k)' => Sent(k) /\ k # r.call
  <2>1. \A i \in 1..(N - 2) : i + 2 \notin {1, 2}
    BY <1>3
  <2> QED
    BY <1>3, <2>1 DEF Sent
<1>8. \A k \in Calls : Logged(k)' <=> Logged(k) \/ (k = r.call /\ log' # log)
  <2>1. CASE log' = log
    BY <2>1, Zenon DEF Logged
  <2>2. CASE log' = Append(log, r.call)
    <3>1. /\ Len(log) \in Nat /\ DOMAIN log = 1..Len(log) /\ DOMAIN log' = 1..(Len(log) + 1)
          /\ \A i \in 1..Len(log) : log'[i] = log[i]
          /\ log'[Len(log) + 1] = r.call
      BY <1>6, <2>2
    <3>2. log' # log
      BY <3>1
    <3> QED
      BY <3>1, <3>2 DEF Logged
  <2> QED
    BY <1>4, <2>1, <2>2, Zenon
<1>9. \A i, j \in DOMAIN log' : log'[i] = log'[j] => i = j
  <2>1. CASE log' = log
    BY <1>1, <2>1, Zenon DEF LogOK
  <2>2. CASE log' = Append(log, r.call)
    <3>1. /\ Len(log) \in Nat /\ DOMAIN log = 1..Len(log) /\ DOMAIN log' = 1..(Len(log) + 1)
          /\ \A i \in 1..Len(log) : log'[i] = log[i]
          /\ log'[Len(log) + 1] = r.call
      BY <1>6, <2>2
    <3>2. \A i \in 1..Len(log) : log[i] # r.call
      BY <1>3, <3>1, Zenon DEF Logged
    <3>3. \A i, j \in 1..Len(log) : log[i] = log[j] => i = j
      BY <1>1, <3>1, Zenon DEF LogOK
    <3>4. \A i \in 1..(Len(log) + 1) : i \in 1..Len(log) \/ i = Len(log) + 1
      BY <3>1
    <3> QED
      BY <3>1, <3>2, <3>3, <3>4, Zenon
  <2> QED
    BY <1>4, <2>1, <2>2, Zenon
<1>10. \A k \in Calls : (\E i \in DOMAIN table' : table'[i] = k) <=> Logged(k)' /\ kind'[k] = "add"
  <2>1. \A k \in Calls : (\E i \in DOMAIN table : table[i] = k) <=> Logged(k) /\ kind[k] = "add"
    BY <1>1, Zenon DEF LogOK
  <2>2. CASE log' = log /\ table' = table
    BY <1>2, <1>8, <2>1, <2>2, Zenon
  <2>3. CASE log' = Append(log, r.call) /\ kind[r.call] # "add" /\ table' = table
    BY <1>2, <1>8, <2>1, <2>3, Zenon
  <2>4. CASE log' = Append(log, r.call) /\ kind[r.call] = "add" /\ table' = Append(table, r.call)
    <3>1. /\ Len(table) \in Nat /\ DOMAIN table = 1..Len(table) /\ DOMAIN table' = 1..(Len(table) + 1)
          /\ \A i \in 1..Len(table) : table'[i] = table[i]
          /\ table'[Len(table) + 1] = r.call
      BY <1>6, <2>4
    <3>2. \A k \in Calls : (\E i \in DOMAIN table' : table'[i] = k)
                             <=> (\E i \in DOMAIN table : table[i] = k) \/ k = r.call
      BY <3>1
    <3>3. log' # log
      BY <1>6, <2>4
    <3> QED
      BY <1>2, <1>8, <2>1, <2>4, <3>2, <3>3, ZenonT(60)
  <2> QED
    BY <1>4, <2>2, <2>3, <2>4, Zenon
<1>11. LogOK'
  <2>1. \A k \in Calls : Logged(k)' \/ Sent(k)' => status'[k] # "unused"
    BY <1>1, <1>2, <1>3, <1>7, <1>8 DEF LogOK
  <2>2. \A k \in Calls : ~(Logged(k)' /\ Sent(k)')
    BY <1>1, <1>7, <1>8, Zenon DEF LogOK
  <2>3. \A c \in Callers : pc[c] \in {"lock", "header"} => call[c] \in Calls /\ ~Logged(call[c]) /\ ~Sent(call[c])
    BY <1>1, Zenon DEF LogOK, CallOK
  <2>4. \A c \in Callers : pc'[c] \in {"lock", "header"} => ~Logged(call[c])' /\ ~Sent(call[c])'
    <3> SUFFICES ASSUME NEW c \in Callers, pc'[c] \in {"lock", "header"} PROVE ~Logged(call[c])' /\ ~Sent(call[c])'
      BY Zenon
    <3>1. call'[c] = call[c] /\ call[c] \in Calls /\ call[c] # r.call /\ ~Logged(call[c]) /\ ~Sent(call[c])
      BY <1>2, <1>3, <2>3, Zenon
    <3>2. \A k \in Calls : k # r.call /\ ~Logged(k) /\ ~Sent(k) => /\ \A i \in DOMAIN log' : log'[i] # k
                                                                   /\ \A i \in DOMAIN toGrout' : toGrout'[i].call # k
      BY <1>7, <1>8 DEF Logged, Sent
    <3> QED
      BY <3>1, <3>2, Zenon DEF Logged, Sent
  <2> QED
    BY <1>9, <1>10, <2>1, <2>2, <2>4, Zenon DEF LogOK
<1>12. Paired'
  <2>1. \A i \in 1..(N - 2) : i % 2 = 1 /\ i + 1 \in 1..(N - 2) => toGrout'[i + 1].call = toGrout'[i].call
    <3> SUFFICES ASSUME NEW i \in 1..(N - 2), i % 2 = 1, i + 1 \in 1..(N - 2)
                 PROVE  toGrout'[i + 1].call = toGrout'[i].call
      OBVIOUS
    <3>1. (i + 2) % 2 = 1 /\ i + 2 \in 1..N /\ (i + 2) + 1 \in 1..N /\ (i + 1) + 2 = (i + 2) + 1
      BY <1>3
    <3>2. toGrout[(i + 2) + 1].call = toGrout[i + 2].call
      BY <1>1, <1>3, <3>1, Zenon DEF Paired
    <3> QED
      BY <1>3, <3>1, <3>2, Zenon
  <2>2. \A i, j \in 1..(N - 2) : i % 2 = 1 /\ toGrout'[i].call = toGrout'[j].call => j \in {i, i + 1}
    <3> SUFFICES ASSUME NEW i \in 1..(N - 2), NEW j \in 1..(N - 2), i % 2 = 1, toGrout'[i].call = toGrout'[j].call
                 PROVE  j \in {i, i + 1}
      BY Zenon
    <3>1. (i + 2) % 2 = 1 /\ i + 2 \in 1..N /\ j + 2 \in 1..N
      BY <1>3
    <3>2. j + 2 \in {i + 2, (i + 2) + 1}
      BY <1>1, <1>3, <3>1, Zenon DEF Paired
    <3> QED
      BY <3>2
  <2>3. peer' => peer
    BY ServeShape, Zenon
  <2>4. \A c \in Callers : peer' /\ pc'[c] = "payload" =>
          Len(toGrout') % 2 = 1 /\ toGrout'[Len(toGrout')].call = call'[c]
    <3> SUFFICES ASSUME NEW c \in Callers, peer, pc[c] = "payload"
                 PROVE  Len(toGrout') % 2 = 1 /\ toGrout'[Len(toGrout')].call = call[c]
      BY <1>2, <2>3, Zenon
    <3>1. N % 2 = 1 /\ toGrout[N].call = call[c]
      BY <1>1, Zenon DEF Paired, N
    <3>2. (N - 2) % 2 = 1 /\ N - 2 \in 1..(N - 2) /\ (N - 2) + 2 = N
      BY <1>3, <3>1
    <3> QED
      BY <1>3, <3>1, <3>2, Zenon
  <2>5. peer' /\ (\A c \in Callers : pc'[c] # "payload") => Len(toGrout') % 2 = 0
    <3> SUFFICES ASSUME peer, \A c \in Callers : pc[c] # "payload" PROVE Len(toGrout') % 2 = 0
      BY <1>2, <2>3, Zenon
    <3>1. N % 2 = 0
      BY <1>1, Zenon DEF Paired, N
    <3> QED
      BY <1>3, <3>1
  <2> QED
    BY <1>3, <2>1, <2>2, <2>4, <2>5, Zenon DEF Paired
<1> QED
  BY <1>11, <1>12, Zenon

\* grout serves a request: its replies go to the call that sent it.
LEMMA ServeStep ==
  ASSUME ClientInv, TypeOK', Serve
  PROVE  ClientInv'
<1> DEFINE r == Head(toGrout)
           N == Len(toGrout)
           M == Len(toClient)
<1>1. /\ TypeOK /\ Fresh /\ Unanswered /\ CallsApart /\ LogOK /\ Behaves /\ NoSpuriousError
      /\ \A d \in Callers : CallOK(d)
      /\ ~garbled => \A j \in DOMAIN toClient : toClient[j].len \in {"zero", "full", "cut"}
  BY Zenon DEF ClientInv
<1>2. UNCHANGED <<kind, status, answer, pc, call, id, items, mu, reqID, client>>
  BY ServeShape
<1>3. /\ r \in Writes /\ r = toGrout[1] /\ 1 \in DOMAIN toGrout
      /\ Sent(r.call) /\ ~Logged(r.call)
      /\ N \in Nat /\ N >= 2 /\ DOMAIN toGrout = 1..N
      /\ Len(toGrout') = N - 2 /\ DOMAIN toGrout' = 1..(N - 2)
      /\ \A i \in 1..(N - 2) : toGrout'[i] = toGrout[i + 2] /\ i + 2 \in DOMAIN toGrout
      /\ \A i \in DOMAIN toGrout : toGrout[i].call = r.call => i \in {1, 2}
      /\ \A c \in Callers : pc[c] \in {"lock", "header", "payload"} => call[c] # r.call
  BY ServeRequests, Zenon
<1>4. PICK T : toClient' = toClient \o T /\ Answer(r, T)
  BY <1>1, ServeAnswers
<1>5. /\ peer /\ (peer' => peer) /\ (garbled => garbled') /\ refused \subseteq refused'
      /\ faults' = 0 => faults = 0 /\ peer' = peer /\ garbled' = garbled
      /\ log' = log \/ log' = Append(log, r.call)
  <2>1. peer /\ (peer' => peer) /\ (garbled => garbled')
    <3>1. peer /\ (garbled' = garbled \/ garbled' = TRUE)
      BY ServeShape, Zenon
    <3>2. garbled \in BOOLEAN /\ garbled' \in BOOLEAN
      BY <1>1 DEF TypeOK
    <3>3. garbled => garbled'
      BY <3>1, <3>2, Zenon
    <3> QED
      BY <3>1, <3>3
  <2>2. faults \in Nat
    BY <1>1, ClientAssumption DEF TypeOK
  <2>3. \/ faults' = faults /\ peer' = peer /\ garbled' = garbled
        \/ faults' = faults + 1
    BY ServeShape, Zenon
  <2>4. refused \subseteq refused' /\ (log' = log \/ log' = Append(log, r.call))
    BY ServeShape, Zenon
  <2>5. faults' = faults + 1 => faults' # 0
    BY <2>2
  <2> QED
    BY <2>1, <2>3, <2>4, <2>5, Zenon
<1>6. r.call \in Calls /\ r.id \in ReqIds
  BY <1>3, Zenon DEF Writes
<1>7. /\ M \in Nat /\ DOMAIN toClient = 1..M
      /\ T \in Seq(Replies) /\ Len(T) \in Nat /\ DOMAIN toClient' = 1..(M + Len(T)) /\ Len(toClient') = M + Len(T)
      /\ \A j \in 1..M : toClient'[j] = toClient[j]
      /\ \A j \in 1..Len(T) : toClient'[M + j] = T[j]
      /\ \A j \in 1..(M + Len(T)) : j \in 1..M \/ (j - M \in 1..Len(T) /\ toClient'[j] = T[j - M])
  <2>1. toClient \in Seq(Replies) /\ T \in Seq(Replies) /\ M \in Nat /\ DOMAIN toClient = 1..M /\ Len(T) \in Nat
    BY <1>1, <1>4, SMTT(60) DEF TypeOK, Answer
  <2>2. toClient' \in Seq(Replies) /\ Len(toClient') = M + Len(T)
        /\ \A j \in 1..(M + Len(T)) : toClient'[j] = IF j <= M THEN toClient[j] ELSE T[j - M]
    BY <1>4, <2>1, ConcatProperties, Zenon
  <2> HIDE DEF M
  <2>3. DOMAIN toClient' = 1..(M + Len(T))
    BY <2>2
  <2>4. \A j \in 1..(M + Len(T)) : j \in 1..M \/ (j - M \in 1..Len(T) /\ toClient'[j] = T[j - M])
    BY <2>1, <2>2
  <2>5. \A j \in 1..M : toClient'[j] = toClient[j]
    BY <2>1, <2>2
  <2>6. \A j \in 1..Len(T) : toClient'[M + j] = T[j]
    <3> SUFFICES ASSUME NEW j \in 1..Len(T) PROVE toClient'[M + j] = T[j]
      OBVIOUS
    <3>1. M + j \in 1..(M + Len(T)) /\ ~(M + j <= M) /\ (M + j) - M = j
      BY <2>1
    <3> QED
      BY <2>2, <3>1
  <2> QED
    BY <2>1, <2>2, <2>3, <2>4, <2>5, <2>6, ZenonT(60) DEF M
<1> HIDE DEF r, N, M
<1>8. \A d \in Callers : CallOK(d)'
  BY <1>1, <1>2, <1>5, Zenon DEF CallOK
<1>9. CallsApart' /\ Unanswered' /\ Fresh'
  BY <1>1, <1>2, <1>5, Zenon DEF CallsApart, Unanswered, Fresh
<1>10. NoSpuriousError'
  BY <1>1, <1>2, <1>5 DEF NoSpuriousError
<1>11. LogOK' /\ Paired'
  BY ServeLog, Zenon
<1>12. Behaves'
  <2>1. SUFFICES ASSUME faults' = 0
                 PROVE  /\ ~garbled' /\ (\A c \in Callers : pc[c] # "idle" => peer') /\ (client = "ready" => peer')
                        /\ \A j \in DOMAIN toClient' : toClient'[j].len \in {"zero", "full"}
    BY <1>2, Zenon DEF Behaves
  <2>2. /\ ~garbled' /\ (\A c \in Callers : pc[c] # "idle" => peer') /\ (client = "ready" => peer')
        /\ \A j \in 1..M : toClient[j].len \in {"zero", "full"}
    BY <1>1, <1>5, <1>7, <2>1, ZenonT(60) DEF Behaves
  <2>3. \A j \in 1..Len(T) : T[j].len \in {"zero", "full"}
    BY <1>4, <2>1, Zenon DEF Answer
  <2> QED
    BY <1>7, <2>2, <2>3, Zenon
<1>13. ~garbled' => \A j \in DOMAIN toClient' : toClient'[j].len \in {"zero", "full", "cut"}
  <2>1. SUFFICES ASSUME ~garbled' PROVE \A j \in DOMAIN toClient' : toClient'[j].len \in {"zero", "full", "cut"}
    BY Zenon
  <2>2. \A j \in 1..M : toClient[j].len \in {"zero", "full", "cut"}
    BY <1>1, <1>5, <1>7, <2>1, Zenon
  <2>3. \A j \in 1..Len(T) : T[j].len \in {"zero", "full", "cut"}
    BY <1>4, <2>1, Zenon DEF Answer
  <2> QED
    BY <1>7, <2>2, <2>3, Zenon
<1>15. Synced' => InStep'
  <2>1. SUFFICES ASSUME Synced' PROVE InStep'
    OBVIOUS
  <2>2. Synced /\ InStep /\ ~garbled'
    <3>1. Synced
      BY <1>5, <2>1, Zenon DEF Synced
    <3> QED
      BY <2>1, <3>1, Zenon DEF ClientInv, Synced
  <2>3. toGrout # <<>>
    BY <1>3
  <2>4. PICK c \in Callers : pc[c] \in InCall
    BY <1>5, <2>2, <2>3, Zenon DEF InStep
  <2>5. \A d \in Callers : pc[d] \in InCall => d = c
    BY <2>4, OneInCall, Zenon
  <2>6. /\ \A i \in DOMAIN toGrout : toGrout[i].call = call[c] /\ toGrout[i].id = id[c]
        /\ toClient = <<>>
    BY <1>5, <2>2, <2>3, <2>4, ZenonT(60) DEF InStep
  <2>7. r.call = call[c] /\ r.id = id[c] /\ pc[c] \in {"read", "body"}
    BY <1>3, <2>4, <2>6, ZenonT(60) DEF InCall
  <2>8. toGrout' = <<>>
    <3>1. N \in {1, 2}
      <4>1. N \in DOMAIN toGrout
        BY <1>3, SMTT(60)
      <4> QED
        BY <1>3, <2>6, <2>7, <4>1, ZenonT(60)
    <3>2. Len(toGrout') = 0 /\ toGrout' \in Seq(Writes)
      BY <1>3, <3>1, SMTT(60) DEF TypeOK
    <3> QED
      BY <3>2
  <2>9. M = 0
    BY <2>6 DEF M
  <2>10. \A j \in 1..Len(T) :
           /\ T[j].forID = id[c]
           /\ T[j].status = 1 \/ T[j].len \in {"cut", "zero"} \/ kind[call[c]] # "list" => j = Len(T)
           /\ T[j].status = 1 => call[c] \in refused'
           /\ T[j].status \in {0, 1} /\ T[j].len \in {"zero", "full", "cut"}
    <3>1. \A j \in 1..Len(T) : T[j] \in Replies
      BY <1>7
    <3> QED
      BY <1>4, <2>1, <2>2, <2>7, <3>1, ZenonT(60) DEF Answer, Replies
  <2>11. \A j \in DOMAIN toClient' :
           /\ toClient'[j].forID = id'[c]
           /\ ~Accepts(c, toClient[j])' \/ EndsCall(c, toClient[j])' => j = Len(toClient')
           /\ toClient'[j].status = 1 => call'[c] \in refused'
    <3>0. DOMAIN toClient' = 1..Len(T) /\ Len(toClient') = Len(T)
      BY <1>7, <2>9
    <3> SUFFICES ASSUME NEW j \in 1..Len(T)
                 PROVE  /\ toClient'[j].forID = id'[c]
                        /\ ~Accepts(c, toClient[j])' \/ EndsCall(c, toClient[j])' => j = Len(T)
                        /\ toClient'[j].status = 1 => call'[c] \in refused'
      BY <3>0, Zenon
    <3>1. toClient'[j] = T[j]
      BY <1>7, <2>9
    <3> QED
      BY <1>2, <2>10, <3>1, Zenon DEF Accepts, EndsCall
  <2> QED
    BY <1>2, <2>5, <2>7, <2>8, <2>11, SMTT(60) DEF InStep, InCall
<1>16. Matched' => \A d \in Callers : pc'[d] \in InCall => WireOK(d)'
  <2>1. SUFFICES ASSUME Matched', NEW c \in Callers, pc[c] \in InCall PROVE WireOK(c)'
    BY <1>2, Zenon
  <2>2. Matched /\ WireOK(c) /\ ~garbled'
    <3>1. Matched
      BY <1>5, <2>1, Zenon DEF Matched
    <3> QED
      BY <2>1, <3>1, Zenon DEF ClientInv, Matched
  <2>3. \A i \in DOMAIN toGrout : (toGrout[i].id = id[c]) <=> (toGrout[i].call = call[c])
    BY <1>5, <2>2, Zenon DEF WireOK
  <2>4. peer' => \A i \in DOMAIN toGrout' : (toGrout'[i].id = id'[c]) <=> (toGrout'[i].call = call'[c])
    BY <1>2, <1>3, <2>3
  <2>5. \A j \in 1..Len(T) : T[j].forID = r.id
    BY <1>4, <2>2, Zenon DEF Answer
  <2>6. (r.id = id[c]) <=> (r.call = call[c])
    BY <1>3, <2>3, Zenon
  <2>7. /\ call[c] \in Calls
        /\ \A i \in DOMAIN toGrout' : toGrout'[i].call # r.call
        /\ \A k \in Calls : Sent(k)' => Sent(k)
    <3>1. \A i \in 1..(N - 2) : i + 2 \notin {1, 2}
      BY <1>3
    <3>2. call[c] \in Calls
      BY <1>1, <2>1, Zenon DEF CallOK, InCall
    <3>3. \A i \in DOMAIN toGrout' : toGrout'[i].call # r.call
      BY <1>3, <3>1, Zenon
    <3>4. \A k \in Calls : Sent(k)' => Sent(k)
      BY <1>3 DEF Sent
    <3> QED
      BY <3>2, <3>3, <3>4, Zenon
  <2>8. pc'[c] \in {"header", "payload"} \/ (peer' /\ Sent(call[c])') =>
          items'[c] = {} /\ \A i \in DOMAIN toClient' : toClient'[i].forID # id'[c]
    <3> SUFFICES ASSUME pc[c] \in {"header", "payload"} \/ \E i \in DOMAIN toGrout' : toGrout'[i].call = call[c]
                 PROVE  items[c] = {} /\ \A i \in DOMAIN toClient' : toClient'[i].forID # id[c]
      BY <1>2, Zenon DEF Sent
    <3>1. r.call # call[c]
      BY <1>3, <2>7, Zenon
    <3>2. pc[c] \in {"header", "payload"} \/ Sent(call[c])
      BY <1>3, <2>7, Zenon DEF Sent
    <3>3. items[c] = {} /\ \A i \in DOMAIN toClient : toClient[i].forID # id[c]
      BY <1>5, <2>2, <3>2, Zenon DEF WireOK
    <3> QED
      BY <1>7, <2>5, <2>6, <3>1, <3>3, SMTT(60)
  <2>9. ASSUME NEW j \in 1..M, Completes(c, toClient[j])'
        PROVE  \E i \in DOMAIN log' : log'[i] = call'[c] /\ \A x \in Calls : Has(c, j, x)' <=> x \in Product(call[c], i)'
    <3>1. Completes(c, toClient[j])
      BY <1>2, <1>7, <2>9, Zenon DEF Completes, Accepts, EndsCall
    <3>2. PICK i \in DOMAIN log : log[i] = call[c] /\ \A x \in Calls : Has(c, j, x) <=> x \in Product(call[c], i)
      BY <1>7, <2>2, <3>1, ZenonT(60) DEF WireOK
    <3>3. i \in 1..Len(log) /\ (log' = log \/ \E x \in Calls : log' = Append(log, x))
      <4>1. log \in Seq(Calls)
        BY <1>1, Zenon DEF TypeOK
      <4>2. i \in 1..Len(log)
        BY <3>2, <4>1
      <4> QED
        BY <1>5, <1>6, <4>2, Zenon
    <3>4. i \in DOMAIN log' /\ log'[i] = log[i] /\ Product(call[c], i)' = Product(call[c], i)
      BY <1>1, <1>2, <2>7, <3>3, ProductSame, Zenon
    <3>5. \A x \in Calls : Has(c, j, x)' <=> Has(c, j, x)
      <4>1. \A i1 \in 1..j : toClient'[i1] = toClient[i1]
        <5>1. \A i1 \in 1..j : i1 \in 1..M
          BY <1>7
        <5> QED
          BY <1>7, <5>1, Zenon
      <4> QED
        BY <1>2, <4>1, Zenon DEF Has
    <3> QED
      BY <1>2, <3>2, <3>4, <3>5, Zenon
  <2>10. ASSUME NEW j \in 1..(M + Len(T)), NEW q \in 1..Len(T), q = j - M, toClient'[j] = T[q],
                Completes(c, toClient[j])'
         PROVE  \E i \in DOMAIN log' : log'[i] = call'[c] /\ \A x \in Calls : Has(c, j, x)' <=> x \in Product(call[c], i)'
    <3>1. /\ T[q].forID = id[c] /\ T[q].status = 0 /\ T[q].len # "cut"
          /\ kind[call[c]] # "list" \/ T[q].len = "zero"
      BY <1>2, <2>10, Zenon DEF Completes, Accepts, EndsCall
    <3>2. r.id = id[c] /\ r.call = call[c]
      BY <2>5, <2>6, <3>1
    <3>3. /\ log' = Append(log, r.call)
          /\ \A x \in Calls : x \in R!Produces(r.call, log) <=> \E i \in 1..q : x \in T[i].body
      BY <1>4, <2>2, <3>1, <3>2, Zenon DEF Answer
    <3>4. items[c] = {} /\ \A i \in 1..M : toClient[i].forID # id[c]
      BY <1>3, <1>5, <1>7, <2>2, <3>2, ZenonT(60) DEF WireOK
    <3>5. \A x \in Calls : Has(c, j, x)' <=> \E i \in 1..q : x \in T[i].body
      <4> SUFFICES ASSUME NEW x \in Calls PROVE Has(c, j, x)' <=> \E i \in 1..q : x \in T[i].body
        BY Zenon
      <4>1. Has(c, j, x)' <=> \E i \in 1..j : toClient'[i].forID = id[c] /\ x \in toClient'[i].body
        BY <1>2, <3>4, Zenon DEF Has
      <4>2. \A i \in 1..q : M + i \in 1..j /\ toClient'[M + i] = T[i] /\ T[i].forID = id[c]
        <5>1. \A i \in 1..q : M + i \in 1..j /\ i \in 1..Len(T)
          BY <1>7, <2>10
        <5> QED
          BY <1>7, <2>5, <3>2, <5>1, ZenonT(60)
      <4>3. \A i \in 1..j : toClient'[i].forID = id[c] => i - M \in 1..q /\ toClient'[i] = T[i - M]
        <5> SUFFICES ASSUME NEW i \in 1..j, toClient'[i].forID = id[c]
                     PROVE  i - M \in 1..q /\ toClient'[i] = T[i - M]
          BY Zenon
        <5>1. i \in 1..(M + Len(T)) /\ i \notin 1..M
          BY <1>7, <3>4
        <5>2. i - M \in 1..Len(T) /\ toClient'[i] = T[i - M]
          BY <1>7, <5>1, ZenonT(60)
        <5> QED
          BY <1>7, <2>10, <5>1, <5>2, SMTT(60)
      <4> QED
        BY <4>1, <4>2, <4>3, Zenon
    <3> DEFINE i == Len(log) + 1
    <3>6. log \in Seq(Calls) /\ Len(log) \in Nat
      BY <1>1 DEF TypeOK
    <3>7. i \in DOMAIN log' /\ log'[i] = call[c] /\ i - 1 = Len(log)
      BY <1>6, <3>2, <3>3, <3>6, SMTT(60)
    <3>8. SubSeq(log', 1, Len(log)) = log
      <4>1. \A n \in 1..Len(log) : log'[n] \in Calls /\ log'[n] = log[n]
        BY <1>6, <3>3, <3>6, SMTT(60)
      <4>2. /\ log' \in Seq(Calls) /\ Len(log) \in Int
        BY <1>6, <3>3, <3>6
      <4>3. /\ SubSeq(log', 1, Len(log)) \in Seq(Calls) /\ Len(SubSeq(log', 1, Len(log))) = Len(log)
            /\ \A n \in 1..Len(log) : SubSeq(log', 1, Len(log))[n] = log[n]
        BY <3>6, <4>1, <4>2, SubSeqProperties, SMTT(60)
      <4> QED
        BY <3>6, <4>3, SeqEqual, Zenon
    <3>9. \E n \in DOMAIN log' : log'[n] = call'[c] /\ Product(call[c], n)' = R!Produces(call[c], log)
      <4>1. \A n \in {i} : Product(call[c], n)' = R!Produces(call[c], log)
        <5> SUFFICES ASSUME NEW n \in {i} PROVE Product(call[c], n)' = R!Produces(call[c], log)
          BY Zenon
        <5>1. SubSeq(log', 1, n - 1) = log /\ call'[c] = call[c] /\ kind' = kind
          BY <1>2, <3>7, <3>8
        <5> QED
          BY <5>1, Zenon DEF Product, R!Produces, R!Table
      <4> QED
        BY <1>2, <3>7, <4>1, ZenonT(60)
    <3> QED
      BY <3>2, <3>3, <3>5, <3>9, Zenon
  <2>11. \A j \in DOMAIN toClient' : Completes(c, toClient[j])' =>
           \E i \in DOMAIN log' : log'[i] = call'[c] /\ \A x \in Calls : Has(c, j, x)' <=> x \in Product(call[c], i)'
    <3> SUFFICES ASSUME NEW j \in 1..(M + Len(T)), Completes(c, toClient[j])'
                 PROVE  \E i \in DOMAIN log' : /\ log'[i] = call'[c]
                                               /\ \A x \in Calls : Has(c, j, x)' <=> x \in Product(call[c], i)'
      BY <1>7, Zenon
    <3>1. j \in 1..M \/ (j - M \in 1..Len(T) /\ toClient'[j] = T[j - M])
      BY <1>7, Zenon
    <3> QED
      BY <2>9, <2>10, <3>1, Zenon
  <2> QED
    BY <2>4, <2>8, <2>11, ZenonT(60) DEF WireOK
<1> QED
  BY <1>8, <1>9, <1>10, <1>11, <1>12, <1>13, <1>15, <1>16, ZenonT(60) DEF ClientInv

-----------------------------------------------------------------------------
\* Every step of the client and of grout keeps the invariant.
LEMMA ClientNext == ClientInv /\ [Next]_vars => ClientInv'
<1> SUFFICES ASSUME ClientInv, [Next]_vars PROVE ClientInv'
  OBVIOUS
<1>0. TypeOK'
  BY TypeStep
<1>1. ASSUME NEW c \in Callers, Dial(c) PROVE ClientInv'
  <2>1. CASE client = "none" /\ Start(c, "hello") /\ client' = "hello" /\ peer' = TRUE
    BY <1>0, <2>1, BeginStep, Zenon
  <2>2. CASE /\ client' = "closed"
             /\ UNCHANGED <<callVars, log, garbled, pc, call, id, items, mu, reqID, wire, table, refused, faults>>
    BY <1>0, <2>2, CloseStep, Zenon
  <2> QED
    BY <1>1, <2>1, <2>2, Zenon DEF Dial
<1>2. ASSUME NEW c \in Callers, NEW t \in {"add", "list"}, Call(c, t) PROVE ClientInv'
  <2>1. client = "ready" /\ client' = "ready" /\ peer' = peer /\ Start(c, t)
    BY <1>2, Zenon DEF Call
  <2> QED
    BY <1>0, <2>1, BeginStep
<1>3. ASSUME NEW c \in Callers, NEW p, NEW n, Write(c, p, n),
             \/ p = "header" /\ n = "payload"
             \/ p = "payload" /\ n = "read"
      PROVE  ClientInv'
  <2>1. /\ pc[c] = p /\ p \in {"header", "payload"}
        /\ UNCHANGED <<id, reqID, peer, toClient, table, refused, faults>>
    BY <1>3 DEF Write
  <2>2. CASE /\ peer
             /\ toGrout' = Append(toGrout, [part |-> p, id |-> id[c], call |-> call[c]])
             /\ Goto(c, n)
             /\ UNCHANGED <<callVars, log, garbled, call, items, mu, client>>
    <3>1. UNCHANGED <<kind, status, answer, log, garbled, call, items, mu, client, id, reqID, peer,
                      toClient, table, refused, faults>>
      BY <2>1, <2>2, ZenonT(60) DEF callVars
    <3>2. WriteArrives(c, p, n)
      BY <1>3, <2>1, <2>2, <3>1, Zenon DEF WriteArrives
    <3> QED
      BY <1>0, <3>2, WriteStep, Zenon
  <2>3. CASE ~peer /\ Return(c, "error", {}) /\ UNCHANGED toGrout
    BY <1>0, <2>1, <2>3, WriteFails, Zenon
  <2> QED
    BY <1>3, <2>2, <2>3, ZenonT(60) DEF Write
<1>4. ASSUME NEW c \in Callers, Step(c) PROVE ClientInv'
  <2>1. Write(c, "header", "payload") \/ Write(c, "payload", "read") => ClientInv'
    BY <1>3
  <2>2. Lock(c) => ClientInv'
    BY <1>0, LockStep
  <2>3. Read(c) => ClientInv'
    BY <1>0, ReadStep
  <2>4. ReadEOF(c) => ClientInv'
    BY <1>0, EOFStep
  <2>5. ReadShort(c) \/ ReadRest(c) => ClientInv'
    BY <1>0, ReadShortStep, ReadRestStep, Zenon
  <2> QED
    BY <1>4, <2>1, <2>2, <2>3, <2>4, <2>5, ZenonT(60) DEF Step
<1>5. CASE Serve
  BY <1>0, <1>5, ServeStep
<1>6. CASE Hangup
  BY <1>0, <1>6, HangupStep, Zenon
<1>7. CASE Close
  BY <1>0, <1>7, CloseStep DEF Close
<1>8. CASE UNCHANGED vars
  <2>1. UNCHANGED <<kind, status, answer, log, garbled, pc, call, id, items, mu, reqID, client, peer, toGrout,
                    toClient, table, refused, faults>>
    BY <1>8 DEF vars
  <2>2. /\ \A d \in Callers : CallOK(d)'
        /\ CallsApart' /\ Unanswered' /\ NoSpuriousError' /\ Paired' /\ Fresh' /\ Behaves'
    BY <2>1, Zenon DEF ClientInv, CallOK, CallsApart, Unanswered, NoSpuriousError, Paired, Fresh, Behaves
  <2>3. LogOK'
    <3>1. LogOK
      BY Zenon DEF ClientInv
    <3> QED
      BY <2>1, <3>1, SameLog, Zenon
  <2>4. ~garbled' => \A j \in DOMAIN toClient' : toClient'[j].len \in {"zero", "full", "cut"}
    BY <2>1, Zenon DEF ClientInv
  <2>5. Synced' => InStep'
    BY <2>1, ZenonT(60) DEF ClientInv, Synced, InStep, Accepts, EndsCall
  <2>6. \A d \in Callers : WireOK(d)' = WireOK(d)
    BY <2>1 DEF WireOK, Sent, Completes, Accepts, EndsCall, Has, Product, R!Produces, R!Table
  <2>7. Matched' => \A d \in Callers : pc'[d] \in InCall => WireOK(d)'
    BY <2>1, <2>6, Zenon DEF ClientInv, Matched
  <2> QED
    BY <1>0, <2>2, <2>3, <2>4, <2>5, <2>7, Zenon DEF ClientInv
<1> QED
  BY <1>1, <1>2, <1>4, <1>5, <1>6, <1>7, <1>8, ZenonT(60) DEF Next

\* The inductive invariant of the client.
THEOREM ClientInvariant == Spec => []ClientInv
BY ClientInit, ClientNext, PTL DEF Spec

\* Client, wire and grout stay within their types: request ids wrap within
\* IdMod, the holder of the mutex is a goroutine, and the wire carries what
\* writeRequest and grout write.
THEOREM ClientTypeOK == Spec => []TypeOK
<1>1. ClientInv => TypeOK
  BY DEF ClientInv
<1> QED
  BY <1>1, ClientInvariant, PTL

\* While grout behaves, request and requestStream return an error only for a
\* call that grout itself refused, whatever the number of goroutines that share
\* the client and however soon its request ids wrap around.
THEOREM NoSpuriousErrors == Spec => []NoSpuriousError
<1>1. ClientInv => NoSpuriousError
  BY DEF ClientInv
<1> QED
  BY <1>1, ClientInvariant, PTL

-----------------------------------------------------------------------------
\* What a call that returns success has collected is what its execution produced.
LEMMA SuccessIsExecution ==
  ASSUME ClientInv, NEW c \in Callers, NEW f, Reads(c, f), ~garbled, Accepts(c, f), EndsCall(c, f)
  PROVE  \E i \in DOMAIN log : log[i] = call[c] /\ items[c] \union f.body = Product(call[c], i)
<1>1. /\ f \in Replies /\ f = toClient[1] /\ 1 \in DOMAIN toClient
  BY HeadFacts
<1>2. TypeOK /\ WireOK(c) /\ call[c] \in Calls
  BY Zenon DEF ClientInv, Matched, Reads, InCall, CallOK
<1>3. Completes(c, toClient[1])
  BY <1>1 DEF Completes, Accepts
<1>4. PICK i \in DOMAIN log : log[i] = call[c] /\ \A x \in Calls : Has(c, 1, x) <=> x \in Product(call[c], i)
  BY <1>1, <1>2, <1>3, Zenon DEF WireOK
<1>5. \A x \in Calls : Has(c, 1, x) <=> x \in items[c] \union f.body
  <2>1. \A j \in 1..1 : j = 1
    OBVIOUS
  <2> QED
    BY <1>1, <1>3, <2>1 DEF Has, Completes
<1>6. items[c] \union f.body \subseteq Calls
  BY <1>1, <1>2, Zenon DEF TypeOK, Replies
<1>7. Product(call[c], i) \subseteq Calls
  <2> DEFINE l == SubSeq(log, 1, i - 1)
  <2>1. log \in Seq(Calls) /\ i \in 1..Len(log) /\ Len(log) \in Nat
    BY <1>2, <1>4 DEF TypeOK
  <2>2. \A j \in 1..(i - 1) : log[j] \in Calls
    BY <2>1
  <2>3. l \in Seq(Calls)
    BY <2>1, <2>2, SubSeqProperties
  <2> HIDE DEF l
  <2>4. \A j \in DOMAIN l : l[j] \in Calls
    BY <2>3
  <2>5. R!Produces(call[c], l) \subseteq Calls
    BY <1>2, <2>4 DEF R!Produces, R!Table
  <2> QED
    BY <2>5, Zenon DEF Product, l
<1>8. items[c] \union f.body = Product(call[c], i)
  BY <1>4, <1>5, <1>6, <1>7, ZenonT(60)
<1> QED
  BY <1>4, <1>8, Zenon

\* A return with an error is a failure of the call.
LEMMA FailRefines ==
  ASSUME ClientInv, NEW c \in Callers, pc[c] \in InCall, Return(c, "error", {})
  PROVE  R!Next
<1>1. call[c] \in Calls /\ status[call[c]] = "running" /\ answer[call[c]] = {}
  BY Zenon DEF ClientInv, CallOK, InCall, Unanswered
<1>2. answer' = answer
  BY <1>1, Zenon DEF Return, ClientInv, TypeOK
<1>3. R!Fail(call[c])
  BY <1>1, <1>2, Zenon DEF R!Fail, Return
<1> QED
  BY <1>1, <1>3 DEF R!Next

\* Each step of the client, the wire and grout is a step of a call, or none.
LEMMA RpcStep == ClientInv /\ [Next]_vars => [R!Next]_(R!vars)
<1> SUFFICES ASSUME ClientInv, [Next]_vars PROVE [R!Next]_(R!vars)
  OBVIOUS
<1>1. ASSUME NEW c \in Callers, NEW t \in {"hello", "add", "list"}, Start(c, t) PROVE R!Next
  <2>1. PICK k \in Calls : R!Begin(k, t)
    BY <1>1, Zenon DEF Start, R!Begin
  <2> QED
    BY <2>1, Zenon DEF R!Next, R!Kinds
<1>2. ASSUME NEW c \in Callers, Dial(c) PROVE [R!Next]_(R!vars)
  BY <1>1, <1>2, Zenon DEF Dial, R!vars, callVars
<1>3. ASSUME NEW c \in Callers, NEW t \in {"add", "list"}, Call(c, t) PROVE R!Next
  BY <1>1, <1>3 DEF Call
<1>4. ASSUME NEW c \in Callers, Lock(c) PROVE [R!Next]_(R!vars)
  <2>1. UNCHANGED <<kind, status, answer, log>>
    BY <1>4, Zenon DEF Lock, callVars
  <2>2. garbled' = garbled \/ garbled' = TRUE
    BY <1>4, Zenon DEF Lock, ClientInv, TypeOK
  <2> QED
    BY <2>1, <2>2, Zenon DEF R!Next, R!Garble, R!vars
<1>5. ASSUME NEW c \in Callers, NEW p \in {"header", "payload"}, NEW n, Write(c, p, n) PROVE [R!Next]_(R!vars)
  <2>1. pc[c] \in InCall
    BY <1>5 DEF Write, InCall
  <2> QED
    BY <1>5, <2>1, FailRefines, Zenon DEF Write, R!vars, callVars
<1>t. ASSUME NEW c \in Callers, NEW f \in Replies, Take(c, f), pc[c] \in InCall,
             ~garbled => Reads(c, f)
      PROVE  [R!Next]_(R!vars)
  <2>1. CASE Accepts(c, f) /\ EndsCall(c, f) /\ Return(c, "ok", items[c] \union f.body)
    <3>1. call[c] \in Calls /\ status[call[c]] = "running"
      BY <1>t, Zenon DEF ClientInv, CallOK, InCall
    <3>2. items[c] \union f.body \in SUBSET Calls
      BY Zenon DEF ClientInv, TypeOK, Replies
    <3>3. \/ garbled
          \/ \E i \in DOMAIN log :
               log[i] = call[c] /\ items[c] \union f.body = R!Produces(call[c], SubSeq(log, 1, i - 1))
      BY <1>t, <2>1, SuccessIsExecution, Zenon DEF Product
    <3>4. R!Succeed(call[c], items[c] \union f.body)
      BY <2>1, <3>1, <3>3, Zenon DEF R!Succeed, Return
    <3> QED
      BY <3>1, <3>2, <3>4, Zenon DEF R!Next
  <2> QED
    BY <1>t, <2>1, FailRefines, Zenon DEF Take, R!vars, callVars
<1>6. ASSUME NEW c \in Callers, Read(c) PROVE [R!Next]_(R!vars)
  <2>1. PICK f \in TakenFor(Head(toClient)) : Take(c, f)
    BY <1>6, Zenon DEF Read
  <2>2. pc[c] \in InCall /\ Reads(c, f)
    BY <1>6, <2>1, Zenon DEF Read, Reads, InCall
  <2>3. f \in Replies
    BY <2>2, HeadFacts, Zenon
  <2> QED
    BY <1>t, <2>1, <2>2, <2>3, Zenon
<1>r. ASSUME NEW c \in Callers, ReadShort(c) \/ ReadRest(c) PROVE [R!Next]_(R!vars)
  <2>1. CASE ReadShort(c)
    BY <2>1, Zenon DEF ReadShort, R!vars, callVars
  <2>2. CASE ReadRest(c)
    <3>1. PICK f \in TakenFor(Junk) : Take(c, f)
      BY <2>2, Zenon DEF ReadRest
    <3>2. f \in Replies
      BY <3>1, JunkType, TakenForType, Zenon
    <3>3. pc[c] \in InCall /\ garbled
      BY <2>2, BodyGarbled, Zenon DEF ReadRest, InCall
    <3> QED
      BY <1>t, <3>1, <3>2, <3>3, Zenon
  <2> QED
    BY <1>r, <2>1, <2>2
<1>7. ASSUME NEW c \in Callers, ReadEOF(c) PROVE R!Next
  BY <1>7, FailRefines, Zenon DEF ReadEOF, InCall
<1>8. CASE Serve
  <2>1. Head(toGrout).call \in Calls /\ ~Logged(Head(toGrout).call) /\ status[Head(toGrout).call] # "unused"
    BY <1>8, ServeRequests, Zenon DEF Writes
  <2>2. CASE log' = Append(log, Head(toGrout).call)
    <3>1. garbled' \in {garbled, TRUE} /\ UNCHANGED <<kind, status, answer>>
      <4>1. garbled' = garbled \/ garbled' = TRUE
        BY <1>8, ServeShape, Zenon
      <4>2. UNCHANGED <<kind, status, answer>>
        BY <1>8, ServeShape
      <4> QED
        BY <4>1, <4>2, Zenon
    <3>2. \A i \in DOMAIN log : log[i] # Head(toGrout).call
      BY <2>1 DEF Logged
    <3>3. R!Execute(Head(toGrout).call)
      BY <2>1, <2>2, <3>1, <3>2, Zenon DEF R!Execute
    <3> QED
      BY <2>1, <3>3 DEF R!Next
  <2>3. CASE UNCHANGED <<log, garbled>>
    BY <1>8, <2>3, ServeShape, Zenon DEF R!vars
  <2> QED
    BY <1>8, <2>2, <2>3, ServeShape, Zenon
<1>9. CASE Hangup \/ Close \/ UNCHANGED vars
  BY <1>9 DEF Hangup, Close, vars, R!vars, callVars
<1> QED
  BY <1>2, <1>3, <1>4, <1>5, <1>6, <1>r, <1>7, <1>8, <1>9, ZenonT(60) DEF Next, Step

\* The client keeps the promise of module Rpc, however many calls share the
\* connection and however soon its ids come round: a call is executed at most once,
\* and as long as replies can be told apart, a call that returns success was executed
\* before it returned and returns what that execution produced.
THEOREM ClientImplementsRpc == Spec => ImplementsRpc
<1>1. Init => R!Init
  BY DEF Init
<1>2. ClientInv /\ [Next]_vars => [R!Next]_(R!vars)
  BY RpcStep
<1> QED
  BY <1>1, <1>2, ClientInvariant, PTL DEF Spec, ImplementsRpc, R!Spec
=============================================================================
