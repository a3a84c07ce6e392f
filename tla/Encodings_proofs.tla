-------------------------- MODULE Encodings_proofs ---------------------------
(***************************************************************************)
(* For any values of the constants: what client.go writes into the payload *)
(* of a request is what grout reads out of its structs, and what a list    *)
(* gives is what grout has.  First where the compiler puts the fields of   *)
(* each struct, then what is read from there, then the interfaces.         *)
(***************************************************************************)
EXTENDS IfaceApi, L3Api, WellFoundedInduction, TLAPS

\* A set of natural numbers has a least element.
LEMMA LeastElement ==
  ASSUME NEW S, S \subseteq Nat, S # {}
  PROVE  \E n \in S : \A m \in S : n <= m
<1>1. PICK n \in S : \A m \in S : ~(<<m, n>> \in OpToRel(<, Nat))
  BY WFMin, NatLessThanWellFounded, Zenon
<1>2. ASSUME NEW m \in S PROVE n <= m
  <2>1. ~(<<m, n>> \in {ss \in Nat \X Nat : ss[1] < ss[2]})
    BY <1>1 DEF OpToRel
  <2>2. m \in Nat /\ n \in Nat
    OBVIOUS
  <2> QED
    BY <2>1, <2>2
<1> QED
  BY <1>2

\* What the least element is.
LEMMA MinIsLeast ==
  ASSUME NEW S, S \subseteq Nat, S # {}
  PROVE  Min(S) \in S /\ \A m \in S : Min(S) <= m
BY LeastElement, Zenon DEF Min

\* Induction up to n, for a set of numbers.
LEMMA UpTo ==
  ASSUME NEW n \in Nat, NEW Q, 0 \in Q, \A i \in 1..n : i - 1 \in Q => i \in Q
  PROVE  \A i \in 0..n : i \in Q
<1> DEFINE Bad == {i \in 0..n : i \notin Q}
<1>1. SUFFICES ASSUME Bad # {} PROVE FALSE
  OBVIOUS
<1>2. PICK k \in Bad : \A m \in Bad : k <= m
  <2>1. Bad \subseteq Nat
    OBVIOUS
  <2> HIDE DEF Bad
  <2> QED
    BY <1>1, <2>1, LeastElement, Zenon
<1>3. k \in 1..n /\ k \notin Q
  OBVIOUS
<1>4. k - 1 \in Q
  BY <1>2, <1>3
<1> QED
  BY <1>3, <1>4

\* A loop of n rounds: it starts with c, round i makes F[i] of what it has.
IsRun(g, S, c, n, F) ==
  g \in [0..n -> S] /\ g[0] = c /\ \A i \in 1..n : g[i] = F[i][g[i - 1]]

\* The values that such a loop goes through exist.
LEMMA LoopExists ==
  ASSUME NEW S, NEW c \in S, NEW n \in Nat, NEW F \in [1..n -> [S -> S]]
  PROVE  \E g : IsRun(g, S, c, n, F)
<1> DEFINE Run(k) == \E g : IsRun(g, S, c, k, F)
<1>1. Run(0)
  <2> DEFINE g == [i \in 0..0 |-> c]
  <2>1. IsRun(g, S, c, 0, F)
    BY DEF IsRun
  <2> QED
    BY <2>1
<1>2. ASSUME NEW k \in 1..n, Run(k - 1) PROVE Run(k)
  <2>1. PICK g : IsRun(g, S, c, k - 1, F)
    BY <1>2
  <2> DEFINE h == [i \in 0..k |-> IF i < k THEN g[i] ELSE F[k][g[k - 1]]]
  <2>2. h \in [0..k -> S]
    <3>1. g \in [0..(k - 1) -> S] /\ g[k - 1] \in S
      BY <2>1 DEF IsRun
    <3>2. F[k][g[k - 1]] \in S
      BY <3>1
    <3> QED
      BY <3>1, <3>2
  <2>3. h[0] = c
    BY <2>1 DEF IsRun
  <2>4. ASSUME NEW i \in 1..k PROVE h[i] = F[i][h[i - 1]]
    <3>1. h[i - 1] = g[i - 1]
      OBVIOUS
    <3>2. i # k => h[i] = F[i][g[i - 1]]
      BY <2>1 DEF IsRun
    <3>3. i = k => h[i] = F[i][g[i - 1]]
      OBVIOUS
    <3> QED
      BY <3>1, <3>2, <3>3
  <2>5. IsRun(h, S, c, k, F)
    BY <2>2, <2>3, <2>4, Zenon DEF IsRun
  <2> QED
    BY <2>5
<1>3. Run(n)
  <2> DEFINE Q == {k \in 0..n : Run(k)}
  <2> HIDE DEF Run
  <2>1. 0 \in Q /\ \A k \in 1..n : k - 1 \in Q => k \in Q
    BY <1>1, <1>2
  <2>2. \A k \in 0..n : k \in Q
    <3> HIDE DEF Q
    <3> QED
      BY <2>1, UpTo, Zenon
  <2> QED
    BY <2>2
<1> QED
  BY <1>3

-----------------------------------------------------------------------------
\* A sequence, as a function.
IsSeq(s) == Len(s) \in Nat /\ s = [i \in 1..Len(s) |-> s[i]]

\* The members of a struct are numbers of bytes with an alignment.
Members(s) ==
  IsSeq(s) /\ Len(s) # 0 /\ \A i \in 1..Len(s) : s[i].size \in Nat /\ s[i].align \in Nat \ {0}

\* A rounded number is a number.
LEMMA Rounding ==
  ASSUME NEW n \in Nat, NEW a \in Nat \ {0}
  PROVE  RoundUp(n, a) \in Nat
<1>1. n + a - 1 \in Nat
  OBVIOUS
<1>2. (n + a - 1) \div a \in Nat
  BY <1>1
<1> QED
  BY <1>2 DEF RoundUp

\* Each member follows the one before it.
LEMMA OffsetsStep ==
  ASSUME NEW s, Members(s)
  PROVE  /\ Offsets(s) \in [1..Len(s) -> Nat] /\ Offsets(s)[1] = 0
         /\ \A i, j \in 1..Len(s) : j = i + 1 => Offsets(s)[j] = RoundUp(Offsets(s)[i] + s[i].size, s[j].align)
<1> DEFINE n == Len(s)
           Step(g) == [i \in DOMAIN s |->
                         IF i = 1 THEN 0 ELSE RoundUp(g[i - 1] + s[i - 1].size, s[i].align)]
           F == [i \in 1..(n - 1) |-> [x \in Nat |-> RoundUp(x + s[i].size, s[i + 1].align)]]
           m == n - 1
<1>0. /\ n \in Nat \ {0} /\ DOMAIN s = 1..n /\ m \in Nat /\ n = m + 1
      /\ \A i \in 1..n : s[i].size \in Nat /\ s[i].align \in Nat \ {0}
  BY DEF Members, IsSeq
<1> HIDE DEF n
<1>1. \A x \in Nat, i \in 1..m : RoundUp(x + s[i].size, s[i + 1].align) \in Nat
  <2> SUFFICES ASSUME NEW x \in Nat, NEW i \in 1..m
               PROVE  RoundUp(x + s[i].size, s[i + 1].align) \in Nat
    OBVIOUS
  <2>1. i \in 1..n /\ i + 1 \in 1..n
    BY <1>0
  <2>2. x + s[i].size \in Nat /\ s[i + 1].align \in Nat \ {0}
    BY <1>0, <2>1
  <2> QED
    BY <2>2, Rounding
<1>2. PICK h : IsRun(h, Nat, 0, m, F)
  <2>1. F \in [1..m -> [Nat -> Nat]] /\ 0 \in Nat
    BY <1>1
  <2> HIDE DEF F, m
  <2> QED
    BY <1>0, <2>1, LoopExists, Zenon
<1>3. h \in [0..m -> Nat] /\ h[0] = 0 /\ \A i \in 1..m : h[i] = F[i][h[i - 1]]
  BY <1>2 DEF IsRun
<1>4. ASSUME NEW i \in 1..m PROVE h[i] = RoundUp(h[i - 1] + s[i].size, s[i + 1].align)
  <2>1. h[i - 1] \in Nat
    BY <1>0, <1>3
  <2> QED
    BY <1>3, <2>1, Zenon
<1> DEFINE g == [i \in 1..n |-> h[i - 1]]
<1>5. g = Step(g)
  <2>1. ASSUME NEW i \in 1..n PROVE g[i] = Step(g)[i]
    <3>1. CASE i = 1
      BY <1>0, <1>3, <3>1
    <3>2. CASE i # 1
      <4>1. i - 1 \in 1..m /\ i - 1 \in 1..n /\ (i - 1) + 1 = i
        BY <1>0, <3>2
      <4>2. h[i - 1] = RoundUp(h[(i - 1) - 1] + s[i - 1].size, s[(i - 1) + 1].align)
        BY <1>4, <4>1
      <4>3. g[i] = h[i - 1] /\ g[i - 1] = h[(i - 1) - 1]
        BY <4>1
      <4> QED
        BY <1>0, <3>2, <4>1, <4>2, <4>3
    <3> QED
      BY <3>1, <3>2
  <2> QED
    BY <1>0, <2>1
<1> DEFINE off == Offsets(s)
<1>6. off = Step(off)
  <2>1. off = CHOOSE x : x = Step(x)
    BY DEF Offsets
  <2> HIDE DEF Step, off, g
  <2> QED
    BY <1>5, <2>1
<1> HIDE DEF off
<1>7. /\ DOMAIN off = 1..n /\ off = [i \in 1..n |-> off[i]] /\ off[1] = 0
      /\ \A i \in 2..n : off[i] = RoundUp(off[i - 1] + s[i - 1].size, s[i].align)
  BY <1>0, <1>6
<1>8. \A i \in 1..n : off[i] \in Nat
  <2> DEFINE Q == {i \in 0..m : off[i + 1] \in Nat}
  <2>1. 0 \in Q
    BY <1>0, <1>7
  <2>2. ASSUME NEW i \in 1..m, i - 1 \in Q PROVE i \in Q
    <3>1. off[i] \in Nat /\ i + 1 \in 2..n /\ (i + 1) - 1 = i
      BY <1>0, <2>2
    <3>2. off[i + 1] = RoundUp(off[i] + s[i].size, s[i + 1].align)
      BY <1>7, <3>1, Zenon
    <3> QED
      BY <1>1, <3>1, <3>2
  <2>3. \A i \in 0..m : i \in Q
    <3> HIDE DEF Q, m
    <3> QED
      BY <1>0, <2>1, <2>2, UpTo, Zenon
  <2>4. ASSUME NEW i \in 1..n PROVE off[i] \in Nat
    <3>1. i - 1 \in 0..m /\ (i - 1) + 1 = i
      BY <1>0
    <3> QED
      BY <2>3, <3>1
  <2> QED
    BY <2>4
<1>9. ASSUME NEW i \in 1..n, NEW j \in 1..n, j = i + 1
      PROVE  off[j] = RoundUp(off[i] + s[i].size, s[j].align)
  <2>1. j \in 2..n /\ j - 1 = i
    BY <1>0, <1>9
  <2> QED
    BY <1>7, <2>1, Zenon
<1> QED
  BY <1>7, <1>8, <1>9 DEF off, n

\* Two sequences one after the other.
LEMMA Cat ==
  ASSUME NEW s, NEW t, IsSeq(s), IsSeq(t)
  PROVE  s \o t = [i \in 1..(Len(s) + Len(t)) |-> IF i <= Len(s) THEN s[i] ELSE t[i - Len(s)]]
<1> DEFINE n == Len(s)
           m == Len(t)
           S == {s[i] : i \in 1..n} \union {t[i] : i \in 1..m}
<1>0. s \in [1..n -> S] /\ t \in [1..m -> S] /\ n \in Nat /\ m \in Nat
  BY DEF IsSeq
<1> HIDE DEF S
<1>1. s \in Seq(S) /\ t \in Seq(S)
  BY <1>0
<1>2. DOMAIN (s \o t) = 1..(n + m)
  BY <1>1
<1>3. \A i \in 1..(n + m) : (s \o t)[i] = IF i <= n THEN s[i] ELSE t[i - n]
  BY <1>0, <1>1
<1>4. s \o t = [i \in DOMAIN (s \o t) |-> (s \o t)[i]]
  <2> DEFINE u == s \o t
  <2>1. u \in Seq(S)
    BY <1>1
  <2> HIDE DEF u
  <2>2. u = [i \in DOMAIN u |-> u[i]]
    BY <2>1
  <2> QED
    BY <2>2, Zenon DEF u
<1> QED
  BY <1>2, <1>3, <1>4, Zenon

\* A struct as a part of another one.
LEMMA StructIs ==
  ASSUME NEW s, Members(s)
  PROVE  Struct(s) = [i \in 1..(Len(s) + 1) |->
           IF i = Len(s) + 1 THEN Bytes("pad", SizeOf(s) - End(s))
           ELSE IF i = 1 THEN [s[1] EXCEPT !.align = AlignOf(s)] ELSE s[i]]
<1> DEFINE a == [s EXCEPT ![1].align = AlignOf(s)]
           b == <<Bytes("pad", SizeOf(s) - End(s))>>
<1>1. Len(s) \in Nat \ {0} /\ s = [i \in 1..Len(s) |-> s[i]]
  BY DEF Members, IsSeq
<1>2. a = [i \in 1..Len(s) |-> IF i = 1 THEN [s[1] EXCEPT !.align = AlignOf(s)] ELSE s[i]]
  BY <1>1, Zenon
<1>3. Len(a) = Len(s) /\ IsSeq(a)
  BY <1>1, <1>2 DEF IsSeq
<1>4. Len(b) = 1 /\ IsSeq(b) /\ b[1] = Bytes("pad", SizeOf(s) - End(s))
  BY DEF IsSeq
<1>5. Struct(s) = a \o b
  BY Zenon DEF Struct
<1> HIDE DEF a, b
<1>6. a \o b = [i \in 1..(Len(a) + Len(b)) |-> IF i <= Len(a) THEN a[i] ELSE b[i - Len(a)]]
  BY <1>3, <1>4, Cat, Zenon
<1> QED
  BY <1>1, <1>2, <1>3, <1>4, <1>5, <1>6

\* off are the offsets of the members of s, and al is the largest alignment.
Laid(s, off, al) ==
  /\ Members(s)
  /\ off \in [1..Len(s) -> Nat] /\ off[1] = 0
  /\ \A i, j \in 1..Len(s) : j = i + 1 => off[j] = RoundUp(off[i] + s[i].size, s[j].align)
  /\ al \in {s[i].align : i \in 1..Len(s)}
  /\ \A i \in 1..Len(s) : s[i].align <= al

\* Such offsets are the ones that the compiler chooses.
LEMMA LaidOut ==
  ASSUME NEW s, NEW off, NEW al, Laid(s, off, al)
  PROVE  /\ Offsets(s) = off /\ AlignOf(s) = al
         /\ End(s) = off[Len(s)] + s[Len(s)].size
<1> DEFINE o == Offsets(s)
           n == Len(s)
           Q == {i \in 0..n : i = 0 \/ o[i] = off[i]}
<1>0. /\ Members(s) /\ n \in Nat \ {0} /\ DOMAIN s = 1..n
      /\ \A i \in 1..n : s[i].size \in Nat /\ s[i].align \in Nat \ {0}
      /\ off \in [1..n -> Nat] /\ off[1] = 0
      /\ \A i, j \in 1..n : j = i + 1 => off[j] = RoundUp(off[i] + s[i].size, s[j].align)
  BY DEF Laid, Members, IsSeq
<1>1. /\ o \in [1..n -> Nat] /\ o[1] = 0
      /\ \A i, j \in 1..n : j = i + 1 => o[j] = RoundUp(o[i] + s[i].size, s[j].align)
  BY <1>0, OffsetsStep, Zenon
<1> HIDE DEF o
<1>2. ASSUME NEW i \in 1..n, i - 1 \in Q PROVE i \in Q
  <2>1. CASE i = 1
    BY <2>1, <1>0, <1>1
  <2>2. CASE i # 1
    <3> DEFINE k == i - 1
    <3>1. k \in 1..n /\ i = k + 1 /\ o[k] = off[k]
      BY <1>0, <1>2, <2>2
    <3> HIDE DEF k
    <3>2. o[i] = RoundUp(o[k] + s[k].size, s[i].align) /\ off[i] = RoundUp(off[k] + s[k].size, s[i].align)
      BY <1>0, <1>1, <3>1, Zenon
    <3> QED
      BY <3>1, <3>2
  <2> QED
    BY <2>1, <2>2
<1>3. 0 \in Q
  BY <1>0
<1>4. \A i \in 0..n : i \in Q
  <2> HIDE DEF Q, n
  <2> QED
    BY <1>0, <1>2, <1>3, UpTo, Zenon
<1>5. o = off
  BY <1>0, <1>1, <1>4
<1>6. AlignOf(s) = al
  <2> DEFINE A == {s[i].align : i \in 1..n}
  <2>1. A \subseteq Nat /\ al \in A /\ \A a \in A : a <= al
    BY <1>0 DEF Laid
  <2>2. AlignOf(s) = Max(A)
    BY <1>0, Zenon DEF AlignOf
  <2> HIDE DEF A
  <2>3. Max(A) \in A /\ \A a \in A : Max(A) >= a
    <3>1. \E x \in A : \A a \in A : x >= a
      BY <2>1
    <3> QED
      BY <3>1, Zenon DEF Max
  <2> DEFINE m == Max(A)
  <2>4. m \in A /\ \A a \in A : m >= a
    BY <2>3
  <2> HIDE DEF m
  <2>5. m = al
    BY <2>1, <2>4
  <2> QED
    BY <2>2, <2>5 DEF m
<1> QED
  BY <1>5, <1>6 DEF End, o

\* The last member of s ends at e.
EndsAt(s, off, e) == e = off[Len(s)] + s[Len(s)].size

\* t is s as a part of another struct.
PaddedTo(s, al, e, t) ==
  /\ IsSeq(t) /\ Len(t) = Len(s) + 1
  /\ t[1] = [s[1] EXCEPT !.align = al]
  /\ \A i \in 2..Len(s) : t[i] = s[i]
  /\ t[Len(t)] = Bytes("pad", RoundUp(e, al) - e)

\* A struct as a part of another one, from where its members are.
LEMMA StructAs ==
  ASSUME NEW s, NEW off, NEW al, NEW e, NEW t,
         Laid(s, off, al), EndsAt(s, off, e), PaddedTo(s, al, e, t)
  PROVE  Struct(s) = t
<1>1. Members(s) /\ IsSeq(s)
  BY Zenon DEF Laid, Members
<1>2. AlignOf(s) = al /\ End(s) = e /\ SizeOf(s) = RoundUp(e, al)
  BY LaidOut, Zenon DEF SizeOf, EndsAt
<1>3. Struct(s) = [i \in 1..(Len(s) + 1) |->
           IF i = Len(s) + 1 THEN Bytes("pad", SizeOf(s) - End(s))
           ELSE IF i = 1 THEN [s[1] EXCEPT !.align = AlignOf(s)] ELSE s[i]]
  BY <1>1, StructIs, Zenon
<1>4. Struct(s) = [i \in 1..(Len(s) + 1) |->
           IF i = Len(s) + 1 THEN Bytes("pad", RoundUp(e, al) - e)
           ELSE IF i = 1 THEN [s[1] EXCEPT !.align = al] ELSE s[i]]
  BY <1>2, <1>3, Zenon
<1> QED
  BY <1>1, <1>4 DEF IsSeq, PaddedTo

\* u is s with t behind it.
Follow(s, t, u) ==
  /\ IsSeq(s) /\ IsSeq(t) /\ IsSeq(u) /\ Len(u) = Len(s) + Len(t)
  /\ \A i \in 1..Len(s) : u[i] = s[i]
  /\ \A i \in 1..Len(t) : u[Len(s) + i] = t[i]

\* Then u is their concatenation.
LEMMA CatAs ==
  ASSUME NEW s, NEW t, NEW u, Follow(s, t, u)
  PROVE  s \o t = u
<1> USE DEF Follow
<1>1. s \o t = [i \in 1..(Len(s) + Len(t)) |-> IF i <= Len(s) THEN s[i] ELSE t[i - Len(s)]]
  BY Cat, Zenon
<1>2. Len(s) \in Nat /\ Len(t) \in Nat /\ u = [i \in 1..Len(u) |-> u[i]]
  BY DEF IsSeq
<1>3. \A i \in 1..Len(u) : u[i] = IF i <= Len(s) THEN s[i] ELSE t[i - Len(s)]
  <2> SUFFICES ASSUME NEW i \in 1..Len(u), i > Len(s) PROVE u[i] = t[i - Len(s)]
    BY <1>2
  <2> DEFINE k == i - Len(s)
  <2>1. k \in 1..Len(t) /\ i = Len(s) + k
    BY <1>2
  <2> QED
    BY <2>1
<1> QED
  BY <1>1, <1>2, <1>3

\* Where idx says that the fields of s are.
Indexed(s, idx) ==
  /\ \A f \in DOMAIN idx : idx[f] \in 1..Len(s) /\ s[idx[f]].f = f /\ f # "pad"
  /\ \A i \in 1..Len(s) : s[i].f # "pad" => s[i].f \in DOMAIN idx /\ idx[s[i].f] = i

\* The fields that idx names, with their offsets and sizes.
FieldsAt(s, off, idx) == [f \in DOMAIN idx |-> [off |-> off[idx[f]], size |-> s[idx[f]].size]]

\* The layout of a struct, from the offsets and the indices of its fields.
LEMMA LayoutAs ==
  ASSUME NEW s, NEW off, NEW al, Laid(s, off, al), NEW idx, Indexed(s, idx),
         NEW e, EndsAt(s, off, e)
  PROVE  /\ Layout(s).size = RoundUp(e, al)
         /\ Layout(s).at = FieldsAt(s, off, idx)
<1>1. AlignOf(s) = al /\ End(s) = e /\ SizeOf(s) = RoundUp(e, al) /\ Offsets(s) = off
  BY LaidOut, Zenon DEF SizeOf, EndsAt
<1>2. DOMAIN s = 1..Len(s)
  BY DEF Laid, Members, IsSeq
<1>3. {s[i].f : i \in DOMAIN s} \ {"pad"} = DOMAIN idx
  <2>1. ASSUME NEW i \in DOMAIN s, s[i].f # "pad" PROVE s[i].f \in DOMAIN idx
    BY <1>2, <2>1, Zenon DEF Indexed
  <2>2. ASSUME NEW f \in DOMAIN idx PROVE \E i \in DOMAIN s : s[i].f = f /\ f # "pad"
    BY <1>2, Zenon DEF Indexed
  <2> QED
    BY <2>1, <2>2, Zenon
<1>4. ASSUME NEW f \in DOMAIN idx PROVE (CHOOSE j \in DOMAIN s : s[j].f = f) = idx[f]
  <2>1. idx[f] \in DOMAIN s /\ s[idx[f]].f = f /\ f # "pad"
    BY <1>2 DEF Indexed
  <2>2. \A j \in DOMAIN s : s[j].f = f => j = idx[f]
    BY <1>2, <2>1 DEF Indexed
  <2> QED
    BY <2>1, <2>2
<1>5. Layout(s).size = SizeOf(s)
  BY DEF Layout
<1>6. Layout(s).at = [f \in {s[i].f : i \in DOMAIN s} \ {"pad"} |->
             LET i == CHOOSE j \in DOMAIN s : s[j].f = f
             IN [off |-> Offsets(s)[i], size |-> s[i].size]]
  BY DEF Layout
<1>7. Layout(s).at = [f \in DOMAIN idx |->
             [off |-> off[CHOOSE j \in DOMAIN s : s[j].f = f],
              size |-> s[CHOOSE j \in DOMAIN s : s[j].f = f].size]]
  BY <1>1, <1>3, <1>6, Zenon
<1> QED
  BY <1>1, <1>4, <1>5, <1>7, Zenon DEF FieldsAt

-----------------------------------------------------------------------------
\* A field of n bytes at o.
Field(o, n) == [off |-> o, size |-> n]

\* The members of the head of gr_iface.
HeadArg ==
  <<U16("id"), U8("type"), Bytes("pad", 1), U16("flags"), Bytes("pad", 2), U16("mtu"),
    Bytes("pad", 2), U16("domain"), Bytes("pad", 6)>>

\* The offsets of the head of gr_iface.
LEMMA HeadArgLaid ==
  Laid(HeadArg, <<0, 2, 3, 4, 6, 8, 10, 12, 14>>, 2)
BY DEF Laid, Members, IsSeq, RoundUp, HeadArg, U8, U16, U32, Bytes, Member

\* The same as a part of another struct.
HeadSeq ==
  <<U16("id"), U8("type"), Bytes("pad", 1), U16("flags"), Bytes("pad", 2), U16("mtu"),
    Bytes("pad", 2), U16("domain"), Bytes("pad", 6), Bytes("pad", 0)>>

\* The head of gr_iface is laid out as a part of another struct.
LEMMA HeadSeqStruct == Struct(HeadArg) = HeadSeq
<1>1. EndsAt(HeadArg, <<0, 2, 3, 4, 6, 8, 10, 12, 14>>, 20) /\ PaddedTo(HeadArg, 2, 20, HeadSeq)
  BY DEF EndsAt, PaddedTo, IsSeq, RoundUp, HeadArg, HeadSeq, U8, U16, U32, Bytes, Member
<1> QED
  BY <1>1, HeadArgLaid, StructAs, Zenon

\* The rest of gr_iface.
NameSeq ==
  <<Bytes("name", 16), Bytes("description", 256)>>

\* The members of gr_iface.
IfaceSeq ==
  <<U16("id"), U8("type"), Bytes("pad", 1), U16("flags"), Bytes("pad", 2), U16("mtu"),
    Bytes("pad", 2), U16("domain"), Bytes("pad", 6), Bytes("pad", 0), Bytes("name", 16),
    Bytes("description", 256)>>

\* gr_iface is made up of its parts.
LEMMA IfaceSeqIs == HeadSeq \o NameSeq = IfaceSeq
<1>1. Follow(HeadSeq, NameSeq, IfaceSeq)
  BY DEF Follow, IsSeq, HeadSeq, NameSeq, IfaceSeq
<1> QED
  BY <1>1, CatAs, Zenon

\* The members of port_info.
PortArg ==
  <<Bytes("pad", 14), Bytes("devargs", 128), Bytes("driver", 32)>>

\* The offsets of port_info.
LEMMA PortArgLaid ==
  Laid(PortArg, <<0, 14, 142>>, 1)
BY DEF Laid, Members, IsSeq, RoundUp, PortArg, U8, U16, U32, Bytes, Member

\* The same as a part of another struct.
PortSeq ==
  <<Bytes("pad", 14), Bytes("devargs", 128), Bytes("driver", 32), Bytes("pad", 0)>>

\* port_info is laid out as a part of another struct.
LEMMA PortSeqStruct == Struct(PortArg) = PortSeq
<1>1. EndsAt(PortArg, <<0, 14, 142>>, 174) /\ PaddedTo(PortArg, 1, 174, PortSeq)
  BY DEF EndsAt, PaddedTo, IsSeq, RoundUp, PortArg, PortSeq, U8, U16, U32, Bytes, Member
<1> QED
  BY <1>1, PortArgLaid, StructAs, Zenon

\* The members of gr_iface and a port_info.
IfacePortSeq ==
  <<U16("id"), U8("type"), Bytes("pad", 1), U16("flags"), Bytes("pad", 2), U16("mtu"),
    Bytes("pad", 2), U16("domain"), Bytes("pad", 6), Bytes("pad", 0), Bytes("name", 16),
    Bytes("description", 256), Bytes("pad", 14), Bytes("devargs", 128), Bytes("driver", 32),
    Bytes("pad", 0)>>

\* gr_iface and a port_info is made up of its parts.
LEMMA IfacePortSeqIs == IfaceSeq \o PortSeq = IfacePortSeq
<1>1. Follow(IfaceSeq, PortSeq, IfacePortSeq)
  BY DEF Follow, IsSeq, IfaceSeq, PortSeq, IfacePortSeq
<1> QED
  BY <1>1, CatAs, Zenon

\* The members of bridge_info.
BridgeArg ==
  <<U16("ageing"), U16("bflags"), Bytes("mac", 6), U16("members"), Bytes("pad", 128)>>

\* The offsets of bridge_info.
LEMMA BridgeArgLaid ==
  Laid(BridgeArg, <<0, 2, 4, 10, 12>>, 2)
BY DEF Laid, Members, IsSeq, RoundUp, BridgeArg, U8, U16, U32, Bytes, Member

\* The same as a part of another struct.
BridgeSeq ==
  <<U16("ageing"), U16("bflags"), Bytes("mac", 6), U16("members"), Bytes("pad", 128),
    Bytes("pad", 0)>>

\* bridge_info is laid out as a part of another struct.
LEMMA BridgeSeqStruct == Struct(BridgeArg) = BridgeSeq
<1>1. EndsAt(BridgeArg, <<0, 2, 4, 10, 12>>, 140) /\ PaddedTo(BridgeArg, 2, 140, BridgeSeq)
  BY DEF EndsAt, PaddedTo, IsSeq, RoundUp, BridgeArg, BridgeSeq, U8, U16, U32, Bytes, Member
<1> QED
  BY <1>1, BridgeArgLaid, StructAs, Zenon

\* The members of gr_iface and a bridge_info.
IfaceBridgeSeq ==
  <<U16("id"), U8("type"), Bytes("pad", 1), U16("flags"), Bytes("pad", 2), U16("mtu"),
    Bytes("pad", 2), U16("domain"), Bytes("pad", 6), Bytes("pad", 0), Bytes("name", 16),
    Bytes("description", 256), U16("ageing"), U16("bflags"), Bytes("mac", 6), U16("members"),
    Bytes("pad", 128), Bytes("pad", 0)>>

\* gr_iface and a bridge_info is made up of its parts.
LEMMA IfaceBridgeSeqIs == IfaceSeq \o BridgeSeq = IfaceBridgeSeq
<1>1. Follow(IfaceSeq, BridgeSeq, IfaceBridgeSeq)
  BY DEF Follow, IsSeq, IfaceSeq, BridgeSeq, IfaceBridgeSeq
<1> QED
  BY <1>1, CatAs, Zenon

\* The members of the address of a VTEP.
VtepArg ==
  <<U8("af"), U32("local"), Bytes("pad", 12)>>

\* The offsets of the address of a VTEP.
LEMMA VtepArgLaid ==
  Laid(VtepArg, <<0, 4, 8>>, 4)
BY DEF Laid, Members, IsSeq, RoundUp, VtepArg, U8, U16, U32, Bytes, Member

\* The same as a part of another struct.
VtepSeq ==
  <<Member("af", 1, 4), U32("local"), Bytes("pad", 12), Bytes("pad", 0)>>

\* The address of a VTEP is laid out as a part of another struct.
LEMMA VtepSeqStruct == Struct(VtepArg) = VtepSeq
<1>1. EndsAt(VtepArg, <<0, 4, 8>>, 20) /\ PaddedTo(VtepArg, 4, 20, VtepSeq)
  BY DEF EndsAt, PaddedTo, IsSeq, RoundUp, VtepArg, VtepSeq, U8, U16, U32, Bytes, Member
<1> QED
  BY <1>1, VtepArgLaid, StructAs, Zenon

\* The start of vxlan_info.
VniSeq ==
  <<U32("vni"), U16("encap_vrf"), U16("dst_port")>>

\* The members of vxlan_info up to its MAC.
TunnelSeq ==
  <<U32("vni"), U16("encap_vrf"), U16("dst_port"), Member("af", 1, 4), U32("local"),
    Bytes("pad", 12), Bytes("pad", 0)>>

\* vxlan_info up to its MAC is made up of its parts.
LEMMA TunnelSeqIs == VniSeq \o VtepSeq = TunnelSeq
<1>1. Follow(VniSeq, VtepSeq, TunnelSeq)
  BY DEF Follow, IsSeq, VniSeq, VtepSeq, TunnelSeq
<1> QED
  BY <1>1, CatAs, Zenon

\* The end of vxlan_info.
MacSeq ==
  <<Bytes("mac", 6)>>

\* The members of vxlan_info.
VxlanArg ==
  <<U32("vni"), U16("encap_vrf"), U16("dst_port"), Member("af", 1, 4), U32("local"),
    Bytes("pad", 12), Bytes("pad", 0), Bytes("mac", 6)>>

\* vxlan_info is made up of its parts.
LEMMA VxlanArgIs == TunnelSeq \o MacSeq = VxlanArg
<1>1. Follow(TunnelSeq, MacSeq, VxlanArg)
  BY DEF Follow, IsSeq, TunnelSeq, MacSeq, VxlanArg
<1> QED
  BY <1>1, CatAs, Zenon

\* The offsets of vxlan_info.
LEMMA VxlanArgLaid ==
  Laid(VxlanArg, <<0, 4, 6, 8, 12, 16, 28, 28>>, 4)
BY DEF Laid, Members, IsSeq, RoundUp, VxlanArg, U8, U16, U32, Bytes, Member

\* The same as a part of another struct.
VxlanSeq ==
  <<U32("vni"), U16("encap_vrf"), U16("dst_port"), Member("af", 1, 4), U32("local"),
    Bytes("pad", 12), Bytes("pad", 0), Bytes("mac", 6), Bytes("pad", 2)>>

\* vxlan_info is laid out as a part of another struct.
LEMMA VxlanSeqStruct == Struct(VxlanArg) = VxlanSeq
<1>1. EndsAt(VxlanArg, <<0, 4, 6, 8, 12, 16, 28, 28>>, 34) /\ PaddedTo(VxlanArg, 4, 34, VxlanSeq)
  BY DEF EndsAt, PaddedTo, IsSeq, RoundUp, VxlanArg, VxlanSeq, U8, U16, U32, Bytes, Member
<1> QED
  BY <1>1, VxlanArgLaid, StructAs, Zenon

\* The members of gr_iface and a vxlan_info.
IfaceVxlanSeq ==
  <<U16("id"), U8("type"), Bytes("pad", 1), U16("flags"), Bytes("pad", 2), U16("mtu"),
    Bytes("pad", 2), U16("domain"), Bytes("pad", 6), Bytes("pad", 0), Bytes("name", 16),
    Bytes("description", 256), U32("vni"), U16("encap_vrf"), U16("dst_port"), Member("af", 1, 4),
    U32("local"), Bytes("pad", 12), Bytes("pad", 0), Bytes("mac", 6), Bytes("pad", 2)>>

\* gr_iface and a vxlan_info is made up of its parts.
LEMMA IfaceVxlanSeqIs == IfaceSeq \o VxlanSeq = IfaceVxlanSeq
<1>1. Follow(IfaceSeq, VxlanSeq, IfaceVxlanSeq)
  BY DEF Follow, IsSeq, IfaceSeq, VxlanSeq, IfaceVxlanSeq
<1> QED
  BY <1>1, CatAs, Zenon

\* The offsets of gr_iface.
LEMMA IfaceSeqLaid ==
  Laid(IfaceSeq, <<0, 2, 3, 4, 6, 8, 10, 12, 14, 20, 20, 36>>, 2)
BY DEF Laid, Members, IsSeq, RoundUp, IfaceSeq, U8, U16, U32, Bytes, Member

\* The compiler puts the fields of gr_iface there.
LEMMA IfaceSeqLayout ==
  /\ Layout(IfaceSeq).size = 292
  /\ Layout(IfaceSeq).at =
           [id |-> Field(0, 2), type |-> Field(2, 1), flags |-> Field(4, 2), mtu |-> Field(8, 2),
            domain |-> Field(12, 2), name |-> Field(20, 16), description |-> Field(36, 256)]
<1> DEFINE off == <<0, 2, 3, 4, 6, 8, 10, 12, 14, 20, 20, 36>>
           al == 2
           e == 292
           idx == [id |-> 1, type |-> 2, flags |-> 4, mtu |-> 6, domain |-> 8, name |-> 11,
                   description |-> 12]
<1>1. Indexed(IfaceSeq, idx) /\ EndsAt(IfaceSeq, off, e)
  BY DEF Indexed, EndsAt, IfaceSeq, U8, U16, U32, Bytes, Member
<1>2. RoundUp(e, al) = 292
  BY DEF RoundUp
<1>3. FieldsAt(IfaceSeq, off, idx) =
           [id |-> Field(0, 2), type |-> Field(2, 1), flags |-> Field(4, 2), mtu |-> Field(8, 2),
            domain |-> Field(12, 2), name |-> Field(20, 16), description |-> Field(36, 256)]
  BY DEF FieldsAt, Field, IfaceSeq, U8, U16, U32, Bytes, Member
<1>4. Laid(IfaceSeq, off, al)
  BY IfaceSeqLaid, Zenon
<1> HIDE DEF off, al, e, idx
<1>5. /\ Layout(IfaceSeq).size = RoundUp(e, al)
      /\ Layout(IfaceSeq).at = FieldsAt(IfaceSeq, off, idx)
  BY <1>1, <1>4, LayoutAs, Zenon
<1> QED
  BY <1>2, <1>3, <1>5, Zenon

\* The offsets of gr_iface and a port_info.
LEMMA IfacePortSeqLaid ==
  Laid(IfacePortSeq, <<0, 2, 3, 4, 6, 8, 10, 12, 14, 20, 20, 36, 292, 306, 434, 466>>, 2)
BY DEF Laid, Members, IsSeq, RoundUp, IfacePortSeq, U8, U16, U32, Bytes, Member

\* The compiler puts the fields of gr_iface and a port_info there.
LEMMA IfacePortSeqLayout ==
  /\ Layout(IfacePortSeq).size = 466
  /\ Layout(IfacePortSeq).at =
           [id |-> Field(0, 2), type |-> Field(2, 1), flags |-> Field(4, 2), mtu |-> Field(8, 2),
            domain |-> Field(12, 2), name |-> Field(20, 16), description |-> Field(36, 256),
            devargs |-> Field(306, 128), driver |-> Field(434, 32)]
<1> DEFINE off == <<0, 2, 3, 4, 6, 8, 10, 12, 14, 20, 20, 36, 292, 306, 434, 466>>
           al == 2
           e == 466
           idx == [id |-> 1, type |-> 2, flags |-> 4, mtu |-> 6, domain |-> 8, name |-> 11,
                   description |-> 12, devargs |-> 14, driver |-> 15]
<1>1. Indexed(IfacePortSeq, idx) /\ EndsAt(IfacePortSeq, off, e)
  BY DEF Indexed, EndsAt, IfacePortSeq, U8, U16, U32, Bytes, Member
<1>2. RoundUp(e, al) = 466
  BY DEF RoundUp
<1>3. FieldsAt(IfacePortSeq, off, idx) =
           [id |-> Field(0, 2), type |-> Field(2, 1), flags |-> Field(4, 2), mtu |-> Field(8, 2),
            domain |-> Field(12, 2), name |-> Field(20, 16), description |-> Field(36, 256),
            devargs |-> Field(306, 128), driver |-> Field(434, 32)]
  BY DEF FieldsAt, Field, IfacePortSeq, U8, U16, U32, Bytes, Member
<1>4. Laid(IfacePortSeq, off, al)
  BY IfacePortSeqLaid, Zenon
<1> HIDE DEF off, al, e, idx
<1>5. /\ Layout(IfacePortSeq).size = RoundUp(e, al)
      /\ Layout(IfacePortSeq).at = FieldsAt(IfacePortSeq, off, idx)
  BY <1>1, <1>4, LayoutAs, Zenon
<1> QED
  BY <1>2, <1>3, <1>5, ZenonT(60)

\* The offsets of gr_iface and a bridge_info.
LEMMA IfaceBridgeSeqLaid ==
  Laid(IfaceBridgeSeq, <<0, 2, 3, 4, 6, 8, 10, 12, 14, 20, 20, 36, 292, 294, 296, 302, 304, 432>>, 2)
BY DEF Laid, Members, IsSeq, RoundUp, IfaceBridgeSeq, U8, U16, U32, Bytes, Member

\* The compiler puts the fields of gr_iface and a bridge_info there.
LEMMA IfaceBridgeSeqLayout ==
  /\ Layout(IfaceBridgeSeq).size = 432
  /\ Layout(IfaceBridgeSeq).at =
           [id |-> Field(0, 2), type |-> Field(2, 1), flags |-> Field(4, 2), mtu |-> Field(8, 2),
            domain |-> Field(12, 2), name |-> Field(20, 16), description |-> Field(36, 256),
            ageing |-> Field(292, 2), bflags |-> Field(294, 2), mac |-> Field(296, 6),
            members |-> Field(302, 2)]
<1> DEFINE off == <<0, 2, 3, 4, 6, 8, 10, 12, 14, 20, 20, 36, 292, 294, 296, 302, 304, 432>>
           al == 2
           e == 432
           idx == [id |-> 1, type |-> 2, flags |-> 4, mtu |-> 6, domain |-> 8, name |-> 11,
                   description |-> 12, ageing |-> 13, bflags |-> 14, mac |-> 15, members |-> 16]
<1>1. Indexed(IfaceBridgeSeq, idx) /\ EndsAt(IfaceBridgeSeq, off, e)
  BY DEF Indexed, EndsAt, IfaceBridgeSeq, U8, U16, U32, Bytes, Member
<1>2. RoundUp(e, al) = 432
  BY DEF RoundUp
<1>3. FieldsAt(IfaceBridgeSeq, off, idx) =
           [id |-> Field(0, 2), type |-> Field(2, 1), flags |-> Field(4, 2), mtu |-> Field(8, 2),
            domain |-> Field(12, 2), name |-> Field(20, 16), description |-> Field(36, 256),
            ageing |-> Field(292, 2), bflags |-> Field(294, 2), mac |-> Field(296, 6),
            members |-> Field(302, 2)]
  BY DEF FieldsAt, Field, IfaceBridgeSeq, U8, U16, U32, Bytes, Member
<1>4. Laid(IfaceBridgeSeq, off, al)
  BY IfaceBridgeSeqLaid, Zenon
<1> HIDE DEF off, al, e, idx
<1>5. /\ Layout(IfaceBridgeSeq).size = RoundUp(e, al)
      /\ Layout(IfaceBridgeSeq).at = FieldsAt(IfaceBridgeSeq, off, idx)
  BY <1>1, <1>4, LayoutAs, Zenon
<1> QED
  BY <1>2, <1>3, <1>5, Zenon

\* The offsets of gr_iface and a vxlan_info.
LEMMA IfaceVxlanSeqLaid ==
  Laid(IfaceVxlanSeq, <<0, 2, 3, 4, 6, 8, 10, 12, 14, 20, 20, 36, 292, 296, 298, 300, 304, 308,
                        320, 320, 326>>, 4)
BY DEF Laid, Members, IsSeq, RoundUp, IfaceVxlanSeq, U8, U16, U32, Bytes, Member

\* The compiler puts the fields of gr_iface and a vxlan_info there.
LEMMA IfaceVxlanSeqLayout ==
  /\ Layout(IfaceVxlanSeq).size = 328
  /\ Layout(IfaceVxlanSeq).at =
           [id |-> Field(0, 2), type |-> Field(2, 1), flags |-> Field(4, 2), mtu |-> Field(8, 2),
            domain |-> Field(12, 2), name |-> Field(20, 16), description |-> Field(36, 256),
            vni |-> Field(292, 4), encap_vrf |-> Field(296, 2), dst_port |-> Field(298, 2),
            af |-> Field(300, 1), local |-> Field(304, 4), mac |-> Field(320, 6)]
<1> DEFINE off == <<0, 2, 3, 4, 6, 8, 10, 12, 14, 20, 20, 36, 292, 296, 298, 300, 304, 308,
                    320, 320, 326>>
           al == 4
           e == 328
           idx == [id |-> 1, type |-> 2, flags |-> 4, mtu |-> 6, domain |-> 8, name |-> 11,
                   description |-> 12, vni |-> 13, encap_vrf |-> 14, dst_port |-> 15, af |-> 16,
                   local |-> 17, mac |-> 20]
<1>1. Indexed(IfaceVxlanSeq, idx) /\ EndsAt(IfaceVxlanSeq, off, e)
  BY DEF Indexed, EndsAt, IfaceVxlanSeq, U8, U16, U32, Bytes, Member
<1>2. RoundUp(e, al) = 328
  BY DEF RoundUp
<1>3. FieldsAt(IfaceVxlanSeq, off, idx) =
           [id |-> Field(0, 2), type |-> Field(2, 1), flags |-> Field(4, 2), mtu |-> Field(8, 2),
            domain |-> Field(12, 2), name |-> Field(20, 16), description |-> Field(36, 256),
            vni |-> Field(292, 4), encap_vrf |-> Field(296, 2), dst_port |-> Field(298, 2),
            af |-> Field(300, 1), local |-> Field(304, 4), mac |-> Field(320, 6)]
  BY DEF FieldsAt, Field, IfaceVxlanSeq, U8, U16, U32, Bytes, Member
<1>4. Laid(IfaceVxlanSeq, off, al)
  BY IfaceVxlanSeqLaid, Zenon
<1> HIDE DEF off, al, e, idx
<1>5. /\ Layout(IfaceVxlanSeq).size = RoundUp(e, al)
      /\ Layout(IfaceVxlanSeq).at = FieldsAt(IfaceVxlanSeq, off, idx)
  BY <1>1, <1>4, LayoutAs, Zenon
<1> QED
  BY <1>2, <1>3, <1>5, ZenonT(60)

-----------------------------------------------------------------------------
\* The members of ip4_net.
Net4Arg ==
  <<U32("ip"), U8("prefixlen")>>

\* The offsets of ip4_net.
LEMMA Net4ArgLaid ==
  Laid(Net4Arg, <<0, 4>>, 4)
BY DEF Laid, Members, IsSeq, RoundUp, Net4Arg, U8, U16, U32, Bytes, Member

\* The same as a part of another struct.
Net4Seq ==
  <<U32("ip"), U8("prefixlen"), Bytes("pad", 3)>>

\* ip4_net is laid out as a part of another struct.
LEMMA Net4SeqStruct == Struct(Net4Arg) = Net4Seq
<1>1. EndsAt(Net4Arg, <<0, 4>>, 5) /\ PaddedTo(Net4Arg, 4, 5, Net4Seq)
  BY DEF EndsAt, PaddedTo, IsSeq, RoundUp, Net4Arg, Net4Seq, U8, U16, U32, Bytes, Member
<1> QED
  BY <1>1, Net4ArgLaid, StructAs, Zenon

\* The members of ip6_net.
Net6Arg ==
  <<Bytes("ip", 16), U8("prefixlen")>>

\* The offsets of ip6_net.
LEMMA Net6ArgLaid ==
  Laid(Net6Arg, <<0, 16>>, 1)
BY DEF Laid, Members, IsSeq, RoundUp, Net6Arg, U8, U16, U32, Bytes, Member

\* The same as a part of another struct.
Net6Seq ==
  <<Bytes("ip", 16), U8("prefixlen"), Bytes("pad", 0)>>

\* ip6_net is laid out as a part of another struct.
LEMMA Net6SeqStruct == Struct(Net6Arg) = Net6Seq
<1>1. EndsAt(Net6Arg, <<0, 16>>, 17) /\ PaddedTo(Net6Arg, 1, 17, Net6Seq)
  BY DEF EndsAt, PaddedTo, IsSeq, RoundUp, Net6Arg, Net6Seq, U8, U16, U32, Bytes, Member
<1> QED
  BY <1>1, Net6ArgLaid, StructAs, Zenon

\* The members of l3_addr.
L3Arg ==
  <<U8("af"), U32("addr"), Bytes("pad", 12)>>

\* The offsets of l3_addr.
LEMMA L3ArgLaid ==
  Laid(L3Arg, <<0, 4, 8>>, 4)
BY DEF Laid, Members, IsSeq, RoundUp, L3Arg, U8, U16, U32, Bytes, Member

\* The same as a part of another struct.
L3Seq ==
  <<Member("af", 1, 4), U32("addr"), Bytes("pad", 12), Bytes("pad", 0)>>

\* l3_addr is laid out as a part of another struct.
LEMMA L3SeqStruct == Struct(L3Arg) = L3Seq
<1>1. EndsAt(L3Arg, <<0, 4, 8>>, 20) /\ PaddedTo(L3Arg, 4, 20, L3Seq)
  BY DEF EndsAt, PaddedTo, IsSeq, RoundUp, L3Arg, L3Seq, U8, U16, U32, Bytes, Member
<1> QED
  BY <1>1, L3ArgLaid, StructAs, Zenon

\* The start of flood_entry.
FloodHead ==
  <<U8("type"), U16("vrf"), U32("vni")>>

\* The members of flood_entry.
FloodArg ==
  <<U8("type"), U16("vrf"), U32("vni"), Member("af", 1, 4), U32("addr"), Bytes("pad", 12),
    Bytes("pad", 0)>>

\* flood_entry is made up of its parts.
LEMMA FloodArgIs == FloodHead \o L3Seq = FloodArg
<1>1. Follow(FloodHead, L3Seq, FloodArg)
  BY DEF Follow, IsSeq, FloodHead, L3Seq, FloodArg
<1> QED
  BY <1>1, CatAs, Zenon

\* The offsets of flood_entry.
LEMMA FloodArgLaid ==
  Laid(FloodArg, <<0, 2, 4, 8, 12, 16, 28>>, 4)
BY DEF Laid, Members, IsSeq, RoundUp, FloodArg, U8, U16, U32, Bytes, Member

\* The same as a part of another struct.
FloodSeq ==
  <<Member("type", 1, 4), U16("vrf"), U32("vni"), Member("af", 1, 4), U32("addr"), Bytes("pad", 12),
    Bytes("pad", 0), Bytes("pad", 0)>>

\* flood_entry is laid out as a part of another struct.
LEMMA FloodSeqStruct == Struct(FloodArg) = FloodSeq
<1>1. EndsAt(FloodArg, <<0, 2, 4, 8, 12, 16, 28>>, 28) /\ PaddedTo(FloodArg, 4, 28, FloodSeq)
  BY DEF EndsAt, PaddedTo, IsSeq, RoundUp, FloodArg, FloodSeq, U8, U16, U32, Bytes, Member
<1> QED
  BY <1>1, FloodArgLaid, StructAs, Zenon

\* The members of a flush request, and the start of one on an address.
IfaceIdSeq ==
  <<U16("iface")>>

\* The flag that ends a request.
FlagSeq ==
  <<U8("flag")>>

\* The start of a request on a route.
VrfSeq ==
  <<U16("vrf")>>

\* The members of a request on an IPv4 address.
Addr4Arg ==
  <<U16("iface"), U32("ip"), U8("prefixlen"), Bytes("pad", 3)>>

\* A request on an IPv4 address is made up of its parts.
LEMMA Addr4ArgIs == IfaceIdSeq \o Net4Seq = Addr4Arg
<1>1. Follow(IfaceIdSeq, Net4Seq, Addr4Arg)
  BY DEF Follow, IsSeq, IfaceIdSeq, Net4Seq, Addr4Arg
<1> QED
  BY <1>1, CatAs, Zenon

\* The offsets of a request on an IPv4 address.
LEMMA Addr4ArgLaid ==
  Laid(Addr4Arg, <<0, 4, 8, 9>>, 4)
BY DEF Laid, Members, IsSeq, RoundUp, Addr4Arg, U8, U16, U32, Bytes, Member

\* The same as a part of another struct.
Addr4Part ==
  <<Member("iface", 2, 4), U32("ip"), U8("prefixlen"), Bytes("pad", 3), Bytes("pad", 0)>>

\* A request on an IPv4 address is laid out as a part of another struct.
LEMMA Addr4PartStruct == Struct(Addr4Arg) = Addr4Part
<1>1. EndsAt(Addr4Arg, <<0, 4, 8, 9>>, 12) /\ PaddedTo(Addr4Arg, 4, 12, Addr4Part)
  BY DEF EndsAt, PaddedTo, IsSeq, RoundUp, Addr4Arg, Addr4Part, U8, U16, U32, Bytes, Member
<1> QED
  BY <1>1, Addr4ArgLaid, StructAs, Zenon

\* The members of a request on an IPv4 address.
Addr4Seq ==
  <<Member("iface", 2, 4), U32("ip"), U8("prefixlen"), Bytes("pad", 3), Bytes("pad", 0), U8("flag")>>

\* A request on an IPv4 address is made up of its parts.
LEMMA Addr4SeqIs == Addr4Part \o FlagSeq = Addr4Seq
<1>1. Follow(Addr4Part, FlagSeq, Addr4Seq)
  BY DEF Follow, IsSeq, Addr4Part, FlagSeq, Addr4Seq
<1> QED
  BY <1>1, CatAs, Zenon

\* The end of a request for an IPv4 route.
Hop4Seq ==
  <<U32("nh"), U32("nh_id"), U8("origin"), U8("flag")>>

\* The members of the destination of an IPv4 route.
Dest4Seq ==
  <<U16("vrf"), U32("ip"), U8("prefixlen"), Bytes("pad", 3)>>

\* The destination of an IPv4 route is made up of its parts.
LEMMA Dest4SeqIs == VrfSeq \o Net4Seq = Dest4Seq
<1>1. Follow(VrfSeq, Net4Seq, Dest4Seq)
  BY DEF Follow, IsSeq, VrfSeq, Net4Seq, Dest4Seq
<1> QED
  BY <1>1, CatAs, Zenon

\* The members of a request for an IPv4 route.
RouteAdd4Seq ==
  <<U16("vrf"), U32("ip"), U8("prefixlen"), Bytes("pad", 3), U32("nh"), U32("nh_id"), U8("origin"),
    U8("flag")>>

\* A request for an IPv4 route is made up of its parts.
LEMMA RouteAdd4SeqIs == Dest4Seq \o Hop4Seq = RouteAdd4Seq
<1>1. Follow(Dest4Seq, Hop4Seq, RouteAdd4Seq)
  BY DEF Follow, IsSeq, Dest4Seq, Hop4Seq, RouteAdd4Seq
<1> QED
  BY <1>1, CatAs, Zenon

\* The members of a request that removes an IPv4 route.
RouteDel4Seq ==
  <<U16("vrf"), U32("ip"), U8("prefixlen"), Bytes("pad", 3), U8("flag")>>

\* A request that removes an IPv4 route is made up of its parts.
LEMMA RouteDel4SeqIs == Dest4Seq \o FlagSeq = RouteDel4Seq
<1>1. Follow(Dest4Seq, FlagSeq, RouteDel4Seq)
  BY DEF Follow, IsSeq, Dest4Seq, FlagSeq, RouteDel4Seq
<1> QED
  BY <1>1, CatAs, Zenon

\* The members of a request on an IPv6 address.
Addr6Arg ==
  <<U16("iface"), Bytes("ip", 16), U8("prefixlen"), Bytes("pad", 0)>>

\* A request on an IPv6 address is made up of its parts.
LEMMA Addr6ArgIs == IfaceIdSeq \o Net6Seq = Addr6Arg
<1>1. Follow(IfaceIdSeq, Net6Seq, Addr6Arg)
  BY DEF Follow, IsSeq, IfaceIdSeq, Net6Seq, Addr6Arg
<1> QED
  BY <1>1, CatAs, Zenon

\* The offsets of a request on an IPv6 address.
LEMMA Addr6ArgLaid ==
  Laid(Addr6Arg, <<0, 2, 18, 19>>, 2)
BY DEF Laid, Members, IsSeq, RoundUp, Addr6Arg, U8, U16, U32, Bytes, Member

\* The same as a part of another struct.
Addr6Part ==
  <<U16("iface"), Bytes("ip", 16), U8("prefixlen"), Bytes("pad", 0), Bytes("pad", 1)>>

\* A request on an IPv6 address is laid out as a part of another struct.
LEMMA Addr6PartStruct == Struct(Addr6Arg) = Addr6Part
<1>1. EndsAt(Addr6Arg, <<0, 2, 18, 19>>, 19) /\ PaddedTo(Addr6Arg, 2, 19, Addr6Part)
  BY DEF EndsAt, PaddedTo, IsSeq, RoundUp, Addr6Arg, Addr6Part, U8, U16, U32, Bytes, Member
<1> QED
  BY <1>1, Addr6ArgLaid, StructAs, Zenon

\* The members of a request on an IPv6 address.
Addr6Seq ==
  <<U16("iface"), Bytes("ip", 16), U8("prefixlen"), Bytes("pad", 0), Bytes("pad", 1), U8("flag")>>

\* A request on an IPv6 address is made up of its parts.
LEMMA Addr6SeqIs == Addr6Part \o FlagSeq = Addr6Seq
<1>1. Follow(Addr6Part, FlagSeq, Addr6Seq)
  BY DEF Follow, IsSeq, Addr6Part, FlagSeq, Addr6Seq
<1> QED
  BY <1>1, CatAs, Zenon

\* The end of a request for an IPv6 route.
Hop6Seq ==
  <<Bytes("nh", 16), U32("nh_id"), U8("origin"), U8("flag")>>

\* The members of the destination of an IPv6 route.
Dest6Seq ==
  <<U16("vrf"), Bytes("ip", 16), U8("prefixlen"), Bytes("pad", 0)>>

\* The destination of an IPv6 route is made up of its parts.
LEMMA Dest6SeqIs == VrfSeq \o Net6Seq = Dest6Seq
<1>1. Follow(VrfSeq, Net6Seq, Dest6Seq)
  BY DEF Follow, IsSeq, VrfSeq, Net6Seq, Dest6Seq
<1> QED
  BY <1>1, CatAs, Zenon

\* The members of a request for an IPv6 route.
RouteAdd6Seq ==
  <<U16("vrf"), Bytes("ip", 16), U8("prefixlen"), Bytes("pad", 0), Bytes("nh", 16), U32("nh_id"),
    U8("origin"), U8("flag")>>

\* A request for an IPv6 route is made up of its parts.
LEMMA RouteAdd6SeqIs == Dest6Seq \o Hop6Seq = RouteAdd6Seq
<1>1. Follow(Dest6Seq, Hop6Seq, RouteAdd6Seq)
  BY DEF Follow, IsSeq, Dest6Seq, Hop6Seq, RouteAdd6Seq
<1> QED
  BY <1>1, CatAs, Zenon

\* The members of a request that removes an IPv6 route.
RouteDel6Seq ==
  <<U16("vrf"), Bytes("ip", 16), U8("prefixlen"), Bytes("pad", 0), U8("flag")>>

\* A request that removes an IPv6 route is made up of its parts.
LEMMA RouteDel6SeqIs == Dest6Seq \o FlagSeq = RouteDel6Seq
<1>1. Follow(Dest6Seq, FlagSeq, RouteDel6Seq)
  BY DEF Follow, IsSeq, Dest6Seq, FlagSeq, RouteDel6Seq
<1> QED
  BY <1>1, CatAs, Zenon

\* The members of a request on a flood entry.
FloodReqSeq ==
  <<Member("type", 1, 4), U16("vrf"), U32("vni"), Member("af", 1, 4), U32("addr"), Bytes("pad", 12),
    Bytes("pad", 0), Bytes("pad", 0), U8("flag")>>

\* A request on a flood entry is made up of its parts.
LEMMA FloodReqSeqIs == FloodSeq \o FlagSeq = FloodReqSeq
<1>1. Follow(FloodSeq, FlagSeq, FloodReqSeq)
  BY DEF Follow, IsSeq, FloodSeq, FlagSeq, FloodReqSeq
<1> QED
  BY <1>1, CatAs, Zenon

\* The members of a request for the flood entries.
FloodListSeq ==
  <<U8("type"), U16("vrf")>>

\* The offsets of a request on an IPv4 address.
LEMMA Addr4SeqLaid ==
  Laid(Addr4Seq, <<0, 4, 8, 9, 12, 12>>, 4)
BY DEF Laid, Members, IsSeq, RoundUp, Addr4Seq, U8, U16, U32, Bytes, Member

\* Where the fields of a request on an IPv4 address are.
Addr4At ==
  [iface |-> Field(0, 2), ip |-> Field(4, 4), prefixlen |-> Field(8, 1),
   flag |-> Field(12, 1)]

\* The compiler puts the fields of a request on an IPv4 address there.
LEMMA Addr4SeqLayout ==
  /\ Layout(Addr4Seq).size = 16
  /\ Layout(Addr4Seq).at = Addr4At
<1> DEFINE off == <<0, 4, 8, 9, 12, 12>>
           al == 4
           e == 13
           idx == [iface |-> 1, ip |-> 2, prefixlen |-> 3, flag |-> 6]
<1>1. Indexed(Addr4Seq, idx) /\ EndsAt(Addr4Seq, off, e)
  BY DEF Indexed, EndsAt, Addr4Seq, U8, U16, U32, Bytes, Member
<1>2. RoundUp(e, al) = 16
  BY DEF RoundUp
<1>3. FieldsAt(Addr4Seq, off, idx) = Addr4At
  BY DEF FieldsAt, Field, Addr4At, Addr4Seq, U8, U16, U32, Bytes, Member
<1>4. Laid(Addr4Seq, off, al)
  BY Addr4SeqLaid, Zenon
<1> HIDE DEF off, al, e, idx
<1>5. /\ Layout(Addr4Seq).size = RoundUp(e, al)
      /\ Layout(Addr4Seq).at = FieldsAt(Addr4Seq, off, idx)
  BY <1>1, <1>4, LayoutAs, Zenon
<1> QED
  BY <1>2, <1>3, <1>5, Zenon

\* The offsets of a request on an IPv6 address.
LEMMA Addr6SeqLaid ==
  Laid(Addr6Seq, <<0, 2, 18, 19, 19, 20>>, 2)
BY DEF Laid, Members, IsSeq, RoundUp, Addr6Seq, U8, U16, U32, Bytes, Member

\* Where the fields of a request on an IPv6 address are.
Addr6At ==
  [iface |-> Field(0, 2), ip |-> Field(2, 16), prefixlen |-> Field(18, 1),
   flag |-> Field(20, 1)]

\* The compiler puts the fields of a request on an IPv6 address there.
LEMMA Addr6SeqLayout ==
  /\ Layout(Addr6Seq).size = 22
  /\ Layout(Addr6Seq).at = Addr6At
<1> DEFINE off == <<0, 2, 18, 19, 19, 20>>
           al == 2
           e == 21
           idx == [iface |-> 1, ip |-> 2, prefixlen |-> 3, flag |-> 6]
<1>1. Indexed(Addr6Seq, idx) /\ EndsAt(Addr6Seq, off, e)
  BY DEF Indexed, EndsAt, Addr6Seq, U8, U16, U32, Bytes, Member
<1>2. RoundUp(e, al) = 22
  BY DEF RoundUp
<1>3. FieldsAt(Addr6Seq, off, idx) = Addr6At
  BY DEF FieldsAt, Field, Addr6At, Addr6Seq, U8, U16, U32, Bytes, Member
<1>4. Laid(Addr6Seq, off, al)
  BY Addr6SeqLaid, Zenon
<1> HIDE DEF off, al, e, idx
<1>5. /\ Layout(Addr6Seq).size = RoundUp(e, al)
      /\ Layout(Addr6Seq).at = FieldsAt(Addr6Seq, off, idx)
  BY <1>1, <1>4, LayoutAs, Zenon
<1> QED
  BY <1>2, <1>3, <1>5, Zenon

\* The offsets of a request for an IPv4 route.
LEMMA RouteAdd4SeqLaid ==
  Laid(RouteAdd4Seq, <<0, 4, 8, 9, 12, 16, 20, 21>>, 4)
BY DEF Laid, Members, IsSeq, RoundUp, RouteAdd4Seq, U8, U16, U32, Bytes, Member

\* Where the fields of a request for an IPv4 route are.
RouteAdd4At ==
  [vrf |-> Field(0, 2), ip |-> Field(4, 4), prefixlen |-> Field(8, 1), nh |-> Field(12, 4),
   nh_id |-> Field(16, 4), origin |-> Field(20, 1), flag |-> Field(21, 1)]

\* The compiler puts the fields of a request for an IPv4 route there.
LEMMA RouteAdd4SeqLayout ==
  /\ Layout(RouteAdd4Seq).size = 24
  /\ Layout(RouteAdd4Seq).at = RouteAdd4At
<1> DEFINE off == <<0, 4, 8, 9, 12, 16, 20, 21>>
           al == 4
           e == 22
           idx == [vrf |-> 1, ip |-> 2, prefixlen |-> 3, nh |-> 5, nh_id |-> 6, origin |-> 7,
                   flag |-> 8]
<1>1. Indexed(RouteAdd4Seq, idx) /\ EndsAt(RouteAdd4Seq, off, e)
  BY DEF Indexed, EndsAt, RouteAdd4Seq, U8, U16, U32, Bytes, Member
<1>2. RoundUp(e, al) = 24
  BY DEF RoundUp
<1>3. FieldsAt(RouteAdd4Seq, off, idx) = RouteAdd4At
  BY DEF FieldsAt, Field, RouteAdd4At, RouteAdd4Seq, U8, U16, U32, Bytes, Member
<1>4. Laid(RouteAdd4Seq, off, al)
  BY RouteAdd4SeqLaid, Zenon
<1> HIDE DEF off, al, e, idx
<1>5. /\ Layout(RouteAdd4Seq).size = RoundUp(e, al)
      /\ Layout(RouteAdd4Seq).at = FieldsAt(RouteAdd4Seq, off, idx)
  BY <1>1, <1>4, LayoutAs, Zenon
<1> QED
  BY <1>2, <1>3, <1>5, Zenon

\* The offsets of a request for an IPv6 route.
LEMMA RouteAdd6SeqLaid ==
  Laid(RouteAdd6Seq, <<0, 2, 18, 19, 19, 36, 40, 41>>, 4)
BY DEF Laid, Members, IsSeq, RoundUp, RouteAdd6Seq, U8, U16, U32, Bytes, Member

\* Where the fields of a request for an IPv6 route are.
RouteAdd6At ==
  [vrf |-> Field(0, 2), ip |-> Field(2, 16), prefixlen |-> Field(18, 1),
   nh |-> Field(19, 16), nh_id |-> Field(36, 4), origin |-> Field(40, 1),
   flag |-> Field(41, 1)]

\* The compiler puts the fields of a request for an IPv6 route there.
LEMMA RouteAdd6SeqLayout ==
  /\ Layout(RouteAdd6Seq).size = 44
  /\ Layout(RouteAdd6Seq).at = RouteAdd6At
<1> DEFINE off == <<0, 2, 18, 19, 19, 36, 40, 41>>
           al == 4
           e == 42
           idx == [vrf |-> 1, ip |-> 2, prefixlen |-> 3, nh |-> 5, nh_id |-> 6, origin |-> 7,
                   flag |-> 8]
<1>1. Indexed(RouteAdd6Seq, idx) /\ EndsAt(RouteAdd6Seq, off, e)
  BY DEF Indexed, EndsAt, RouteAdd6Seq, U8, U16, U32, Bytes, Member
<1>2. RoundUp(e, al) = 44
  BY DEF RoundUp
<1>3. FieldsAt(RouteAdd6Seq, off, idx) = RouteAdd6At
  BY DEF FieldsAt, Field, RouteAdd6At, RouteAdd6Seq, U8, U16, U32, Bytes, Member
<1>4. Laid(RouteAdd6Seq, off, al)
  BY RouteAdd6SeqLaid, Zenon
<1> HIDE DEF off, al, e, idx
<1>5. /\ Layout(RouteAdd6Seq).size = RoundUp(e, al)
      /\ Layout(RouteAdd6Seq).at = FieldsAt(RouteAdd6Seq, off, idx)
  BY <1>1, <1>4, LayoutAs, Zenon
<1> QED
  BY <1>2, <1>3, <1>5, Zenon

\* The offsets of a request that removes an IPv4 route.
LEMMA RouteDel4SeqLaid ==
  Laid(RouteDel4Seq, <<0, 4, 8, 9, 12>>, 4)
BY DEF Laid, Members, IsSeq, RoundUp, RouteDel4Seq, U8, U16, U32, Bytes, Member

\* Where the fields of a request that removes an IPv4 route are.
RouteDel4At ==
  [vrf |-> Field(0, 2), ip |-> Field(4, 4), prefixlen |-> Field(8, 1),
   flag |-> Field(12, 1)]

\* The compiler puts the fields of a request that removes an IPv4 route there.
LEMMA RouteDel4SeqLayout ==
  /\ Layout(RouteDel4Seq).size = 16
  /\ Layout(RouteDel4Seq).at = RouteDel4At
<1> DEFINE off == <<0, 4, 8, 9, 12>>
           al == 4
           e == 13
           idx == [vrf |-> 1, ip |-> 2, prefixlen |-> 3, flag |-> 5]
<1>1. Indexed(RouteDel4Seq, idx) /\ EndsAt(RouteDel4Seq, off, e)
  BY DEF Indexed, EndsAt, RouteDel4Seq, U8, U16, U32, Bytes, Member
<1>2. RoundUp(e, al) = 16
  BY DEF RoundUp
<1>3. FieldsAt(RouteDel4Seq, off, idx) = RouteDel4At
  BY DEF FieldsAt, Field, RouteDel4At, RouteDel4Seq, U8, U16, U32, Bytes, Member
<1>4. Laid(RouteDel4Seq, off, al)
  BY RouteDel4SeqLaid, Zenon
<1> HIDE DEF off, al, e, idx
<1>5. /\ Layout(RouteDel4Seq).size = RoundUp(e, al)
      /\ Layout(RouteDel4Seq).at = FieldsAt(RouteDel4Seq, off, idx)
  BY <1>1, <1>4, LayoutAs, Zenon
<1> QED
  BY <1>2, <1>3, <1>5, Zenon

\* The offsets of a request that removes an IPv6 route.
LEMMA RouteDel6SeqLaid ==
  Laid(RouteDel6Seq, <<0, 2, 18, 19, 19>>, 2)
BY DEF Laid, Members, IsSeq, RoundUp, RouteDel6Seq, U8, U16, U32, Bytes, Member

\* Where the fields of a request that removes an IPv6 route are.
RouteDel6At ==
  [vrf |-> Field(0, 2), ip |-> Field(2, 16), prefixlen |-> Field(18, 1),
   flag |-> Field(19, 1)]

\* The compiler puts the fields of a request that removes an IPv6 route there.
LEMMA RouteDel6SeqLayout ==
  /\ Layout(RouteDel6Seq).size = 20
  /\ Layout(RouteDel6Seq).at = RouteDel6At
<1> DEFINE off == <<0, 2, 18, 19, 19>>
           al == 2
           e == 20
           idx == [vrf |-> 1, ip |-> 2, prefixlen |-> 3, flag |-> 5]
<1>1. Indexed(RouteDel6Seq, idx) /\ EndsAt(RouteDel6Seq, off, e)
  BY DEF Indexed, EndsAt, RouteDel6Seq, U8, U16, U32, Bytes, Member
<1>2. RoundUp(e, al) = 20
  BY DEF RoundUp
<1>3. FieldsAt(RouteDel6Seq, off, idx) = RouteDel6At
  BY DEF FieldsAt, Field, RouteDel6At, RouteDel6Seq, U8, U16, U32, Bytes, Member
<1>4. Laid(RouteDel6Seq, off, al)
  BY RouteDel6SeqLaid, Zenon
<1> HIDE DEF off, al, e, idx
<1>5. /\ Layout(RouteDel6Seq).size = RoundUp(e, al)
      /\ Layout(RouteDel6Seq).at = FieldsAt(RouteDel6Seq, off, idx)
  BY <1>1, <1>4, LayoutAs, Zenon
<1> QED
  BY <1>2, <1>3, <1>5, Zenon

\* The offsets of a flush request.
LEMMA IfaceIdSeqLaid ==
  Laid(IfaceIdSeq, <<0>>, 2)
BY DEF Laid, Members, IsSeq, RoundUp, IfaceIdSeq, U8, U16, U32, Bytes, Member

\* Where the fields of a flush request are.
IfaceIdAt ==
  [iface |-> Field(0, 2)]

\* The compiler puts the fields of a flush request there.
LEMMA IfaceIdSeqLayout ==
  /\ Layout(IfaceIdSeq).size = 2
  /\ Layout(IfaceIdSeq).at = IfaceIdAt
<1> DEFINE off == <<0>>
           al == 2
           e == 2
           idx == [iface |-> 1]
<1>1. Indexed(IfaceIdSeq, idx) /\ EndsAt(IfaceIdSeq, off, e)
  BY DEF Indexed, EndsAt, IfaceIdSeq, U8, U16, U32, Bytes, Member
<1>2. RoundUp(e, al) = 2
  BY DEF RoundUp
<1>3. FieldsAt(IfaceIdSeq, off, idx) = IfaceIdAt
  BY DEF FieldsAt, Field, IfaceIdAt, IfaceIdSeq, U8, U16, U32, Bytes, Member
<1>4. Laid(IfaceIdSeq, off, al)
  BY IfaceIdSeqLaid, Zenon
<1> HIDE DEF off, al, e, idx
<1>5. /\ Layout(IfaceIdSeq).size = RoundUp(e, al)
      /\ Layout(IfaceIdSeq).at = FieldsAt(IfaceIdSeq, off, idx)
  BY <1>1, <1>4, LayoutAs, Zenon
<1> QED
  BY <1>2, <1>3, <1>5, Zenon

\* The offsets of flood_entry.
LEMMA FloodSeqLaid ==
  Laid(FloodSeq, <<0, 2, 4, 8, 12, 16, 28, 28>>, 4)
BY DEF Laid, Members, IsSeq, RoundUp, FloodSeq, U8, U16, U32, Bytes, Member

\* Where the fields of flood_entry are.
FloodAt ==
  [type |-> Field(0, 1), vrf |-> Field(2, 2), vni |-> Field(4, 4), af |-> Field(8, 1),
   addr |-> Field(12, 4)]

\* The compiler puts the fields of flood_entry there.
LEMMA FloodSeqLayout ==
  /\ Layout(FloodSeq).size = 28
  /\ Layout(FloodSeq).at = FloodAt
<1> DEFINE off == <<0, 2, 4, 8, 12, 16, 28, 28>>
           al == 4
           e == 28
           idx == [type |-> 1, vrf |-> 2, vni |-> 3, af |-> 4, addr |-> 5]
<1>1. Indexed(FloodSeq, idx) /\ EndsAt(FloodSeq, off, e)
  BY DEF Indexed, EndsAt, FloodSeq, U8, U16, U32, Bytes, Member
<1>2. RoundUp(e, al) = 28
  BY DEF RoundUp
<1>3. FieldsAt(FloodSeq, off, idx) = FloodAt
  BY DEF FieldsAt, Field, FloodAt, FloodSeq, U8, U16, U32, Bytes, Member
<1>4. Laid(FloodSeq, off, al)
  BY FloodSeqLaid, Zenon
<1> HIDE DEF off, al, e, idx
<1>5. /\ Layout(FloodSeq).size = RoundUp(e, al)
      /\ Layout(FloodSeq).at = FieldsAt(FloodSeq, off, idx)
  BY <1>1, <1>4, LayoutAs, Zenon
<1> QED
  BY <1>2, <1>3, <1>5, Zenon

\* The offsets of a request on a flood entry.
LEMMA FloodReqSeqLaid ==
  Laid(FloodReqSeq, <<0, 2, 4, 8, 12, 16, 28, 28, 28>>, 4)
BY DEF Laid, Members, IsSeq, RoundUp, FloodReqSeq, U8, U16, U32, Bytes, Member

\* Where the fields of a request on a flood entry are.
FloodReqAt ==
  [type |-> Field(0, 1), vrf |-> Field(2, 2), vni |-> Field(4, 4), af |-> Field(8, 1),
   addr |-> Field(12, 4), flag |-> Field(28, 1)]

\* The compiler puts the fields of a request on a flood entry there.
LEMMA FloodReqSeqLayout ==
  /\ Layout(FloodReqSeq).size = 32
  /\ Layout(FloodReqSeq).at = FloodReqAt
<1> DEFINE off == <<0, 2, 4, 8, 12, 16, 28, 28, 28>>
           al == 4
           e == 29
           idx == [type |-> 1, vrf |-> 2, vni |-> 3, af |-> 4, addr |-> 5, flag |-> 9]
<1>1. Indexed(FloodReqSeq, idx) /\ EndsAt(FloodReqSeq, off, e)
  BY DEF Indexed, EndsAt, FloodReqSeq, U8, U16, U32, Bytes, Member
<1>2. RoundUp(e, al) = 32
  BY DEF RoundUp
<1>3. FieldsAt(FloodReqSeq, off, idx) = FloodReqAt
  BY DEF FieldsAt, Field, FloodReqAt, FloodReqSeq, U8, U16, U32, Bytes, Member
<1>4. Laid(FloodReqSeq, off, al)
  BY FloodReqSeqLaid, Zenon
<1> HIDE DEF off, al, e, idx
<1>5. /\ Layout(FloodReqSeq).size = RoundUp(e, al)
      /\ Layout(FloodReqSeq).at = FieldsAt(FloodReqSeq, off, idx)
  BY <1>1, <1>4, LayoutAs, Zenon
<1> QED
  BY <1>2, <1>3, <1>5, Zenon

\* The offsets of a request for the flood entries.
LEMMA FloodListSeqLaid ==
  Laid(FloodListSeq, <<0, 2>>, 2)
BY DEF Laid, Members, IsSeq, RoundUp, FloodListSeq, U8, U16, U32, Bytes, Member

\* Where the fields of a request for the flood entries are.
FloodListAt ==
  [type |-> Field(0, 1), vrf |-> Field(2, 2)]

\* The compiler puts the fields of a request for the flood entries there.
LEMMA FloodListSeqLayout ==
  /\ Layout(FloodListSeq).size = 4
  /\ Layout(FloodListSeq).at = FloodListAt
<1> DEFINE off == <<0, 2>>
           al == 2
           e == 4
           idx == [type |-> 1, vrf |-> 2]
<1>1. Indexed(FloodListSeq, idx) /\ EndsAt(FloodListSeq, off, e)
  BY DEF Indexed, EndsAt, FloodListSeq, U8, U16, U32, Bytes, Member
<1>2. RoundUp(e, al) = 4
  BY DEF RoundUp
<1>3. FieldsAt(FloodListSeq, off, idx) = FloodListAt
  BY DEF FieldsAt, Field, FloodListAt, FloodListSeq, U8, U16, U32, Bytes, Member
<1>4. Laid(FloodListSeq, off, al)
  BY FloodListSeqLaid, Zenon
<1> HIDE DEF off, al, e, idx
<1>5. /\ Layout(FloodListSeq).size = RoundUp(e, al)
      /\ Layout(FloodListSeq).at = FieldsAt(FloodListSeq, off, idx)
  BY <1>1, <1>4, LayoutAs, Zenon
<1> QED
  BY <1>2, <1>3, <1>5, Zenon

-----------------------------------------------------------------------------
(* Interfaces.                                                             *)

\* The layouts by which grout reads an interface of each type.
LEMMA IfaceLayouts ==
  /\ IfaceLayout.iface = Layout(IfaceSeq) /\ IfaceLayout.port = Layout(IfacePortSeq)
  /\ IfaceLayout.bridge = Layout(IfaceBridgeSeq) /\ IfaceLayout.vxlan = Layout(IfaceVxlanSeq)
<1>1. gr_iface = IfaceSeq
  BY HeadSeqStruct, IfaceSeqIs, Zenon DEF gr_iface, HeadArg, NameSeq
<1>2. port_info = PortSeq
  BY PortSeqStruct, Zenon DEF port_info, PortArg
<1>3. bridge_info = BridgeSeq
  BY BridgeSeqStruct, Zenon DEF bridge_info, BridgeArg
<1>4. vxlan_info = VxlanSeq
  BY VtepSeqStruct, TunnelSeqIs, VxlanArgIs, VxlanSeqStruct, Zenon
  DEF vxlan_info, VtepArg, VniSeq, MacSeq
<1>5. /\ IfaceLayout.iface = Layout(gr_iface) /\ IfaceLayout.port = Layout(gr_iface \o port_info)
      /\ IfaceLayout.bridge = Layout(gr_iface \o bridge_info)
      /\ IfaceLayout.vxlan = Layout(gr_iface \o vxlan_info)
  BY DEF IfaceLayout
<1> QED
  BY <1>1, <1>2, <1>3, <1>4, <1>5, IfacePortSeqIs, IfaceBridgeSeqIs, IfaceVxlanSeqIs, Zenon

\* A write reaches into a field.
Hits(w, at) == w.off < at.off + at.size /\ at.off < w.off + w.size

\* What a field is read as when these are the writes that reach into it.
FromHits(hits, at) ==
  IF hits = {} THEN Num(0)
  ELSE IF \E w \in hits : hits = {w} /\ w.off = at.off /\ w.size <= at.size
  THEN (CHOOSE w \in hits : TRUE).val
  ELSE <<"garbled">>

\* What Get reads depends on the writes that reach into the field.
LEMMA GetIs ==
  ASSUME NEW W, NEW at
  PROVE  Get(W, at) = FromHits({w \in W : Hits(w, at)}, at)
BY Zenon DEF Get, FromHits, Hits

\* w is the only write of W into a field, which it fills from its start.
Sole(W, w, at) ==
  /\ w \in W /\ Hits(w, at) /\ w.off = at.off /\ w.size <= at.size
  /\ \A v \in W : Hits(v, at) => v = w

\* Such a field has the value that was written,
LEMMA GetOne ==
  ASSUME NEW W, NEW at, NEW w, Sole(W, w, at)
  PROVE  Get(W, at) = w.val
<1> DEFINE hits == {v \in W : Hits(v, at)}
<1>1. hits = {w} /\ w.off = at.off /\ w.size <= at.size
  BY DEF Sole
<1>2. Get(W, at) = FromHits(hits, at)
  BY GetIs, Zenon
<1> HIDE DEF hits
<1> QED
  BY <1>1, <1>2 DEF FromHits

\* and one that no write reaches into is zero.
LEMMA GetNone ==
  ASSUME NEW W, NEW at, \A v \in W : ~Hits(v, at)
  PROVE  Get(W, at) = Num(0)
<1> DEFINE hits == {v \in W : Hits(v, at)}
<1>1. hits = {}
  OBVIOUS
<1>2. Get(W, at) = FromHits(hits, at)
  BY GetIs, Zenon
<1> HIDE DEF hits
<1> QED
  BY <1>1, <1>2 DEF FromHits

\* A conditional write writes when its condition holds.
LEMMA PutIfIs ==
  ASSUME NEW c \in BOOLEAN, NEW o, NEW z, NEW x, NEW v
  PROVE  v \in PutIf(c, o, z, x) <=> c /\ v = Put(o, z, x)
BY DEF PutIf

\* The header that InterfaceAdd writes, whatever the section behind it holds.
LEMMA BaseGet ==
  ASSUME NEW r, NEW I, \A v \in I : v.off \in Nat /\ v.off >= 292,
         NEW W, W = Base(r) \union I
  PROVE  /\ Get(W, Field(2, 1)) = Num(TypeOf[r.type]) /\ Get(W, Field(4, 2)) = Num(1)
         /\ Get(W, Field(8, 2)) = Num(r.mtu) /\ Get(W, Field(12, 2)) = Num(r.domain)
         /\ Get(W, Field(20, 16)) = <<"str", r.name>>
<1> DEFINE p == Put(0, 2, Num(0))
           t == Put(2, 1, Num(TypeOf[r.type]))
           f == Put(4, 2, Num(1))
           n == Put(20, 16, <<"str", r.name>>)
           d == Put(12, 2, Num(r.domain))
           m == Put(8, 2, Num(r.mtu))
<1>1. /\ t \in W /\ f \in W /\ n \in W /\ (r.domain # 0 => d \in W) /\ (r.mtu # 0 => m \in W)
      /\ \A v \in W : v \in {p, t, f, n} \/ v \in I \/ (r.domain # 0 /\ v = d) \/ (r.mtu # 0 /\ v = m)
  <2>1. /\ offIface.ID = 0 /\ offIface.Type = 2 /\ offIface.Flags = 4 /\ offIface.Name = 20
        /\ offIface.Domain = 12 /\ offIface.MTU = 8
    BY DEF offIface
  <2> DEFINE A == PutIf(r.domain # 0, 12, 2, Num(r.domain))
             B == PutIf(r.mtu # 0, 8, 2, Num(r.mtu))
  <2>2. W = {p, t, f, n} \union A \union B \union I
    BY <2>1, Zenon DEF Base
  <2>3. /\ \A v : v \in A <=> r.domain # 0 /\ v = d
        /\ \A v : v \in B <=> r.mtu # 0 /\ v = m
    BY PutIfIs, ZenonT(60)
  <2> HIDE DEF p, t, f, n, d, m, A, B
  <2>4. t \in W /\ f \in W /\ n \in W
    BY <2>2, Zenon
  <2>5. \A v \in W : v \in {p, t, f, n} \/ v \in I \/ v \in A \/ v \in B
    BY <2>2, Zenon
  <2>6. \A v : v \in A \/ v \in B => v \in W
    BY <2>2, Zenon
  <2>7. (r.domain # 0 => d \in W) /\ (r.mtu # 0 => m \in W)
    BY <2>3, <2>6, Zenon
  <2>8. \A v \in W : v \in {p, t, f, n} \/ v \in I \/ (r.domain # 0 /\ v = d) \/ (r.mtu # 0 /\ v = m)
    BY <2>3, <2>5, Zenon
  <2> QED
    BY <2>4, <2>7, <2>8, Zenon
<1>2. /\ t.off = 2 /\ t.size = 1 /\ f.off = 4 /\ f.size = 2 /\ n.off = 20 /\ n.size = 16
      /\ d.off = 12 /\ d.size = 2 /\ m.off = 8 /\ m.size = 2
      /\ p.off = 0 /\ p.size = 2
      /\ t.val = Num(TypeOf[r.type]) /\ f.val = Num(1) /\ n.val = <<"str", r.name>>
      /\ d.val = Num(r.domain) /\ m.val = Num(r.mtu)
  BY DEF Put
<1>3. \A o, z : Field(o, z).off = o /\ Field(o, z).size = z
  BY DEF Field
<1> HIDE DEF p, t, f, n, d, m
<1>4. /\ Sole(W, t, Field(2, 1)) /\ Sole(W, f, Field(4, 2)) /\ Sole(W, n, Field(20, 16))
      /\ r.domain # 0 => Sole(W, d, Field(12, 2))
      /\ r.mtu # 0 => Sole(W, m, Field(8, 2))
  BY <1>1, <1>2, <1>3 DEF Sole, Hits
<1>5. /\ r.domain = 0 => \A v \in W : ~Hits(v, Field(12, 2))
      /\ r.mtu = 0 => \A v \in W : ~Hits(v, Field(8, 2))
  BY <1>1, <1>2, <1>3 DEF Hits
<1>6. /\ Get(W, Field(2, 1)) = t.val /\ Get(W, Field(4, 2)) = f.val /\ Get(W, Field(20, 16)) = n.val
  BY <1>4, GetOne, Zenon
<1>7. /\ r.domain # 0 => Get(W, Field(12, 2)) = d.val
      /\ r.mtu # 0 => Get(W, Field(8, 2)) = m.val
  BY <1>4, GetOne, Zenon
<1>8. /\ r.domain = 0 => Get(W, Field(12, 2)) = Num(0)
      /\ r.mtu = 0 => Get(W, Field(8, 2)) = Num(0)
  BY <1>5, GetNone, Zenon
<1> QED
  BY <1>2, <1>6, <1>7, <1>8, Zenon

\* at is behind the header.
Behind(at) == at.off \in Nat /\ at.off >= 292

\* The header does not reach into the section.
LEMMA InfoGet ==
  ASSUME NEW r, NEW I, NEW at, Behind(at)
  PROVE  Get(Base(r) \union I, at) = Get(I, at)
<1>1. \A v \in Base(r) : v.off \in Nat /\ v.size \in Nat /\ v.off + v.size <= 292
  BY DEF Base, Put, PutIf, offIface
<1>2. \A v \in Base(r) : ~Hits(v, at)
  BY <1>1 DEF Hits, Behind
<1>3. {v \in Base(r) \union I : Hits(v, at)} = {v \in I : Hits(v, at)}
  BY <1>2, Zenon
<1> QED
  BY <1>3, GetIs, Zenon

\* What grout makes of the payload of a request.
Got(r) == Decode(IfaceLayout[r.type], Base(r) \union Info(r))

\* A request as its header is understood.
HeadGot(g, r) ==
  /\ {"id", "type", "flags", "mtu", "domain", "name"} \subseteq DOMAIN g
  /\ g["type"] = Num(TypeOf[r.type]) /\ g["flags"] = Num(1)
  /\ g["mtu"] = Num(r.mtu) /\ g["domain"] = Num(r.domain) /\ g["name"] = <<"str", r.name>>

\* The header is where gr_iface has it.
HeadAt(at) ==
  /\ {"id", "type", "flags", "mtu", "domain", "name"} \subseteq DOMAIN at
  /\ at["type"] = Field(2, 1) /\ at["flags"] = Field(4, 2) /\ at["mtu"] = Field(8, 2)
  /\ at["domain"] = Field(12, 2) /\ at["name"] = Field(20, 16)

\* g is read from the writes W, its fields from where at has them.
ReadAt(g, at, W) == DOMAIN g = DOMAIN at /\ \A f \in DOMAIN at : g[f] = Get(W, at[f])

\* The header is read from where InterfaceAdd writes it, whatever the section.
LEMMA HeadIs ==
  ASSUME NEW r, NEW at, NEW g, NEW I, \A v \in I : Behind(v), HeadAt(at),
         ReadAt(g, at, Base(r) \union I)
  PROVE  HeadGot(g, r)
<1> DEFINE W == Base(r) \union I
<1>1. /\ Get(W, Field(2, 1)) = Num(TypeOf[r.type]) /\ Get(W, Field(4, 2)) = Num(1)
      /\ Get(W, Field(8, 2)) = Num(r.mtu) /\ Get(W, Field(12, 2)) = Num(r.domain)
      /\ Get(W, Field(20, 16)) = <<"str", r.name>>
  BY BaseGet, Zenon DEF Behind
<1>2. \A f \in {"type", "flags", "mtu", "domain", "name"} : g[f] = Get(W, at[f])
  BY Zenon DEF HeadAt, ReadAt
<1> QED
  BY <1>1, <1>2, Zenon DEF HeadGot, HeadAt, ReadAt

\* A field of the section is read from where InterfaceAdd writes it,
LEMMA InfoOne ==
  ASSUME NEW r, NEW I, NEW w, NEW at, Behind(at), Sole(I, w, at)
  PROVE  Get(Base(r) \union I, at) = w.val
<1>1. Get(Base(r) \union I, at) = Get(I, at)
  BY InfoGet
<1>2. Get(I, at) = w.val
  BY GetOne
<1> QED
  BY <1>1, <1>2, Zenon

\* No write of W reaches into a field.
Untouched(W, at) == \A v \in W : ~Hits(v, at)

\* and is zero where it writes nothing.
LEMMA InfoNone ==
  ASSUME NEW r, NEW I, NEW at, Behind(at), Untouched(I, at)
  PROVE  Get(Base(r) \union I, at) = Num(0)
<1>1. Get(Base(r) \union I, at) = Get(I, at)
  BY InfoGet
<1>2. Get(I, at) = Num(0)
  BY GetNone DEF Untouched
<1> QED
  BY <1>1, <1>2, Zenon

\* grout reads what was written from the layout of the type.
LEMMA GotRead ==
  ASSUME NEW r, NEW I, Info(r) = I, NEW at, IfaceLayout[r.type].at = at
  PROVE  ReadAt(Got(r), at, Base(r) \union I)
BY Zenon DEF Got, Decode, ReadAt

\* A port's section.
LEMMA PortGot ==
  ASSUME NEW r, r.type = "port"
  PROVE  /\ HeadGot(Got(r), r) /\ {"devargs", "driver"} \subseteq DOMAIN Got(r)
         /\ Got(r)["devargs"] = <<"devargs", devargs(r)>> /\ Got(r)["driver"] = Num(0)
<1> DEFINE w == Put(306, 128, <<"devargs", devargs(r)>>)
           a == Field(306, 128)
           b == Field(434, 32)
           at == [id |-> Field(0, 2), type |-> Field(2, 1), flags |-> Field(4, 2), mtu |-> Field(8, 2),
                  domain |-> Field(12, 2), name |-> Field(20, 16), description |-> Field(36, 256),
                  devargs |-> a, driver |-> b]
           g == Got(r)
<1>1. Info(r) = {w}
  BY DEF Info, InfoAt, offIface
<1>2. IfaceLayout[r.type].at = at
  <2>1. IfaceLayout[r.type] = Layout(IfacePortSeq)
    BY IfaceLayouts, Zenon
  <2> QED
    BY <2>1, IfacePortSeqLayout, Zenon
<1>v. w.val = <<"devargs", devargs(r)>>
  BY DEF Put
<1>3. /\ Behind(a) /\ Behind(b) /\ Sole({w}, w, a) /\ Untouched({w}, b)
      /\ \A v \in {w} : Behind(v)
  BY DEF Put, Field, Sole, Untouched, Hits, Behind
<1>4. /\ HeadAt(at) /\ {"devargs", "driver"} \subseteq DOMAIN at
      /\ at["devargs"] = a /\ at["driver"] = b
  BY DEF HeadAt
<1> HIDE DEF w, at, a, b
<1>5. ReadAt(g, at, Base(r) \union {w})
  BY <1>1, <1>2, GotRead, Zenon
<1> HIDE DEF g
<1>6. HeadGot(g, r)
  BY <1>3, <1>4, <1>5, HeadIs, Zenon
<1>7. Get(Base(r) \union {w}, a) = w.val /\ Get(Base(r) \union {w}, b) = Num(0)
  <2>1. Get(Base(r) \union {w}, a) = w.val
    BY <1>3, InfoOne
  <2>2. Get(Base(r) \union {w}, b) = Num(0)
    BY <1>3, InfoNone, Zenon
  <2> QED
    BY <2>1, <2>2, Zenon
<1>8. DOMAIN g = DOMAIN at /\ \A f \in DOMAIN at : g[f] = Get(Base(r) \union {w}, at[f])
  BY <1>5, Zenon DEF ReadAt
<1>9. {"devargs", "driver"} \subseteq DOMAIN g /\ g["devargs"] = w.val /\ g["driver"] = Num(0)
  BY <1>4, <1>7, <1>8, Zenon
<1> QED
  BY <1>v, <1>6, <1>9, Zenon DEF g

\* A bridge's section.
LEMMA BridgeGot ==
  ASSUME NEW r, r.type = "bridge"
  PROVE  /\ HeadGot(Got(r), r) /\ {"mac", "ageing", "bflags", "members"} \subseteq DOMAIN Got(r)
         /\ Got(r)["mac"] = bridgeMAC(r.name) /\ Got(r)["ageing"] = Num(0)
         /\ Got(r)["bflags"] = Num(0) /\ Got(r)["members"] = Num(0)
<1> DEFINE w == Put(296, 6, bridgeMAC(r.name))
           a == Field(296, 6)
           b == Field(292, 2)
           c == Field(294, 2)
           d == Field(302, 2)
           at == [id |-> Field(0, 2), type |-> Field(2, 1), flags |-> Field(4, 2), mtu |-> Field(8, 2),
                  domain |-> Field(12, 2), name |-> Field(20, 16), description |-> Field(36, 256),
                  ageing |-> b, bflags |-> c, mac |-> a, members |-> d]
           g == Got(r)
<1>1. Info(r) = {w}
  BY DEF Info, InfoAt, offIface, offBridgeInfoMAC
<1>2. IfaceLayout[r.type].at = at
  <2>1. IfaceLayout[r.type] = Layout(IfaceBridgeSeq)
    BY IfaceLayouts, Zenon
  <2> QED
    BY <2>1, IfaceBridgeSeqLayout, Zenon
<1>v. w.val = bridgeMAC(r.name)
  BY DEF Put
<1>3. /\ Behind(a) /\ Behind(b) /\ Behind(c) /\ Behind(d)
      /\ Sole({w}, w, a) /\ Untouched({w}, b) /\ Untouched({w}, c) /\ Untouched({w}, d)
      /\ \A v \in {w} : Behind(v)
  BY SMTT(60) DEF Put, Field, Sole, Untouched, Hits, Behind
<1>4. /\ HeadAt(at) /\ {"mac", "ageing", "bflags", "members"} \subseteq DOMAIN at
      /\ at["mac"] = a /\ at["ageing"] = b /\ at["bflags"] = c /\ at["members"] = d
  BY DEF HeadAt
<1> HIDE DEF w, at, a, b, c, d
<1>5. ReadAt(g, at, Base(r) \union {w})
  BY <1>1, <1>2, GotRead, Zenon
<1> HIDE DEF g
<1>6. HeadGot(g, r)
  BY <1>3, <1>4, <1>5, HeadIs, Zenon
<1>7. Get(Base(r) \union {w}, a) = w.val
  BY <1>3, InfoOne
<1>8. \A x \in {b, c, d} : Get(Base(r) \union {w}, x) = Num(0)
  BY <1>3, InfoNone, Zenon
<1>9. DOMAIN g = DOMAIN at /\ \A f \in DOMAIN at : g[f] = Get(Base(r) \union {w}, at[f])
  BY <1>5, Zenon DEF ReadAt
<1>10. /\ {"mac", "ageing", "bflags", "members"} \subseteq DOMAIN g /\ g["mac"] = w.val
       /\ g["ageing"] = Num(0) /\ g["bflags"] = Num(0) /\ g["members"] = Num(0)
  BY <1>4, <1>7, <1>8, <1>9, Zenon
<1> QED
  BY <1>v, <1>6, <1>10, Zenon DEF g

\* A VXLAN's section.
LEMMA VxlanGot ==
  ASSUME NEW r, r.type = "vxlan"
  PROVE  /\ HeadGot(Got(r), r)
         /\ {"vni", "encap_vrf", "dst_port", "af", "local", "mac"} \subseteq DOMAIN Got(r)
         /\ Got(r)["vni"] = Num(5) /\ Got(r)["encap_vrf"] = Num(1) /\ Got(r)["dst_port"] = Num(4789)
         /\ Got(r)["af"] = Num(2) /\ Got(r)["local"] = <<"ip4", "vtep">> /\ Got(r)["mac"] = Num(0)
<1> DEFINE w1 == Put(292, 4, Num(5))
           w2 == Put(296, 2, Num(1))
           w3 == Put(298, 2, Num(4789))
           w4 == Put(300, 1, Num(2))
           w5 == Put(304, 4, <<"ip4", "vtep">>)
           I == {w1, w2, w3, w4, w5}
           a1 == Field(292, 4)
           a2 == Field(296, 2)
           a3 == Field(298, 2)
           a4 == Field(300, 1)
           a5 == Field(304, 4)
           b == Field(320, 6)
           at == [id |-> Field(0, 2), type |-> Field(2, 1), flags |-> Field(4, 2), mtu |-> Field(8, 2),
                  domain |-> Field(12, 2), name |-> Field(20, 16), description |-> Field(36, 256),
                  vni |-> a1, encap_vrf |-> a2, dst_port |-> a3, af |-> a4, local |-> a5, mac |-> b]
           g == Got(r)
<1>1. Info(r) = I
  BY DEF Info, InfoAt, offIface, offVxlan, VXLAN
<1>2. IfaceLayout[r.type].at = at
  <2>1. IfaceLayout[r.type] = Layout(IfaceVxlanSeq)
    BY IfaceLayouts, Zenon
  <2> QED
    BY <2>1, IfaceVxlanSeqLayout, Zenon
<1>v. /\ w1.val = Num(5) /\ w2.val = Num(1) /\ w3.val = Num(4789) /\ w4.val = Num(2)
      /\ w5.val = <<"ip4", "vtep">>
  BY DEF Put
<1>3. /\ Sole(I, w1, a1) /\ Sole(I, w2, a2) /\ Sole(I, w3, a3) /\ Sole(I, w4, a4)
      /\ Sole(I, w5, a5) /\ Untouched(I, b)
      /\ \A v \in I : Behind(v)
  BY DEF Put, Field, Sole, Untouched, Hits, Behind
<1>b. Behind(a1) /\ Behind(a2) /\ Behind(a3) /\ Behind(a4) /\ Behind(a5) /\ Behind(b)
  <2>1. Behind(a1) /\ Behind(a2) /\ Behind(a3)
    BY DEF Field, Behind
  <2>2. Behind(a4) /\ Behind(a5) /\ Behind(b)
    BY DEF Field, Behind
  <2> QED
    BY <2>1, <2>2, Zenon
<1>4. /\ HeadAt(at) /\ {"vni", "encap_vrf", "dst_port", "af", "local", "mac"} \subseteq DOMAIN at
      /\ at["vni"] = a1 /\ at["encap_vrf"] = a2 /\ at["dst_port"] = a3 /\ at["af"] = a4
      /\ at["local"] = a5 /\ at["mac"] = b
  BY DEF HeadAt
<1> HIDE DEF I, w1, w2, w3, w4, w5, at, a1, a2, a3, a4, a5, b
<1>5. ReadAt(g, at, Base(r) \union I)
  BY <1>1, <1>2, GotRead, Zenon
<1> HIDE DEF g
<1>6. HeadGot(g, r)
  BY <1>3, <1>4, <1>5, HeadIs, Zenon
<1>7. /\ Get(Base(r) \union I, a1) = w1.val /\ Get(Base(r) \union I, a2) = w2.val
      /\ Get(Base(r) \union I, a3) = w3.val /\ Get(Base(r) \union I, a4) = w4.val
      /\ Get(Base(r) \union I, a5) = w5.val
  BY <1>3, <1>b, InfoOne
<1>8. Get(Base(r) \union I, b) = Num(0)
  BY <1>3, <1>b, InfoNone, Zenon
<1>9. DOMAIN g = DOMAIN at /\ \A f \in DOMAIN at : g[f] = Get(Base(r) \union I, at[f])
  BY <1>5, Zenon DEF ReadAt
<1>10. /\ {"vni", "encap_vrf", "dst_port", "af", "local", "mac"} \subseteq DOMAIN g
       /\ g["vni"] = w1.val /\ g["encap_vrf"] = w2.val /\ g["dst_port"] = w3.val
       /\ g["af"] = w4.val /\ g["local"] = w5.val /\ g["mac"] = Num(0)
  BY <1>4, <1>7, <1>8, <1>9, Zenon
<1>11. /\ g["vni"] = Num(5) /\ g["encap_vrf"] = Num(1) /\ g["dst_port"] = Num(4789)
       /\ g["af"] = Num(2) /\ g["local"] = <<"ip4", "vtep">>
  BY <1>v, <1>10
<1> QED
  BY <1>6, <1>10, <1>11 DEF g

\* A name that fits its field of 16 bytes with the terminator.
NameOK(n) == IsSeq(n) /\ Len(n) <= 15 /\ \A i \in 1..Len(n) : n[i] # "NUL"

\* The names of ports: the prefix "g-", then letters and digits.
LEMMA PortNameIs ==
  ASSUME NEW n \in PortNames
  PROVE  /\ IsSeq(n) /\ Len(n) = PortLen + 2 /\ n[1] = "g" /\ n[2] = "-"
         /\ \A i \in 3..(PortLen + 2) : n[i] \in Alphanumeric
<1>1. PICK s \in [1..PortLen -> PortChars] : n = <<"g", "-">> \o s
  BY Zenon DEF PortNames
<1>2. PortLen \in Nat /\ PortChars \subseteq Alphanumeric
  BY IfaceAssumption
<1> DEFINE p == <<"g", "-">>
<1>3. IsSeq(p) /\ Len(p) = 2 /\ p[1] = "g" /\ p[2] = "-"
  BY DEF IsSeq
<1>4. IsSeq(s) /\ Len(s) = PortLen
  BY <1>2 DEF IsSeq
<1> HIDE DEF p
<1>5. n = [i \in 1..(2 + PortLen) |-> IF i <= 2 THEN p[i] ELSE s[i - 2]]
  BY <1>1, <1>3, <1>4, Cat DEF p
<1>6. IsSeq(n) /\ Len(n) = PortLen + 2
  BY <1>2, <1>5 DEF IsSeq
<1> QED
  BY <1>2, <1>3, <1>5, <1>6

\* The names of bridges and VXLANs.
LEMMA OtherNameIs ==
  ASSUME NEW n \in OtherNames
  PROVE  NameOK(n)
<1>1. PICK k \in OtherLens : n = <<"b", "-">> \o [i \in 1..k |-> "a"]
  BY Zenon DEF OtherNames
<1>2. k \in 0..13
  BY IfaceAssumption
<1> DEFINE p == <<"b", "-">>
           s == [i \in 1..k |-> "a"]
<1>3. IsSeq(p) /\ Len(p) = 2 /\ p[1] = "b" /\ p[2] = "-"
  BY DEF IsSeq
<1>4. IsSeq(s) /\ Len(s) = k
  BY <1>2 DEF IsSeq
<1>a. \A i \in 1..k : s[i] = "a"
  OBVIOUS
<1> HIDE DEF p, s
<1>5. n = [i \in 1..(2 + k) |-> IF i <= 2 THEN p[i] ELSE s[i - 2]]
  <2>1. n = p \o s
    BY <1>1, Zenon DEF p, s
  <2>2. n = [i \in 1..(Len(p) + Len(s)) |-> IF i <= Len(p) THEN p[i] ELSE s[i - Len(p)]]
    BY <1>3, <1>4, <2>1, Cat, Zenon
  <2>3. Len(p) = 2 /\ Len(s) = k
    BY <1>3, <1>4
  <2> QED
    BY <2>2, <2>3
<1>6. IsSeq(n) /\ Len(n) = k + 2
  BY <1>2, <1>5 DEF IsSeq
<1> QED
  BY <1>2, <1>3, <1>a, <1>5, <1>6 DEF NameOK

\* Every request has such a name.
LEMMA NameFits ==
  ASSUME NEW r \in Requests
  PROVE  NameOK(r.name) /\ r.type \in {"port", "bridge", "vxlan"}
         /\ (r.type = "port" => r.name \in PortNames)
<1>1. r.name \in PortNames \union OtherNames /\ r.type \in {"port", "bridge", "vxlan"}
      /\ (r.type = "port" => r.name \in PortNames)
  BY Zenon DEF Requests
<1>2. ASSUME r.name \in PortNames PROVE NameOK(r.name)
  <2>1. "NUL" \notin Alphanumeric
    BY DEF Alphanumeric
  <2>2. PortLen \in 0..13
    BY IfaceAssumption
  <2> QED
    BY <1>2, <2>1, <2>2, PortNameIs DEF NameOK
<1> QED
  BY <1>1, <1>2, OtherNameIs

\* The first n elements of a sequence.
LEMMA HeadOfSeq ==
  ASSUME NEW S, NEW s \in Seq(S), NEW n \in Nat, n <= Len(s)
  PROVE  /\ SubSeq(s, 1, n) \in Seq(S) /\ Len(SubSeq(s, 1, n)) = n
         /\ \A i \in 1..n : SubSeq(s, 1, n)[i] = s[i]
OBVIOUS

\* A name is read back from the buffer it was copied into, whatever it held.
LEMMA NameReadBack ==
  ASSUME NEW buf, DOMAIN buf = 1..16, NEW n, NameOK(n)
  PROVE  cString(Stored(buf, n)) = n /\ DOMAIN Stored(buf, n) = 1..16
<1> DEFINE b == Stored(buf, n)
           nuls == {i \in DOMAIN b : b[i] = "NUL"}
           l == Len(n)
           least(i) == i \in nuls /\ \A j \in nuls : i <= j
<1>1. DOMAIN b = 1..16 /\ l \in Nat /\ l <= 15 /\ \A i \in 1..l : n[i] # "NUL"
  BY DEF Stored, NameOK, IsSeq
<1>2. \A i \in 1..16 : b[i] = IF i <= l THEN n[i] ELSE IF i = l + 1 THEN "NUL" ELSE buf[i]
  BY DEF Stored
<1>3. b = [i \in 1..16 |-> b[i]]
  BY <1>1 DEF Stored
<1> HIDE DEF b, l
<1>4. l + 1 \in nuls /\ \A j \in nuls : l + 1 <= j
  BY <1>1, <1>2
<1>5. nuls # {} /\ \A i \in nuls : (\A j \in nuls : i <= j) => i = l + 1
  BY <1>1, <1>4
<1>6. (CHOOSE i \in nuls : \A j \in nuls : i <= j) = l + 1
  BY <1>4, <1>5, Zenon
<1>7. cString(b) = SubSeq(b, 1, l)
  <2> DEFINE c == CHOOSE i \in nuls : \A j \in nuls : i <= j
  <2>1. cString(b) = SubSeq(b, 1, c - 1)
    BY <1>5, Zenon DEF cString
  <2>2. c = l + 1
    BY <1>6
  <2> HIDE DEF c
  <2>3. c - 1 = l
    BY <1>1, <2>2
  <2> QED
    BY <2>1, <2>3, Zenon
<1>8. SubSeq(b, 1, l) = n
  <2> DEFINE S == {b[i] : i \in 1..16}
  <2>1. b \in Seq(S) /\ Len(b) = 16
    BY <1>3
  <2> HIDE DEF S
  <2> DEFINE u == SubSeq(b, 1, l)
  <2>2. u \in Seq(S) /\ Len(u) = l /\ \A i \in 1..l : u[i] = b[i]
    <3>1. l <= Len(b)
      BY <1>1, <2>1
    <3> QED
      BY <1>1, <2>1, <3>1, HeadOfSeq, ZenonT(60)
  <2>3. \A i \in 1..l : b[i] = n[i]
    BY <1>1, <1>2
  <2> HIDE DEF u
  <2>4. u = [i \in 1..l |-> u[i]]
    BY <2>2
  <2> QED
    <3>1. n = [i \in 1..l |-> n[i]]
      BY DEF NameOK, IsSeq, l
    <3>2. u = [i \in 1..l |-> n[i]]
      BY <2>2, <2>3, <2>4, Zenon
    <3> QED
      BY <3>1, <3>2, Zenon DEF u
<1> QED
  BY <1>1, <1>7, <1>8 DEF b

\* k is what grout keeps of request r under id i.
Faithful(k, r, i) ==
  /\ k["id"] = Num(i) /\ k["type"] = Num(TypeOf[r.type]) /\ k["flags"] = Num(1)
  /\ k["mtu"] = Num(r.mtu) /\ k["domain"] = Num(r.domain)
  /\ r.type = "port" => k["devargs"] = <<"devargs", devargs(r)>> /\ k["driver"] = Num(0)
  /\ r.type = "bridge" => /\ k["mac"] = bridgeMAC(r.name) /\ k["ageing"] = Num(0)
                          /\ k["bflags"] = Num(0) /\ k["members"] = Num(0)
  /\ r.type = "vxlan" => /\ k["vni"] = Num(5) /\ k["encap_vrf"] = Num(1) /\ k["dst_port"] = Num(4789)
                         /\ k["af"] = Num(2) /\ k["local"] = <<"ip4", "vtep">> /\ k["mac"] = Num(0)

\* The tables of grout: an interface is as it was asked for, its buffer holds
\* its name, and no other interface has it.
TablesOK(as, ks, bs) ==
  /\ as \in [Ids -> Requests \union {None}] /\ DOMAIN ks = Ids /\ DOMAIN bs = Ids
  /\ \A i \in Ids : DOMAIN bs[i] = 1..16
  /\ \A i, j \in Ids : as[i] # None /\ as[j] # None /\ as[i].name = as[j].name => i = j
  /\ \A i \in Ids : as[i] # None => Faithful(ks[i], as[i], i) /\ cString(bs[i]) = as[i].name

\* grout has what callers asked for, under the names they gave.
IfaceInv == TablesOK(asked, kept, bufs)

\* What grout keeps of a decoded payload.
Keep(g, i) == [f \in DOMAIN g \ {"name"} |-> IF f = "id" THEN Num(i) ELSE g[f]]

\* It has the fields of the request, but for the id and the name.
LEMMA KeepAt ==
  ASSUME NEW g, NEW i, NEW f \in DOMAIN g, f # "name", f # "id"
  PROVE  Keep(g, i)[f] = g[f]
BY Zenon DEF Keep

\* It is faithful to the request.
LEMMA KeepFaithful ==
  ASSUME NEW r \in Requests, NEW i
  PROVE  Faithful(Keep(Got(r), i), r, i) /\ Got(r)["name"] = <<"str", r.name>>
<1> DEFINE g == Got(r)
           k == Keep(g, i)
<1>1. HeadGot(g, r) /\ r.type \in {"port", "bridge", "vxlan"}
  <2>1. r.type \in {"port", "bridge", "vxlan"}
    BY NameFits, Zenon
  <2>2. r.type = "port" => HeadGot(g, r)
    BY PortGot, Zenon
  <2>3. r.type = "bridge" => HeadGot(g, r)
    BY BridgeGot, Zenon
  <2>4. r.type = "vxlan" => HeadGot(g, r)
    BY VxlanGot
  <2> QED
    BY <2>1, <2>2, <2>3, <2>4, Zenon
<1>2. k["id"] = Num(i)
  BY <1>1 DEF Keep, HeadGot
<1>3. \A f \in DOMAIN g : f # "name" /\ f # "id" => k[f] = g[f]
  BY KeepAt
<1>4. k["type"] = g["type"] /\ k["flags"] = g["flags"] /\ k["mtu"] = g["mtu"] /\ k["domain"] = g["domain"]
  <2> HIDE DEF g, k
  <2> QED
    BY <1>1, <1>3 DEF HeadGot
<1>5. /\ k["type"] = Num(TypeOf[r.type]) /\ k["flags"] = Num(1)
      /\ k["mtu"] = Num(r.mtu) /\ k["domain"] = Num(r.domain) /\ g["name"] = <<"str", r.name>>
  BY <1>1, <1>4, Zenon DEF HeadGot
<1>6. CASE r.type = "port"
  <2>1. /\ {"devargs", "driver"} \subseteq DOMAIN g
        /\ g["devargs"] = <<"devargs", devargs(r)>> /\ g["driver"] = Num(0)
    BY <1>6, PortGot, Zenon
  <2> HIDE DEF g, k
  <2>2. k["devargs"] = g["devargs"] /\ k["driver"] = g["driver"]
    BY <1>3, <2>1
  <2>3. k["devargs"] = <<"devargs", devargs(r)>> /\ k["driver"] = Num(0)
    BY <2>1, <2>2, Zenon
  <2>4. Faithful(k, r, i)
    BY <1>2, <1>5, <1>6, <2>3 DEF Faithful
  <2> QED
    BY <1>5, <2>4, Zenon DEF g, k
<1>7. CASE r.type = "bridge"
  <2>1. /\ {"mac", "ageing", "bflags", "members"} \subseteq DOMAIN g
        /\ g["mac"] = bridgeMAC(r.name) /\ g["ageing"] = Num(0)
        /\ g["bflags"] = Num(0) /\ g["members"] = Num(0)
    BY <1>7, BridgeGot, Zenon
  <2> HIDE DEF g, k
  <2>2. /\ k["mac"] = g["mac"] /\ k["ageing"] = g["ageing"]
        /\ k["bflags"] = g["bflags"] /\ k["members"] = g["members"]
    BY <1>3, <2>1
  <2>3. /\ k["mac"] = bridgeMAC(r.name) /\ k["ageing"] = Num(0)
        /\ k["bflags"] = Num(0) /\ k["members"] = Num(0)
    BY <2>1, <2>2, Zenon
  <2>4. Faithful(k, r, i)
    BY <1>2, <1>5, <1>7, <2>3, Zenon DEF Faithful
  <2> QED
    BY <1>5, <2>4, Zenon DEF g, k
<1>8. CASE r.type = "vxlan"
  <2>1. /\ {"vni", "encap_vrf", "dst_port", "af", "local", "mac"} \subseteq DOMAIN g
        /\ g["vni"] = Num(5) /\ g["encap_vrf"] = Num(1) /\ g["dst_port"] = Num(4789)
        /\ g["af"] = Num(2) /\ g["local"] = <<"ip4", "vtep">> /\ g["mac"] = Num(0)
    BY <1>8, VxlanGot
  <2> HIDE DEF g, k
  <2>2. /\ k["vni"] = g["vni"] /\ k["encap_vrf"] = g["encap_vrf"] /\ k["dst_port"] = g["dst_port"]
        /\ k["af"] = g["af"] /\ k["local"] = g["local"] /\ k["mac"] = g["mac"]
    BY <1>3, <2>1
  <2>3. /\ k["vni"] = Num(5) /\ k["encap_vrf"] = Num(1) /\ k["dst_port"] = Num(4789)
        /\ k["af"] = Num(2) /\ k["local"] = <<"ip4", "vtep">> /\ k["mac"] = Num(0)
    <3>1. k["vni"] = Num(5) /\ k["encap_vrf"] = Num(1) /\ k["dst_port"] = Num(4789)
      BY <2>1, <2>2
    <3>2. k["af"] = Num(2) /\ k["local"] = <<"ip4", "vtep">> /\ k["mac"] = Num(0)
      BY <2>1, <2>2
    <3> QED
      BY <3>1, <3>2
  <2>4. Faithful(k, r, i)
    BY <1>2, <1>5, <1>8, <2>3 DEF Faithful
  <2> QED
    BY <1>5, <2>4, Zenon DEF g, k
<1> QED
  BY <1>1, <1>6, <1>7, <1>8

\* It holds of the empty tables,
LEMMA IfaceInitInv == IfaceInit => IfaceInv
<1> SUFFICES ASSUME IfaceInit PROVE IfaceInv
  OBVIOUS
<1>1. /\ DOMAIN kept = Ids /\ DOMAIN bufs = Ids /\ \A i \in Ids : DOMAIN bufs[i] = 1..16
      /\ asked \in [Ids -> Requests \union {None}] /\ \A i \in Ids : asked[i] = None
  BY DEF IfaceInit
<1> QED
  BY <1>1, Zenon DEF IfaceInv, TablesOK

\* and every call keeps it.
LEMMA IfaceStep == IfaceInv /\ [IfaceNext]_ifaceVars => IfaceInv'
<1> SUFFICES ASSUME IfaceInv, [IfaceNext]_ifaceVars PROVE IfaceInv'
  OBVIOUS
<1>0. /\ asked \in [Ids -> Requests \union {None}] /\ DOMAIN kept = Ids /\ DOMAIN bufs = Ids
      /\ \A i \in Ids : DOMAIN bufs[i] = 1..16
      /\ \A i, j \in Ids : asked[i] # None /\ asked[j] # None /\ asked[i].name = asked[j].name => i = j
      /\ \A i \in Ids : asked[i] # None => Faithful(kept[i], asked[i], i) /\ cString(bufs[i]) = asked[i].name
  BY Zenon DEF IfaceInv, TablesOK
<1>1. ASSUME NEW r \in Requests, InterfaceAdd(r) PROVE IfaceInv'
  <2>1. PICK i \in Ids : /\ asked[i] = None /\ kept' = [kept EXCEPT ![i] = Keep(Got(r), i)]
                         /\ bufs' = [bufs EXCEPT ![i] = Stored(@, Got(r)["name"][2])]
                         /\ asked' = [asked EXCEPT ![i] = r]
    BY <1>1, Zenon DEF InterfaceAdd, Keep, Got
  <2>2. \A j \in Ids : asked[j] # None => asked[j].name # r.name
    BY <1>1, Zenon DEF InterfaceAdd, Accepts
  <2>3. Faithful(Keep(Got(r), i), r, i) /\ Got(r)["name"][2] = r.name
    <3>1. Got(r)["name"] = <<"str", r.name>> /\ Faithful(Keep(Got(r), i), r, i)
      BY KeepFaithful, Zenon
    <3>2. <<"str", r.name>>[2] = r.name
      OBVIOUS
    <3> QED
      BY <3>1, <3>2, Zenon
  <2>4. NameOK(r.name)
    BY NameFits, Zenon
  <2>5. cString(Stored(bufs[i], r.name)) = r.name /\ DOMAIN Stored(bufs[i], r.name) = 1..16
    BY <1>0, <2>4, NameReadBack, Zenon
  <2>6. /\ DOMAIN kept' = Ids /\ DOMAIN bufs' = Ids /\ asked' \in [Ids -> Requests \union {None}]
        /\ kept'[i] = Keep(Got(r), i) /\ bufs'[i] = Stored(bufs[i], r.name) /\ asked'[i] = r
        /\ \A j \in Ids : j # i => kept'[j] = kept[j] /\ bufs'[j] = bufs[j] /\ asked'[j] = asked[j]
    BY <1>0, <2>1, <2>3, Zenon
  <2>7. \A j \in Ids : DOMAIN bufs'[j] = 1..16
    BY <1>0, <2>5, <2>6, Zenon
  <2>8. \A j, k \in Ids : asked'[j] # None /\ asked'[k] # None /\ asked'[j].name = asked'[k].name => j = k
    <3> SUFFICES ASSUME NEW j \in Ids, NEW k \in Ids, asked'[j] # None, asked'[k] # None,
                        asked'[j].name = asked'[k].name
                 PROVE  j = k
      BY Zenon
    <3>1. CASE j # i /\ k # i
      BY <1>0, <2>6, <3>1, Zenon
    <3>2. CASE j = i /\ k # i
      BY <2>2, <2>6, <3>2, Zenon
    <3>3. CASE j # i /\ k = i
      BY <2>2, <2>6, <3>3, Zenon
    <3> QED
      BY <3>1, <3>2, <3>3
  <2>9. \A j \in Ids : asked'[j] # None => Faithful(kept'[j], asked'[j], j) /\ cString(bufs'[j]) = asked'[j].name
    BY <1>0, <2>3, <2>5, <2>6, Zenon
  <2>10. TablesOK(asked', kept', bufs')
    BY <2>6, <2>7, <2>8, <2>9, Zenon DEF TablesOK
  <2> QED
    BY <2>10, Zenon DEF IfaceInv
<1>2. ASSUME NEW i \in Ids, InterfaceDel(i) PROVE IfaceInv'
  <2>1. /\ DOMAIN kept' = Ids /\ bufs' = bufs /\ asked' \in [Ids -> Requests \union {None}]
        /\ asked'[i] = None
        /\ \A j \in Ids : j # i => kept'[j] = kept[j] /\ asked'[j] = asked[j]
    BY <1>0, <1>2, Zenon DEF InterfaceDel
  <2>2. TablesOK(asked', kept', bufs')
    BY <1>0, <2>1, Zenon DEF TablesOK
  <2> QED
    BY <2>2, Zenon DEF IfaceInv
<1>3. CASE UNCHANGED ifaceVars
  BY <1>3, Zenon DEF IfaceInv, ifaceVars
<1> QED
  BY <1>1, <1>2, <1>3, Zenon DEF IfaceNext

\* Every interface that grout keeps is the one that InterfaceAdd's caller asked for.
LEMMA IfaceInvariant == IfaceSpec => []IfaceInv
BY IfaceInitInv, IfaceStep, PTL DEF IfaceSpec

\* The device of a port is the one that was asked for.
LEMMA FaithfulPort ==
  ASSUME NEW r, NEW k, NEW i, Faithful(k, r, i), r.type = "port"
  PROVE  /\ k.devargs[2].iface = <<IF r.path = "" THEN r.name ELSE r.path>> /\ k.driver = Num(0)
         /\ k.devargs[2].vdev = vdevID(r.name)
<1> DEFINE d == devargs(r)
<1>1. d.iface = <<IF r.path = "" THEN r.name ELSE r.path>> /\ d.vdev = vdevID(r.name)
  BY Zenon DEF devargs
<1>2. <<"devargs", d>>[2] = d
  BY Zenon
<1> HIDE DEF d
<1>3. k.devargs = <<"devargs", d>> /\ k.driver = Num(0)
  BY Zenon DEF Faithful, d
<1>4. k.devargs[2] = d
  BY <1>2, <1>3, Zenon
<1> QED
  BY <1>1, <1>3, <1>4, Zenon

\* A faithful table is what was asked for.
LEMMA InvHasWhatWasAsked == IfaceInv => GroutHasWhatWasAsked
<1> SUFFICES ASSUME IfaceInv PROVE GroutHasWhatWasAsked
  OBVIOUS
<1>1. ASSUME NEW i \in Ids, asked[i] # None PROVE Faithful(kept[i], asked[i], i)
  BY <1>1, Zenon DEF IfaceInv, TablesOK
<1> DEFINE OfPort(k, r) ==
             r.type = "port" => /\ k.devargs[2].iface = <<IF r.path = "" THEN r.name ELSE r.path>>
                                /\ k.driver = Num(0)
           OfBridge(k, r) ==
             r.type = "bridge" => /\ k.mac = <<"mac of", r.name>>
                                  /\ k.ageing = Num(0) /\ k.bflags = Num(0) /\ k.members = Num(0)
           OfVxlan(k, r) ==
             r.type = "vxlan" => /\ k.vni = Num(5) /\ k.encap_vrf = Num(1) /\ k.dst_port = Num(4789)
                                 /\ k.af = Num(2) /\ k.local = <<"ip4", "vtep">> /\ k.mac = Num(0)
           Header(k, r) == k.type = Num(TypeOf[r.type]) /\ k.flags = Num(1)
           Options(k, r) == k.mtu = Num(r.mtu) /\ k.domain = Num(r.domain)
           All(k, r) == /\ Header(k, r)
                        /\ Options(k, r)
                        /\ OfPort(k, r)
                        /\ OfBridge(k, r)
                        /\ OfVxlan(k, r)
<1>2. ASSUME NEW r, NEW k, NEW i, Faithful(k, r, i)
      PROVE  All(k, r)
  <2>1. OfPort(k, r)
    BY <1>2, FaithfulPort, Zenon
  <2>2. OfBridge(k, r)
    BY <1>2, Zenon DEF Faithful, bridgeMAC
  <2>3. OfVxlan(k, r)
    BY <1>2, Zenon DEF Faithful
  <2>4. Header(k, r) /\ Options(k, r)
    BY <1>2 DEF Faithful
  <2> HIDE DEF Header, Options, OfPort, OfBridge, OfVxlan
  <2> QED
    BY <2>1, <2>2, <2>3, <2>4, Zenon
<1>3. \A i \in Ids : asked[i] # None => All(kept[i], asked[i])
  <2> HIDE DEF All
  <2> QED
    BY <1>1, <1>2, Zenon
<1> QED
  BY <1>3, Zenon DEF GroutHasWhatWasAsked

\* The client reads the fields of an item from where grout has them.
LEMMA ItemRead ==
  ASSUME NEW i
  PROVE  /\ Get(Item(i), Field(0, 2)) = kept[i]["id"] /\ Get(Item(i), Field(2, 1)) = kept[i]["type"]
         /\ Get(Item(i), Field(12, 2)) = kept[i]["domain"]
<1> DEFINE at == IfaceLayout.iface.at
           k == kept[i]
           w1 == Put(0, 2, k["id"])
           w2 == Put(2, 1, k["type"])
           w3 == Put(4, 2, k["flags"])
           w4 == Put(8, 2, k["mtu"])
           w5 == Put(12, 2, k["domain"])
           w6 == Put(36, 256, k["description"])
           I == {w1, w2, w3, w4, w5, w6}
<1>1. at = [id |-> Field(0, 2), type |-> Field(2, 1), flags |-> Field(4, 2), mtu |-> Field(8, 2),
            domain |-> Field(12, 2), name |-> Field(20, 16), description |-> Field(36, 256)]
  <2>1. IfaceLayout.iface = Layout(IfaceSeq)
    BY IfaceLayouts, Zenon
  <2> QED
    BY <2>1, IfaceSeqLayout, Zenon
<1> HIDE DEF at
<1>2. /\ DOMAIN at \ {"name"} = {"id", "type", "flags", "mtu", "domain", "description"}
      /\ Put(at["id"].off, at["id"].size, k["id"]) = w1
      /\ Put(at["type"].off, at["type"].size, k["type"]) = w2
      /\ Put(at["flags"].off, at["flags"].size, k["flags"]) = w3
      /\ Put(at["mtu"].off, at["mtu"].size, k["mtu"]) = w4
      /\ Put(at["domain"].off, at["domain"].size, k["domain"]) = w5
      /\ Put(at["description"].off, at["description"].size, k["description"]) = w6
  BY <1>1 DEF Field, Put
<1>3. Item(i) = {Put(at[f].off, at[f].size, k[f]) : f \in DOMAIN at \ {"name"}}
  BY Zenon DEF Item, at
<1>v. w1.val = k["id"] /\ w2.val = k["type"] /\ w5.val = k["domain"]
  BY Zenon DEF Put
<1> DEFINE a1 == Field(0, 2)
           a2 == Field(2, 1)
           a5 == Field(12, 2)
<1>s. Sole(I, w1, a1) /\ Sole(I, w2, a2) /\ Sole(I, w5, a5)
  BY DEF Put, Field, Sole, Hits
<1> HIDE DEF w1, w2, w3, w4, w5, w6, k, a1, a2, a5
<1>4. Item(i) = I
  BY <1>2, <1>3, Zenon
<1> HIDE DEF I
<1>5. Get(I, a1) = w1.val /\ Get(I, a2) = w2.val /\ Get(I, a5) = w5.val
  BY <1>s, GetOne
<1> QED
  BY <1>v, <1>4, <1>5, Zenon DEF a1, a2, a5, k

\* A list of interfaces that are as they were asked for is true.
LEMMA InvListTrue == IfaceInv => ListTrue
<1> SUFFICES ASSUME IfaceInv, NEW t \in {"all", "port", "bridge", "vxlan"}
             PROVE  InterfaceList(t) =
               {[id |-> Num(i), type |-> Num(TypeOf[asked[i].type]), domain |-> Num(asked[i].domain),
                 name |-> asked[i].name]
                 : i \in {j \in Ids : asked[j] # None /\ t \in {"all", asked[j].type}}}
  BY Zenon DEF ListTrue
<1> DEFINE At(i, off, size) == Get(Item(i), [off |-> off, size |-> size])
           Seen(i) == [id |-> At(i, offIface.ID, 2), type |-> At(i, offIface.Type, 1),
                       domain |-> At(i, offIface.Domain, 2), name |-> cString(bufs[i])]
           Real(i) == [id |-> Num(i), type |-> Num(TypeOf[asked[i].type]),
                       domain |-> Num(asked[i].domain), name |-> asked[i].name]
           Js == {j \in Ids : asked[j] # None /\ (t = "all" \/ asked[j].type = t)}
           Ts == {j \in Ids : asked[j] # None /\ t \in {"all", asked[j].type}}
<1>1. Js = Ts
  BY Zenon
<1>2. InterfaceList(t) = {Seen(i) : i \in Js}
  BY Zenon DEF InterfaceList
<1>3. ASSUME NEW i \in Ids, asked[i] # None PROVE Seen(i) = Real(i)
  <2>1. Faithful(kept[i], asked[i], i) /\ cString(bufs[i]) = asked[i].name
    BY <1>3, ZenonT(60) DEF IfaceInv, TablesOK
  <2>2. /\ kept[i]["id"] = Num(i) /\ kept[i]["type"] = Num(TypeOf[asked[i].type])
        /\ kept[i]["domain"] = Num(asked[i].domain)
    BY <2>1 DEF Faithful
  <2>3. offIface.ID = 0 /\ offIface.Type = 2 /\ offIface.Domain = 12
    BY DEF offIface
  <2>4. /\ At(i, offIface.ID, 2) = kept[i]["id"] /\ At(i, offIface.Type, 1) = kept[i]["type"]
        /\ At(i, offIface.Domain, 2) = kept[i]["domain"]
    BY <2>3, ItemRead, Zenon DEF Field
  <2> QED
    BY <2>1, <2>2, <2>4, Zenon
<1> HIDE DEF Seen, Real, Js, Ts
<1>4. {Seen(i) : i \in Js} = {Real(i) : i \in Ts}
  <2>1. \A i \in Ts : Seen(i) = Real(i)
    BY <1>3, Zenon DEF Ts
  <2> QED
    BY <1>1, <2>1, Zenon
<1> QED
  BY <1>2, <1>4, Zenon DEF Real, Ts

\* The id of a port's device: its name without the dash.
VdevOf(n) == [m \in 1..(PortLen + 1) |-> IF m = 1 THEN "g" ELSE n[m + 1]]

\* The loop of vdevID writes the letters and digits of a name in order.
LEMMA VdevIs ==
  ASSUME NEW n \in PortNames
  PROVE  vdevID(n) = VdevOf(n)
<1> DEFINE l == PortLen + 2
           Part(k) == [m \in 1..(k - 1) |-> IF m = 1 THEN "g" ELSE n[m + 1]]
           W == [k \in 0..l |-> IF k = 0 THEN <<>> ELSE IF k = 1 THEN <<"g">> ELSE Part(k)]
           Loop(f) == f = [k \in 0..l |-> IF k = 0 THEN <<>> ELSE WriteRune(f[k - 1], n[k])]
<1>1. /\ Len(n) = l /\ n[1] = "g" /\ n[2] = "-" /\ \A k \in 3..l : n[k] \in Alphanumeric
  BY PortNameIs
<1>2. PortLen \in Nat /\ l \in Nat
  BY IfaceAssumption
<1> HIDE DEF l
<1>3. "g" \in Alphanumeric /\ "-" \notin Alphanumeric /\ "A" \notin Alphanumeric
  BY DEF Alphanumeric
<1>4. ASSUME NEW id, NEW c \in Alphanumeric PROVE WriteRune(id, c) = Append(id, c)
  BY <1>3, Zenon DEF WriteRune, ToLower
<1>5. ASSUME NEW id PROVE WriteRune(id, "-") = id
  BY <1>3 DEF WriteRune, ToLower
<1>6. ASSUME NEW k \in 1..l PROVE W[k] = WriteRune(W[k - 1], n[k])
  <2>1. CASE k = 1
    <3>1. W[0] = <<>> /\ W[1] = <<"g">>
      BY <1>2, <2>1
    <3>2. Append(<<>>, "g") = <<"g">>
      OBVIOUS
    <3>3. WriteRune(<<>>, "g") = Append(<<>>, "g")
      BY <1>3, <1>4, Zenon
    <3>4. k - 1 = 0 /\ n[k] = "g"
      BY <1>1, <2>1
    <3> HIDE DEF W
    <3> QED
      BY <2>1, <3>1, <3>2, <3>3, <3>4, Zenon
  <2>2. CASE k = 2
    <3>1. W[1] = <<"g">> /\ W[2] = Part(2)
      BY <1>2, <2>2
    <3>2. Part(2) = <<"g">>
      OBVIOUS
    <3> HIDE DEF W, Part
    <3> QED
      BY <1>1, <1>5, <2>2, <3>1, <3>2
  <2>3. CASE k >= 3
    <3>1. n[k] \in Alphanumeric /\ k - 1 \in 2..l
      BY <1>1, <1>2, <2>3
    <3>2. W[k] = Part(k) /\ W[k - 1] = Part(k - 1)
      BY <1>2, <2>3
    <3>3. Append(Part(k - 1), n[k]) = Part(k)
      <4> DEFINE a == Part(k - 1)
                 S == {a[m] : m \in 1..(k - 2)} \union {n[k]}
      <4>1. a \in [1..(k - 2) -> S] /\ k - 2 \in Nat
        BY <2>3
      <4>2. \A m \in 1..(k - 2) : a[m] = IF m = 1 THEN "g" ELSE n[m + 1]
        BY <2>3
      <4> HIDE DEF S, a
      <4>3. a \in Seq(S) /\ Len(a) = k - 2
        BY <4>1
      <4>4. Append(a, n[k]) = [m \in 1..(k - 1) |-> IF m <= k - 2 THEN a[m] ELSE n[k]]
        BY <2>3, <4>3
      <4>5. \A m \in 1..(k - 1) : (IF m <= k - 2 THEN a[m] ELSE n[k]) = IF m = 1 THEN "g" ELSE n[m + 1]
        BY <2>3, <4>2
      <4> QED
        BY <4>4, <4>5, Zenon DEF a
    <3> HIDE DEF W, Part
    <3> QED
      BY <1>4, <3>1, <3>2, <3>3, Zenon
  <2> QED
    BY <2>1, <2>2, <2>3
<1>7. Loop(W)
  <2>1. W[0] = <<>>
    BY <1>2
  <2>2. \A k \in 0..l : W[k] = IF k = 0 THEN <<>> ELSE WriteRune(W[k - 1], n[k])
    <3> HIDE DEF W
    <3> QED
      BY <1>2, <1>6, <2>1
  <2>3. W = [k \in 0..l |-> W[k]]
    OBVIOUS
  <2> HIDE DEF W
  <2> QED
    BY <2>2, <2>3, Zenon
<1> DEFINE id == CHOOSE f : Loop(f)
<1>8. Loop(id)
  <2> HIDE DEF Loop, W
  <2> QED
    BY <1>7, Zenon
<1>9. vdevID(n) = id[l]
  BY <1>1, Zenon DEF vdevID
<1> HIDE DEF id
<1>10. /\ id[0] = <<>> /\ \A k \in 1..l : id[k] = WriteRune(id[k - 1], n[k])
  BY <1>2, <1>8
<1>11. l \in 0..l /\ \A k \in 0..l : id[k] = W[k]
  <2> DEFINE Q == {k \in 0..l : id[k] = W[k]}
  <2>1. 0 \in Q
    BY <1>2, <1>10
  <2> HIDE DEF W
  <2>2. \A k \in 1..l : k - 1 \in Q => k \in Q
    BY <1>2, <1>6, <1>10
  <2>3. \A k \in 0..l : k \in Q
    <3> HIDE DEF Q
    <3> QED
      BY <1>2, <2>1, <2>2, UpTo
  <2> QED
    BY <1>2, <2>3
<1>12. W[l] = VdevOf(n)
  BY <1>2 DEF VdevOf, l
<1> QED
  BY <1>9, <1>11, <1>12, Zenon

\* So two ports whose devices have the same id have the same name.
LEMMA VdevInjective ==
  ASSUME NEW n \in PortNames, NEW m \in PortNames, vdevID(n) = vdevID(m)
  PROVE  n = m
<1>1. VdevOf(n) = VdevOf(m)
  BY VdevIs
<1>2. PortLen \in Nat
  BY IfaceAssumption
<1>3. \A k \in 2..(PortLen + 1) : n[k + 1] = m[k + 1]
  <2>1. \A k \in 2..(PortLen + 1) : VdevOf(n)[k] = n[k + 1] /\ VdevOf(m)[k] = m[k + 1]
    BY <1>2 DEF VdevOf
  <2> QED
    BY <1>1, <2>1, Zenon
<1>4. ASSUME NEW k \in 3..(PortLen + 2) PROVE n[k] = m[k]
  <2>1. k - 1 \in 2..(PortLen + 1) /\ (k - 1) + 1 = k
    BY <1>2
  <2> QED
    BY <1>3, <2>1
<1>5. /\ Len(n) = PortLen + 2 /\ Len(m) = PortLen + 2
      /\ n[1] = "g" /\ m[1] = "g" /\ n[2] = "-" /\ m[2] = "-"
  BY PortNameIs
<1>6. \A k \in 1..(PortLen + 2) : n[k] = m[k]
  BY <1>2, <1>4, <1>5
<1>7. n = [k \in 1..Len(n) |-> n[k]] /\ m = [k \in 1..Len(m) |-> m[k]]
  BY PortNameIs, Zenon DEF IsSeq
<1>8. [k \in 1..(PortLen + 2) |-> n[k]] = [k \in 1..(PortLen + 2) |-> m[k]]
  BY <1>6, Zenon
<1> QED
  BY <1>5, <1>7, <1>8, Zenon

\* The devices of ports of different names differ.
LEMMA InvVdevsDistinct == IfaceInv => VdevsDistinct
<1> SUFFICES ASSUME IfaceInv, NEW i \in Ids, NEW j \in Ids,
                    i # j, asked[i] # None, asked[j] # None,
                    asked[i].type = "port", asked[j].type = "port",
                    kept[i].devargs[2].vdev = kept[j].devargs[2].vdev
             PROVE  FALSE
  BY Zenon DEF VdevsDistinct
<1>1. /\ asked[i].name # asked[j].name /\ asked[i] \in Requests /\ asked[j] \in Requests
      /\ Faithful(kept[i], asked[i], i) /\ Faithful(kept[j], asked[j], j)
  BY Zenon DEF IfaceInv, TablesOK
<1>2. asked[i].name \in PortNames /\ asked[j].name \in PortNames
  BY <1>1, NameFits, Zenon
<1>3. /\ kept[i].devargs[2].vdev = vdevID(asked[i].name)
      /\ kept[j].devargs[2].vdev = vdevID(asked[j].name)
  BY <1>1, FaithfulPort, Zenon
<1> QED
  BY <1>1, <1>2, <1>3, VdevInjective, Zenon

\* Whatever callers ask InterfaceAdd for, grout creates: a field that client.go
\* writes is read by grout from the same place, and no other field is touched.
THEOREM IfaceCorrect == IfaceSpec => []GroutHasWhatWasAsked
BY IfaceInvariant, InvHasWhatWasAsked, PTL

\* InterfaceList, which reads the items of grout's answer at offIface, returns
\* the interfaces that exist, with the type, domain and name they were created with.
THEOREM ListCorrect == IfaceSpec => []ListTrue
BY IfaceInvariant, InvListTrue, PTL

\* No two ports that the plugin names get the same DPDK device: vdevID, which
\* drops characters, keeps these names apart.
THEOREM DevicesDistinct == IfaceSpec => []VdevsDistinct
BY IfaceInvariant, InvVdevsDistinct, PTL
=============================================================================
