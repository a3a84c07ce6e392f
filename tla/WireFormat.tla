----------------------------- MODULE WireFormat ------------------------------
(***************************************************************************)
(* The payloads of grout's API.  The client writes a field at an offset it *)
(* names itself; grout reads the field where the C compiler has put it.    *)
(* The structs are grout's, declared here as client.go describes them, and *)
(* their layout follows the usual ABI: a member is aligned to its own      *)
(* alignment, and a struct is padded to the largest one of its members.    *)
(***************************************************************************)
EXTENDS Naturals, Sequences, FiniteSetsExt

Member(f, size, align) == [f |-> f, size |-> size, align |-> align]

U8(f) == Member(f, 1, 1)

U16(f) == Member(f, 2, 2)

U32(f) == Member(f, 4, 4)

Bytes(f, n) == Member(f, n, 1)

RoundUp(n, a) == ((n + a - 1) \div a) * a

AlignOf(s) == Max({s[i].align : i \in DOMAIN s})

Offsets(s) ==
  LET off[i \in DOMAIN s] ==
        IF i = 1 THEN 0 ELSE RoundUp(off[i - 1] + s[i - 1].size, s[i].align)
  IN off

End(s) == Offsets(s)[Len(s)] + s[Len(s)].size

SizeOf(s) == RoundUp(End(s), AlignOf(s))

\* s as a member of another struct: aligned as a whole, padded at its end.
Struct(s) == [s EXCEPT ![1].align = AlignOf(s)] \o <<Bytes("pad", SizeOf(s) - End(s))>>

\* Where the fields of s are found, and how long it is.
Layout(s) ==
  [size |-> SizeOf(s),
   at |-> [f \in {s[i].f : i \in DOMAIN s} \ {"pad"} |->
             LET i == CHOOSE j \in DOMAIN s : s[j].f = f
             IN [off |-> Offsets(s)[i], size |-> s[i].size]]]

-----------------------------------------------------------------------------
\* A value on the wire: a number, an address, a string.
Num(n) == <<"num", n>>

\* One write of val into size bytes at off of a zeroed payload.
Put(off, size, val) == [off |-> off, size |-> size, val |-> val]

PutIf(cond, off, size, val) == IF cond THEN {Put(off, size, val)} ELSE {}

\* What is read from a field: what was written there, zero when nothing was,
\* and no value at all when a write covers only a part of it.
Get(writes, at) ==
  LET hits == {w \in writes : w.off < at.off + at.size /\ at.off < w.off + w.size}
  IN IF hits = {} THEN Num(0)
     ELSE IF \E w \in hits : hits = {w} /\ w.off = at.off /\ w.size <= at.size
     THEN (CHOOSE w \in hits : TRUE).val
     ELSE <<"garbled">>

\* The struct that grout makes of a payload.
Decode(layout, writes) == [f \in DOMAIN layout.at |-> Get(writes, layout.at[f])]
=============================================================================
