-------------------------- MODULE WireDecode_proofs --------------------------
(***************************************************************************)
(* Every read of the decoder stays in bounds, the three limits of a decode *)
(* hold and a failed merge leaves nothing half-decoded where it must not,  *)
(* for any schema, buffers, tables and limits, and any size of varint.     *)
(***************************************************************************)
EXTENDS WireDecode, Varint_proofs

(***************************************************************************)
(* The inductive invariant.                                                *)
(***************************************************************************)
Roles == {"root", "msg", "elem", "oneof", "value", "entry", "unk", "skip"}
FrameFields == {"role", "type", "num", "group", "end", "bound", "depth", "val",
                "had"}

\* What the decoder does with `val` plays no part here.
FrameOK(fr) ==
    /\ DOMAIN fr = FrameFields
    /\ fr.role \in Roles /\ fr.type \in Types /\ fr.group \in BOOLEAN
    /\ fr.end \in Nat /\ fr.bound \in Nat /\ fr.depth \in Nat
    /\ fr.role = "entry" => fr.num \in DOMAIN Schema[fr.type]

\* What StaysInBounds says of one activation and of two that are nested.
Within(fr) ==
    /\ fr.bound <= Len(data)
    /\ ~ fr.group => fr.end <= fr.bound
    /\ IsMessage(fr) /\ fr.type \in tables => fr.bound = fr.end

\* An activation costs a level unless it is an entry's, an entry's is not in
\* another entry's, and only the outermost is that of the call.
Under(fr, below) ==
    /\ fr.role # "root"
    /\ fr.bound <= below.bound
    /\ fr.depth = below.depth - (IF fr.role = "entry" THEN 0 ELSE 1)
    /\ ~ (below.role = "entry" /\ fr.role = "entry")

WellNested(s) ==
    /\ \A k \in 1 .. Len(s) : FrameOK(s[k]) /\ Within(s[k])
    /\ \A k \in 2 .. Len(s) : Under(s[k], s[k - 1])
    /\ s # <<>> => /\ s[1].role = "root" /\ ~ s[1].group
                   /\ s[1].depth = RecursionLimit

IsSeq(s) == \E S : s \in Seq(S)

TypeOK ==
    /\ root \in Types /\ data \in Seq(Nat)
    /\ tables \in TableSets \cup {{}}
    /\ phase \in {"begin", "running", "unwinding", "done"}
    /\ IsSeq(stack)
    /\ phase # "begin" => stack # <<>>
    /\ pos \in Nat \ {0}

IInv ==
    /\ TypeOK /\ WellNested(stack) /\ BudgetsKept
    /\ phase = "running" => pos <= Top.bound + 1

-----------------------------------------------------------------------------
(***************************************************************************)
(* What the reads return.                                                  *)
(***************************************************************************)
LEMMA ReadTagFacts ==
    ASSUME NEW d \in Seq(Nat), NEW p \in Nat \ {0}, NEW bound \in Nat,
           bound <= Len(d), ReadTag(d, p, bound).err = "ok"
    PROVE  ReadTag(d, p, bound).next \in (p + 1) .. (bound + 1)
  <1> DEFINE r == ReadVarint(d, p, bound)
  <1>1. ReadIn(r, p, bound)
    BY ReadVarintFacts
  <1> HIDE DEF r
  <1>2. ReadTag(d, p, bound) =
          CASE r.err # "ok"       -> TagErr(r.err)
            [] r.v >= IntMod    -> TagErr("field_number")
            [] r.v % 8 > Fixed32Wire -> TagErr("wire_type")
            [] r.v \div 8 = 0   -> TagErr("field_number")
            [] OTHER -> [err |-> "ok", num |-> r.v \div 8, wt |-> r.v % 8,
                         next |-> r.next]
    BY DEF ReadTag, r
  <1>3. r.err = "ok" /\ ReadTag(d, p, bound).next = r.next
    BY <1>2 DEF TagErr
  <1> QED BY <1>1, <1>3 DEF ReadIn

\* A length is covered by the bytes there are.
SpanIn(r, p, bound) ==
    /\ r.v \in Nat /\ r.next \in (p + 1) .. (bound + 1)
    /\ r.next + r.v - 1 <= bound

LEMMA ReadSpanFacts ==
    ASSUME NEW d \in Seq(Nat), NEW p \in Nat \ {0}, NEW bound \in Nat,
           bound <= Len(d), NEW max, ReadSpan(d, p, bound, max).err = "ok"
    PROVE  SpanIn(ReadSpan(d, p, bound, max), p, bound)
  <1> DEFINE r == ReadVarint(d, p, bound)
  <1>1. ReadIn(r, p, bound)
    BY ReadVarintFacts
  <1> HIDE DEF r
  <1>2. ReadSpan(d, p, bound, max) =
          IF r.err # "ok" THEN r
          ELSE IF r.v > max THEN ReadErr("too_large")
          ELSE IF bound - r.next + 1 < r.v THEN ReadErr("eof") ELSE r
    BY DEF ReadSpan, r
  <1>3. ReadSpan(d, p, bound, max) = r /\ r.err = "ok"
        /\ ~ (bound - r.next + 1 < r.v)
    BY <1>2 DEF ReadErr
  <1>4. r.v \in Nat /\ r.next \in (p + 1) .. (bound + 1)
    BY <1>1, <1>3 DEF ReadIn
  <1>5. r.next + r.v - 1 <= bound
    BY <1>3, <1>4
  <1> QED BY <1>3, <1>4, <1>5 DEF SpanIn

LEMMA ReadFixedFacts ==
    ASSUME NEW p \in Nat \ {0}, NEW bound \in Nat, NEW n \in Nat \ {0},
           ReadFixed(p, bound, n).err = "ok"
    PROVE  ReadFixed(p, bound, n).next \in (p + 1) .. (bound + 1)
  <1>1. ~ (bound - p + 1 < n)
    BY DEF ReadFixed, ReadErr
  <1>2. ReadFixed(p, bound, n).next = p + n
    BY <1>1 DEF ReadFixed, ReadOk
  <1> QED BY <1>1, <1>2

LEMMA ReadFlatFacts ==
    ASSUME NEW d \in Seq(Nat), NEW p \in Nat \ {0}, NEW bound \in Nat,
           bound <= Len(d), NEW wt, ReadFlat(d, p, bound, wt).err = "ok"
    PROVE  ReadFlat(d, p, bound, wt).next \in (p + 1) .. (bound + 1)
  <1> DEFINE f == ReadFlat(d, p, bound, wt)
             varint == ReadVarint(d, p, bound)
             r == ReadSpan(d, p, bound, NoLimit)
             span == IF r.err # "ok" THEN r ELSE ReadOk(r.v, r.next + r.v)
  <1>1. f = CASE wt = 0 -> varint
              [] wt = 1 -> ReadFixed(p, bound, Fixed64Len)
              [] wt = 5 -> ReadFixed(p, bound, Fixed32Len)
              [] wt = 2 -> span
              [] OTHER  -> ReadErr("wire_type")
    BY DEF ReadFlat, VarintWire, Fixed64Wire, Fixed32Wire, LenWire
  <1>2. f.err = "ok"
    OBVIOUS
  <1>3. SUFFICES f.next \in (p + 1) .. (bound + 1)
    OBVIOUS
  <1>4. varint.err = "ok" => varint.next \in (p + 1) .. (bound + 1)
    BY ReadVarintFacts DEF ReadIn
  <1>5. span.err = "ok" => span.next \in (p + 1) .. (bound + 1)
    <2> SUFFICES ASSUME span.err = "ok" PROVE span.next \in (p + 1) .. (bound + 1)
      OBVIOUS
    <2>1. r.err = "ok" => SpanIn(r, p, bound)
      BY ReadSpanFacts
    <2> HIDE DEF r
    <2>2. r.err = "ok" /\ span.next = r.next + r.v
      BY DEF ReadOk
    <2>3. r.v \in Nat /\ r.next \in (p + 1) .. (bound + 1)
          /\ r.next + r.v - 1 <= bound
      BY <2>1, <2>2 DEF SpanIn
    <2>4. r.next + r.v \in (p + 1) .. (bound + 1)
      BY <2>3
    <2> QED BY <2>2, <2>4
  <1> HIDE DEF f, varint, span
  <1>6. CASE wt = 0
    <2>1. f = varint
      BY <1>1, <1>6
    <2> QED BY <1>2, <1>4, <2>1
  <1>7. CASE wt = 1
    <2>1. f = ReadFixed(p, bound, Fixed64Len)
      BY <1>1, <1>7
    <2> QED BY <1>2, <2>1, ReadFixedFacts, FormatAssumption
  <1>8. CASE wt = 5
    <2>1. f = ReadFixed(p, bound, Fixed32Len)
      BY <1>1, <1>8
    <2> QED BY <1>2, <2>1, ReadFixedFacts, FormatAssumption
  <1>9. CASE wt = 2
    <2>1. f = span
      BY <1>1, <1>9
    <2> QED BY <1>2, <1>5, <2>1
  <1>10. CASE wt \notin {0, 1, 2, 5}
    <2>1. f = ReadErr("wire_type")
      BY <1>1, <1>10
    <2> QED BY <1>2, <2>1 DEF ReadErr
  <1> QED BY <1>6, <1>7, <1>8, <1>9, <1>10

\* What the loop over a packed payload has after each round.
PackedResults(from, to) == [err : ReadErrors, vals : Seq(Nat), next : from .. to + 1]

LEMMA PackedIntsFacts ==
    ASSUME NEW d \in Seq(Nat), NEW from \in Nat \ {0}, NEW to \in Nat,
           to <= Len(d), from <= to + 1
    PROVE  PackedInts(d, from, to) \in PackedResults(from, to)
  <1> DEFINE V == PackedResults(from, to)
             start == [err |-> "ok", vals |-> <<>>, next |-> from]
             read(s) == ReadVarint(d, s.next, to)
             next(s) ==
                IF s.err # "ok" \/ s.next > to THEN s
                ELSE IF read(s).err # "ok" THEN [s EXCEPT !.err = read(s).err]
                ELSE [err |-> "ok", vals |-> Append(s.vals, read(s).v % IntMod),
                      next |-> read(s).next]
  <1>1. start \in V
    BY DEF PackedResults, ReadErrors
  <1>2. ASSUME NEW s \in V PROVE next(s) \in V
    <2>1. s.err \in ReadErrors /\ s.vals \in Seq(Nat) /\ s.next \in from .. to + 1
      BY DEF PackedResults
    <2>2. s.next \in Nat \ {0}
      BY <2>1
    <2> DEFINE r == read(s)
    <2>3. ReadIn(r, s.next, to)
      BY <2>2, ReadVarintFacts
    <2> HIDE DEF r
    <2>4. CASE s.err # "ok" \/ s.next > to
      BY <2>4
    <2>5. CASE ~ (s.err # "ok" \/ s.next > to) /\ r.err # "ok"
      <3>1. next(s) = [s EXCEPT !.err = r.err]
        BY <2>5 DEF r
      <3>2. r.err \in ReadErrors
        BY <2>3 DEF ReadIn
      <3> QED BY <3>1, <3>2 DEF PackedResults
    <2>6. CASE ~ (s.err # "ok" \/ s.next > to) /\ r.err = "ok"
      <3>1. next(s) = [err |-> "ok", vals |-> Append(s.vals, r.v % IntMod),
                       next |-> r.next]
        BY <2>6 DEF r
      <3>5. /\ r.v \in Nat /\ r.next \in (s.next + 1) .. (to + 1)
            /\ s.next \in from .. to + 1
        BY <2>1, <2>3, <2>6 DEF ReadIn
      <3>6. r.v % IntMod \in Nat
        BY <3>5, FormatAssumption
      <3>2. r.v % IntMod \in Nat /\ r.next \in from .. to + 1
        BY <3>5, <3>6
      <3>3. Append(s.vals, r.v % IntMod) \in Seq(Nat)
        BY <2>1, <3>2
      <3> QED BY <3>1, <3>2, <3>3 DEF PackedResults, ReadErrors
    <2> QED BY <2>4, <2>5, <2>6
  <1> HIDE DEF V, start, next
  <1>3. PICK step : /\ step \in Steps(V)
                    /\ \A n \in Nat, s \in V : step[n][s] = next(s)
    <2> DEFINE f == [n \in Nat |-> [s \in V |-> next(s)]]
    <2>1. f \in Steps(V)
      BY <1>2 DEF Steps
    <2>2. \A n \in Nat, s \in V : f[n][s] = next(s)
      OBVIOUS
    <2> QED BY <2>1, <2>2
  <1>4. PICK g : /\ g \in [Nat -> V] /\ g[0] = start
                 /\ \A n \in Nat : g[n + 1] = step[n + 1][g[n]]
    <2>1. PICK g : Recursive(V, start, step, g)
      BY <1>1, <1>3, Recursion
    <2> QED BY <2>1 DEF Recursive
  <1>5. ASSUME NEW n \in Nat
        PROVE  g[n] = IF n = 0 THEN start ELSE next(g[n - 1])
    <2>1. CASE n = 0
      BY <1>4, <2>1
    <2>2. CASE n # 0
      <3>1. n - 1 \in Nat /\ (n - 1) + 1 = n
        BY <2>2
      <3>2. g[n] = step[n][g[n - 1]] /\ g[n - 1] \in V
        BY <1>4, <3>1
      <3> QED BY <1>3, <2>2, <3>2
    <2> QED BY <2>1, <2>2
  <1>6. g = [n \in Nat |-> IF n = 0 THEN start ELSE next(g[n - 1])]
    <2>1. g = [n \in Nat |-> g[n]]
      BY <1>4
    <2> QED BY <1>5, <2>1
  <1> DEFINE run == CHOOSE f :
                      f = [n \in Nat |-> IF n = 0 THEN start ELSE next(f[n - 1])]
  <1>7. run = [n \in Nat |-> IF n = 0 THEN start ELSE next(run[n - 1])]
    BY <1>6
  <1>8. PackedInts(d, from, to) = run[to - from + 1]
    BY DEF PackedInts, start, next
  <1> HIDE DEF run
  <1> DEFINE S == {n \in Nat : run[n] \in V}
  <1>9. Nat \subseteq S
    <2>1. 0 \in S
      BY <1>1, <1>7
    <2>2. ASSUME NEW n \in Nat, n \in S PROVE n + 1 \in S
      <3>1. n + 1 \in Nat /\ n + 1 # 0 /\ (n + 1) - 1 = n
        OBVIOUS
      <3>2. run[n + 1] = next(run[n])
        BY <1>7, <3>1
      <3> QED BY <1>2, <2>2, <3>2
    <2> HIDE DEF S
    <2> QED BY <2>1, <2>2, Induction
  <1>10. to - from + 1 \in Nat
    OBVIOUS
  <1> QED BY <1>8, <1>9, <1>10 DEF V

-----------------------------------------------------------------------------
(***************************************************************************)
(* The stack: an activation whose value changed, one more, one less.       *)
(***************************************************************************)
\* The same activation but for its value.
SameFrame(a, b) ==
    /\ DOMAIN a = FrameFields
    /\ a.role = b.role /\ a.type = b.type /\ a.num = b.num
    /\ a.group = b.group /\ a.end = b.end /\ a.bound = b.bound
    /\ a.depth = b.depth /\ a.had = b.had

LEMMA SameFrameOK ==
    ASSUME NEW a, NEW b, SameFrame(a, b), FrameOK(b), Within(b)
    PROVE  FrameOK(a) /\ Within(a)
  BY DEF SameFrame, FrameOK, Within, IsMessage

LEMMA Appended ==
    ASSUME NEW s, IsSeq(s), NEW x
    PROVE  /\ IsSeq(Append(s, x))
           /\ Len(s) \in Nat /\ Len(Append(s, x)) = Len(s) + 1
           /\ \A k \in 1 .. Len(s) : Append(s, x)[k] = s[k]
           /\ Append(s, x)[Len(s) + 1] = x
  <1>1. PICK S : s \in Seq(S)
    BY DEF IsSeq
  <1> DEFINE T == S \cup {x}
  <1>2. s \in Seq(T) /\ x \in T
    BY <1>1
  <1> HIDE DEF T
  <1>3. Append(s, x) \in Seq(T)
    BY <1>2
  <1> QED BY <1>2, <1>3 DEF IsSeq

LEMMA Shortened ==
    ASSUME NEW s, IsSeq(s), NEW n \in 0 .. Len(s)
    PROVE  /\ IsSeq(SubSeq(s, 1, n)) /\ Len(SubSeq(s, 1, n)) = n
           /\ \A k \in 1 .. n : SubSeq(s, 1, n)[k] = s[k]
  <1>1. PICK S : s \in Seq(S)
    BY DEF IsSeq
  <1>2. SubSeq(s, 1, n) \in Seq(S)
    BY <1>1
  <1> QED BY <1>1, <1>2 DEF IsSeq

\* Everything above position n replaced by x.
CutAt(t, s, n, x) ==
    /\ IsSeq(t) /\ t # <<>> /\ Len(t) = n + 1 /\ t[n + 1] = x
    /\ \A k \in 1 .. n : t[k] = s[k]

LEMMA Cut ==
    ASSUME NEW s, IsSeq(s), NEW n \in 0 .. Len(s), NEW x
    PROVE  CutAt(Append(SubSeq(s, 1, n), x), s, n, x)
  <1> DEFINE t == Append(SubSeq(s, 1, n), x)
  <1> DEFINE u == SubSeq(s, 1, n)
  <1>1. IsSeq(u) /\ Len(u) = n /\ \A k \in 1 .. n : u[k] = s[k]
    BY Shortened
  <1> HIDE DEF u
  <1>2. t = Append(u, x)
    BY DEF u
  <1> HIDE DEF t
  <1>3. IsSeq(t) /\ Len(t) = n + 1 /\ t[n + 1] = x
        /\ \A k \in 1 .. n : t[k] = u[k]
    <2>1. /\ IsSeq(t) /\ Len(u) \in Nat /\ Len(t) = Len(u) + 1
          /\ \A k \in 1 .. Len(u) : t[k] = u[k]
          /\ t[Len(u) + 1] = x
      <3>1. IsSeq(u)
        BY <1>1
      <3>2. /\ IsSeq(Append(u, x))
            /\ Len(u) \in Nat /\ Len(Append(u, x)) = Len(u) + 1
            /\ \A k \in 1 .. Len(u) : Append(u, x)[k] = u[k]
            /\ Append(u, x)[Len(u) + 1] = x
        BY <3>1, Appended, Zenon
      <3> QED BY <1>2, <3>2
    <2> QED BY <1>1, <2>1
  <1>4. t # <<>>
    <2>1. Len(<<>>) = 0
      OBVIOUS
    <2>2. n \in Nat
      <3>1. PICK S : s \in Seq(S)
        BY DEF IsSeq
      <3> QED BY <3>1
    <2> QED BY <1>3, <2>1, <2>2
  <1>5. CutAt(t, s, n, x)
    BY <1>1, <1>3, <1>4 DEF CutAt
  <1> QED BY <1>5 DEF t

\* A stack of nested activations with x on top.
StackWith(t, x) ==
    IsSeq(t) /\ WellNested(t) /\ t # <<>> /\ t[Len(t)] = x

LEMMA WellNestedCut ==
    ASSUME NEW s, IsSeq(s), WellNested(s), NEW n \in Nat, n + 1 <= Len(s),
           NEW x, SameFrame(x, s[n + 1])
    PROVE  StackWith(Append(SubSeq(s, 1, n), x), x)
  <1> DEFINE t == Append(SubSeq(s, 1, n), x)
  <1>1. Len(s) \in Nat
    BY Appended
  <1>2. n \in 0 .. Len(s) /\ n + 1 \in 1 .. Len(s)
    BY <1>1
  <1>3. /\ IsSeq(t) /\ t # <<>> /\ Len(t) = n + 1 /\ t[n + 1] = x
        /\ \A k \in 1 .. n : t[k] = s[k]
    <2>1. CutAt(t, s, n, x)
      BY <1>2, Cut
    <2> QED BY <2>1 DEF CutAt
  <1> HIDE DEF t
  <1>4. ASSUME NEW k \in 1 .. n + 1 PROVE SameFrame(t[k], s[k])
    <2>1. FrameOK(s[k])
      BY <1>1, <1>2 DEF WellNested
    <2>2. CASE k = n + 1
      BY <1>3, <2>2
    <2>3. CASE k # n + 1
      <3>1. t[k] = s[k]
        BY <1>3, <2>3
      <3> QED BY <2>1, <3>1 DEF SameFrame, FrameOK
    <2> QED BY <2>2, <2>3
  <1>5. ASSUME NEW k \in 1 .. n + 1 PROVE FrameOK(t[k]) /\ Within(t[k])
    <2>1. FrameOK(s[k]) /\ Within(s[k])
      BY <1>1, <1>2 DEF WellNested
    <2> QED BY <1>4, <2>1, SameFrameOK
  <1>6. ASSUME NEW k \in 2 .. n + 1 PROVE Under(t[k], t[k - 1])
    <2>1. k \in 1 .. n + 1 /\ k - 1 \in 1 .. n + 1 /\ k \in 2 .. Len(s)
      BY <1>1
    <2>2. SameFrame(t[k], s[k]) /\ SameFrame(t[k - 1], s[k - 1])
      BY <1>4, <2>1
    <2>3. Under(s[k], s[k - 1])
      BY <2>1 DEF WellNested
    <2> QED BY <2>2, <2>3 DEF Under, SameFrame
  <1>7. t[1].role = "root" /\ ~ t[1].group /\ t[1].depth = RecursionLimit
    <2>1. 1 \in 1 .. n + 1
      OBVIOUS
    <2>2. SameFrame(t[1], s[1])
      BY <1>4, <2>1
    <2>3. s # <<>>
      BY <1>2
    <2> QED BY <2>2, <2>3 DEF SameFrame, WellNested
  <1>8. WellNested(t)
    BY <1>3, <1>5, <1>6, <1>7 DEF WellNested
  <1>9. StackWith(t, x)
    BY <1>3, <1>8 DEF StackWith
  <1> QED BY <1>9 DEF t

LEMMA WellNestedMore ==
    ASSUME NEW s, IsSeq(s), WellNested(s), s # <<>>,
           NEW x, FrameOK(x), Within(x), Under(x, s[Len(s)]),
           NEW t, t = Append(s, x)
    PROVE  StackWith(t, x)
  <1> DEFINE n == Len(s)
  <1>1. /\ IsSeq(t) /\ n \in Nat /\ Len(t) = n + 1 /\ t[n + 1] = x
        /\ \A k \in 1 .. n : t[k] = s[k]
    BY Appended
  <1>2. n >= 1
    <2>1. PICK S : s \in Seq(S)
      BY DEF IsSeq
    <2> QED BY <2>1
  <1>3. t # <<>>
    BY <1>1
  <1> HIDE DEF n
  <1>4. ASSUME NEW k \in 1 .. n + 1 PROVE FrameOK(t[k]) /\ Within(t[k])
    <2>1. CASE k = n + 1
      BY <1>1, <2>1
    <2>2. CASE k # n + 1
      <3>1. k \in 1 .. n
        BY <1>1, <2>2
      <3> QED BY <1>1, <3>1 DEF WellNested, n
    <2> QED BY <2>1, <2>2
  <1>5. ASSUME NEW k \in 2 .. n + 1 PROVE Under(t[k], t[k - 1])
    <2>1. k - 1 \in 1 .. n /\ t[k - 1] = s[k - 1]
      BY <1>1
    <2>2. CASE k = n + 1
      <3>1. k - 1 = n
        BY <1>1, <2>2
      <3> QED BY <1>1, <2>1, <2>2, <3>1 DEF n
    <2>3. CASE k # n + 1
      <3>1. k \in 2 .. n /\ k \in 1 .. n
        BY <1>1, <2>3
      <3> QED BY <1>1, <2>1, <3>1 DEF WellNested, n
    <2> QED BY <2>2, <2>3
  <1>6. t[1] = s[1]
    BY <1>1, <1>2
  <1>7. WellNested(t)
    BY <1>1, <1>4, <1>5, <1>6 DEF WellNested
  <1> QED BY <1>1, <1>3, <1>7 DEF StackWith, n

-----------------------------------------------------------------------------
(***************************************************************************)
(* What a step may do to the stack, the position and the budgets.          *)
(***************************************************************************)
LEMMA ValChanged ==
    ASSUME NEW fr, FrameOK(fr), NEW v
    PROVE  SameFrame([fr EXCEPT !.val = v], fr)
  BY DEF FrameOK, SameFrame, FrameFields

LEMMA Unchanged ==
    ASSUME NEW fr, FrameOK(fr)
    PROVE  SameFrame(fr, fr)
  BY DEF FrameOK, SameFrame

LEMMA AttachKeepsFrame ==
    ASSUME NEW into, NEW fr, FrameOK(into)
    PROVE  SameFrame(Attach(into, fr), into)
  <1>1. CASE fr.role = "msg"
    <2>1. Attach(into, fr) =
            [into EXCEPT !.val = SetField(into.val, fr.num, <<fr.val>>)]
      BY <1>1 DEF Attach
    <2> QED BY <2>1, ValChanged
  <1>2. CASE fr.role = "elem"
    <2>1. Attach(into, fr) =
            [into EXCEPT !.val = SetField(into.val, fr.num,
                                    Append(into.val.fields[fr.num], fr.val))]
      BY <1>2 DEF Attach
    <2> QED BY <2>1, ValChanged
  <1>3. CASE fr.role = "oneof"
    <2>1. Attach(into, fr) =
            [into EXCEPT !.val = [into.val EXCEPT !.oneof = <<fr.num, fr.val>>]]
      BY <1>3 DEF Attach, FrameOK, FrameFields
    <2> QED BY <2>1, ValChanged
  <1>4. CASE fr.role = "value"
    <2>1. Attach(into, fr) =
            [into EXCEPT !.val = [into.val EXCEPT !.value = fr.val]]
      BY <1>4 DEF Attach, FrameOK, FrameFields
    <2> QED BY <2>1, ValChanged
  <1>5. CASE fr.role = "unk"
    <2> DEFINE u == Unknown(fr.num, StartGroupWire, 0, <<>>, fr.val)
    <2>1. Attach(into, fr) =
            IF IsMessage(into)
              THEN [into EXCEPT !.val = [into.val EXCEPT
                                            !.unk = Append(into.val.unk, u)]]
              ELSE [into EXCEPT !.val = Append(into.val, u)]
      BY <1>5 DEF Attach, FrameOK, FrameFields
    <2> HIDE DEF u
    <2>2. CASE IsMessage(into)
      BY <2>1, <2>2, ValChanged
    <2>3. CASE ~ IsMessage(into)
      BY <2>1, <2>3, ValChanged
    <2> QED BY <2>2, <2>3
  <1>6. CASE fr.role \notin {"msg", "elem", "oneof", "value", "unk"}
    <2>1. Attach(into, fr) = into
      BY <1>6 DEF Attach
    <2> QED BY <2>1, Unchanged
  <1> QED BY <1>1, <1>2, <1>3, <1>4, <1>5, <1>6

LEMMA AttachFailedKeepsFrame ==
    ASSUME NEW into, NEW fr, FrameOK(into)
    PROVE  SameFrame(AttachFailed(into, fr), into)
  BY AttachKeepsFrame, Unchanged DEF AttachFailed

\* The innermost activation.
LEMMA TopFacts ==
    ASSUME IInv, stack # <<>>
    PROVE  /\ Len(stack) \in Nat \ {0}
           /\ FrameOK(Top) /\ Within(Top)
           /\ data \in Seq(Nat) /\ pos \in Nat \ {0}
           /\ Top.bound \in Nat /\ Top.bound <= Len(data)
           /\ unkLeft \in 0 .. UnknownLimit /\ memLeft \in 0 .. ElementLimit
  <1>1. Len(stack) \in Nat \ {0}
    <2>1. PICK S : stack \in Seq(S)
      BY DEF IInv, TypeOK, IsSeq
    <2> QED BY <2>1
  <1>2. FrameOK(Top) /\ Within(Top)
    BY <1>1 DEF IInv, WellNested, Top
  <1> QED BY <1>1, <1>2 DEF IInv, TypeOK, BudgetsKept, FrameOK, Within

LEMMA InvKept ==
    ASSUME IInv, UNCHANGED <<data, root, tables>>,
           phase' \in {"running", "unwinding", "done"},
           IsSeq(stack'), stack' # <<>>, WellNested(stack'),
           pos' \in Nat \ {0}, BudgetsKept',
           phase' = "running" => pos' <= stack'[Len(stack')].bound + 1
    PROVE  IInv'
  <1>1. TypeOK'
    BY DEF IInv, TypeOK, IsSeq
  <1>2. WellNested(stack)'
    BY DEF WellNested, FrameOK, Within, Under, IsMessage
  <1>3. (phase = "running" => pos <= Top.bound + 1)'
    BY DEF Top
  <1> QED BY <1>1, <1>2, <1>3 DEF IInv

LEMMA Failing ==
    ASSUME IInv, stack # <<>>, NEW e, Fail(e)
    PROVE  IInv'
  <1>1. phase' = "unwinding" /\ UNCHANGED <<data, root, tables, stack, pos,
                                            unkLeft, memLeft>>
    BY DEF Fail
  <1>2. BudgetsKept'
    BY <1>1 DEF IInv, BudgetsKept
  <1> QED BY <1>1, <1>2, InvKept DEF IInv, TypeOK

\* The innermost activation with another value.
LEMMA TopReplaced ==
    ASSUME IInv, stack # <<>>, NEW fr, SameFrame(fr, Top)
    PROVE  StackWith(ReplaceTop(fr), fr)
  <1> DEFINE n == Len(stack) - 1
             s == ReplaceTop(fr)
  <1>1. n \in Nat /\ n + 1 <= Len(stack) /\ n + 1 = Len(stack)
    BY TopFacts
  <1>2. s = Append(SubSeq(stack, 1, n), fr) /\ SameFrame(fr, stack[n + 1])
    BY <1>1 DEF ReplaceTop, Below, Top
  <1>3. IsSeq(stack) /\ WellNested(stack)
    BY DEF IInv, TypeOK
  <1> HIDE DEF n, s
  <1>4. StackWith(Append(SubSeq(stack, 1, n), fr), fr)
    BY <1>1, <1>2, <1>3, WellNestedCut
  <1> QED BY <1>2, <1>4 DEF s

LEMMA FailingWith ==
    ASSUME IInv, stack # <<>>, NEW fr, SameFrame(fr, Top),
           phase' = "unwinding", stack' = ReplaceTop(fr),
           UNCHANGED <<data, root, tables, pos, unkLeft, memLeft>>
    PROVE  IInv'
  <1>1. BudgetsKept'
    BY DEF IInv, BudgetsKept
  <1>2. IsSeq(stack') /\ WellNested(stack') /\ stack' # <<>>
    BY TopReplaced DEF StackWith
  <1> QED BY <1>1, <1>2, InvKept DEF IInv, TypeOK

LEMMA FailingAfter ==
    ASSUME IInv, stack # <<>>, NEW e, NEW val, FailAfter(e, val)
    PROVE  IInv'
  BY TopFacts, ValChanged, FailingWith DEF FailAfter

LEMMA FailingOpening ==
    ASSUME IInv, stack # <<>>, NEW e, NEW fr, FailOpening(e, fr)
    PROVE  IInv'
  BY TopFacts, AttachFailedKeepsFrame, FailingWith DEF FailOpening

LEMMA Merging ==
    ASSUME IInv, phase = "running", stack # <<>>, NEW val,
           NEW next \in Nat \ {0}, next <= Top.bound + 1,
           Merged(next, val), BudgetsKept'
    PROVE  IInv'
  <1> DEFINE fr == [Top EXCEPT !.val = val]
  <1>1. SameFrame(fr, Top)
    BY TopFacts, ValChanged
  <1>2. stack' = ReplaceTop(fr) /\ pos' = next
        /\ UNCHANGED <<data, root, tables, phase>>
    BY DEF Merged
  <1> HIDE DEF fr
  <1>3. IsSeq(stack') /\ WellNested(stack') /\ stack' # <<>>
        /\ stack'[Len(stack')] = fr
    BY <1>1, <1>2, TopReplaced DEF StackWith
  <1>4. fr.bound = Top.bound
    BY <1>1 DEF SameFrame
  <1> QED BY <1>2, <1>3, <1>4, InvKept

LEMMA Opening ==
    ASSUME IInv, phase = "running", stack # <<>>, NEW fr, NEW unknown,
           NEW element, NEW next \in Nat \ {0}, next <= fr.bound + 1,
           FrameOK(fr), Within(fr), Under(fr, Top),
           Open(fr, next, unknown, element), BudgetsKept'
    PROVE  IInv'
  <1>1. stack' = Append(stack, fr) /\ pos' = next
        /\ UNCHANGED <<data, root, tables, phase>>
    BY DEF Open
  <1>2. IsSeq(stack) /\ WellNested(stack)
    BY DEF IInv, TypeOK
  <1>3. IsSeq(stack') /\ WellNested(stack') /\ stack' # <<>>
        /\ stack'[Len(stack')] = fr
    BY <1>1, <1>2, WellNestedMore DEF StackWith, Top
  <1> QED BY <1>1, <1>3, InvKept

LEMMA Concatenated ==
    ASSUME NEW s, IsSeq(s), NEW x
    PROVE  s \o <<x>> = Append(s, x)
  <1>1. PICK S : s \in Seq(S)
    BY DEF IsSeq
  <1> DEFINE T == S \cup {x}
  <1>2. s \in Seq(T) /\ x \in T
    BY <1>1
  <1> HIDE DEF T
  <1> QED BY <1>2

\* The activation below the innermost one.
LEMMA Popped ==
    ASSUME IInv, Len(stack) > 1, NEW into, SameFrame(into, stack[Len(stack) - 1])
    PROVE  StackWith(SubSeq(stack, 1, Len(stack) - 2) \o <<into>>, into)
  <1> DEFINE n == Len(stack) - 2
             below == SubSeq(stack, 1, n)
  <1>1. IsSeq(stack) /\ WellNested(stack)
    BY DEF IInv, TypeOK
  <1>2. Len(stack) \in Nat
    BY <1>1, Appended
  <1>3. n \in Nat /\ n + 1 <= Len(stack) /\ n + 1 = Len(stack) - 1
        /\ n \in 0 .. Len(stack)
    BY <1>2
  <1>4. SameFrame(into, stack[n + 1])
    BY <1>3
  <1>5. IsSeq(below)
    BY <1>1, <1>3, Shortened
  <1> HIDE DEF n
  <1>6. StackWith(Append(SubSeq(stack, 1, n), into), into)
    BY <1>1, <1>3, <1>4, WellNestedCut
  <1> HIDE DEF below
  <1>7. below \o <<into>> = Append(below, into)
    BY <1>5, Concatenated
  <1> QED BY <1>6, <1>7 DEF below, n

\* What lies below an activation that is not the outermost one.
LEMMA BelowFacts ==
    ASSUME IInv, Len(stack) > 1
    PROVE  LET below == stack[Len(stack) - 1] IN
           FrameOK(below) /\ Within(below) /\ Under(Top, below)
  <1>1. Len(stack) \in Nat
    BY Appended DEF IInv, TypeOK
  <1>2. Len(stack) - 1 \in 1 .. Len(stack) /\ Len(stack) \in 2 .. Len(stack)
    BY <1>1
  <1> QED BY <1>2 DEF IInv, WellNested, Top

LEMMA NotOutermost ==
    ASSUME IInv, stack # <<>>, Top.role # "root" \/ Top.group
    PROVE  Len(stack) > 1
  <1>1. Len(stack) \in Nat \ {0}
    BY TopFacts
  <1>2. Len(stack) # 1
    BY DEF IInv, WellNested, Top
  <1>3. \A n \in Nat \ {0} : n # 1 => n > 1
    OBVIOUS
  <1> QED BY <1>1, <1>2, <1>3, Zenon

LEMMA Resuming ==
    ASSUME IInv, phase = "running", Len(stack) > 1, NEW into, NEW unknown,
           SameFrame(into, stack[Len(stack) - 1]),
           Resume(into, pos, unknown), BudgetsKept'
    PROVE  IInv'
  <1>1. /\ stack' = SubSeq(stack, 1, Len(stack) - 2) \o <<into>> /\ pos' = pos
        /\ UNCHANGED <<data, root, tables, phase>>
    BY DEF Resume
  <1>2. StackWith(stack', into)
    BY <1>1, Popped
  <1>3. stack # <<>>
    BY DEF IInv, TypeOK
  <1>4. Top.bound <= into.bound /\ into.bound \in Nat
    BY BelowFacts DEF SameFrame, Under, FrameOK
  <1>5. pos <= into.bound + 1
    BY <1>3, <1>4, TopFacts DEF IInv
  <1> QED BY <1>1, <1>2, <1>3, <1>5, TopFacts, InvKept DEF StackWith

LEMMA Charged ==
    ASSUME IInv, NEW u \in Nat, u <= unkLeft, NEW e \in Nat, e <= memLeft,
           Charge(u, e)
    PROVE  BudgetsKept'
  <1>1. unkLeft \in 0 .. UnknownLimit /\ memLeft \in 0 .. ElementLimit
    BY DEF IInv, BudgetsKept
  <1>2. unkLeft' = unkLeft - u /\ memLeft' = memLeft - e
    BY DEF Charge
  <1> QED BY <1>1, <1>2, DecodeLimitsAssumption DEF BudgetsKept

LEMMA NotCharged ==
    ASSUME IInv, Charge(0, 0)
    PROVE  BudgetsKept'
  <1>1. 0 <= unkLeft /\ 0 <= memLeft
    BY DEF IInv, BudgetsKept
  <1> QED BY <1>1, Charged

-----------------------------------------------------------------------------
(***************************************************************************)
(* The steps.                                                              *)
(***************************************************************************)
\* Whenever a field is read, there is an activation to read it.
LEMMA RunningFacts ==
    ASSUME IInv, phase = "running"
    PROVE  /\ stack # <<>> /\ Len(stack) \in Nat \ {0}
           /\ FrameOK(Top) /\ Within(Top)
           /\ data \in Seq(Nat) /\ pos \in Nat \ {0} /\ pos <= Top.bound + 1
           /\ Top.bound \in Nat /\ Top.bound <= Len(data)
           /\ unkLeft \in 0 .. UnknownLimit /\ memLeft \in 0 .. ElementLimit
  <1>1. stack # <<>>
    BY DEF IInv, TypeOK
  <1> QED BY <1>1, TopFacts DEF IInv

LEMMA DecodeTagStep ==
    ASSUME IInv, DecodeTag
    PROVE  IInv'
  <1> DEFINE t == ReadTag(data, pos, Top.bound)
  <1>1. phase = "running" /\ NextTag(t)
    BY DEF DecodeTag
  <1>2. t.err = "ok" => t.next \in (pos + 1) .. (Top.bound + 1)
    BY <1>1, RunningFacts, ReadTagFacts
  <1> HIDE DEF t
  <1>3. CASE t.err # "ok"
    BY <1>1, <1>3, RunningFacts, Failing DEF NextTag
  <1>4. CASE t.err = "ok"
    <2>1. pos' = t.next
          /\ UNCHANGED <<data, root, phase, tables, stack, unkLeft, memLeft>>
      BY <1>1, <1>4 DEF NextTag
    <2>2. BudgetsKept'
      BY <2>1 DEF IInv, BudgetsKept
    <2>3. pos' \in Nat \ {0} /\ pos' <= Top.bound + 1
      BY <1>1, <1>2, <1>4, <2>1, RunningFacts
    <2> QED BY <1>1, <2>1, <2>2, <2>3, InvKept DEF IInv, TypeOK, Top
  <1> QED BY <1>3, <1>4

\* A field merged that costs nothing.
LEMMA MergingFree ==
    ASSUME IInv, phase = "running", NEW val, NEW next,
           next \in pos .. (Top.bound + 1), Merged(next, val), Charge(0, 0)
    PROVE  IInv'
  <1>1. next \in Nat \ {0} /\ next <= Top.bound + 1
    BY RunningFacts
  <1> QED BY <1>1, RunningFacts, NotCharged, Merging

LEMMA MergeIntStep ==
    ASSUME IInv, MergeInt
    PROVE  IInv'
  <1> DEFINE r == ReadVarint(data, pos, Top.bound)
             val == IF Field.kind = "int" THEN SetField(Val, tag.num, r.v % IntMod)
                    ELSE [Val EXCEPT !.oneof = <<tag.num, r.v % IntMod>>]
  <1>1. phase = "running" /\ StoreInt(r)
    BY DEF MergeInt, Is, Reading, AtTag
  <1>2. ReadIn(r, pos, Top.bound)
    BY <1>1, RunningFacts, ReadVarintFacts
  <1>3. \/ \E e : Fail(e)
        \/ r.err = "ok" /\ Merged(r.next, val) /\ Charge(0, 0)
    BY <1>1 DEF StoreInt
  <1> HIDE DEF r, val
  <1>4. CASE \E e : Fail(e)
    BY <1>1, <1>4, RunningFacts, Failing
  <1>5. CASE r.err = "ok" /\ Merged(r.next, val) /\ Charge(0, 0)
    <2>1. r.next \in pos .. (Top.bound + 1)
      BY <1>1, <1>2, <1>5, RunningFacts DEF ReadIn
    <2> QED BY <1>1, <1>5, <2>1, MergingFree
  <1> QED BY <1>3, <1>4, <1>5

LEMMA MergeBytesStep ==
    ASSUME IInv, MergeBytes
    PROVE  IInv'
  <1> DEFINE r == ReadSpan(data, pos, Top.bound, NoLimit)
             cost == IF Field.kind = "rbytes" THEN 1 ELSE 0
             b == Slice(data, r.next, r.next + r.v - 1)
             val == SetField(Val, tag.num, IF cost = 0 THEN b
                                           ELSE Append(Val.fields[tag.num], b))
  <1>1. phase = "running" /\ StoreBytes(r, cost)
    BY DEF MergeBytes, Is, Reading, AtTag
  <1>2. r.err = "ok" => SpanIn(r, pos, Top.bound)
    BY <1>1, RunningFacts, ReadSpanFacts
  <1>3. \/ \E e : Fail(e)
        \/ /\ r.err = "ok" /\ ~ (cost > memLeft)
           /\ Merged(r.next + r.v, val) /\ Charge(0, cost)
    BY <1>1 DEF StoreBytes
  <1>4. cost \in {0, 1}
    OBVIOUS
  <1> HIDE DEF r, val, cost
  <1>5. CASE \E e : Fail(e)
    BY <1>1, <1>5, RunningFacts, Failing
  <1>6. CASE /\ r.err = "ok" /\ ~ (cost > memLeft)
             /\ Merged(r.next + r.v, val) /\ Charge(0, cost)
    <2>1. r.next + r.v \in Nat \ {0} /\ r.next + r.v <= Top.bound + 1
      <3>1. /\ r.v \in Nat /\ r.next \in (pos + 1) .. (Top.bound + 1)
            /\ r.next + r.v - 1 <= Top.bound
        BY <1>2, <1>6 DEF SpanIn
      <3>2. pos \in Nat \ {0} /\ Top.bound \in Nat
        BY <1>1, RunningFacts
      <3> QED BY <3>1, <3>2
    <2>2. 0 <= unkLeft /\ cost \in Nat /\ cost <= memLeft
      BY <1>1, <1>4, <1>6, RunningFacts
    <2>3. BudgetsKept'
      BY <1>6, <2>2, Charged
    <2> QED BY <1>1, <1>6, <2>1, <2>3, RunningFacts, Merging
  <1> QED BY <1>3, <1>5, <1>6

\* What a record of a repeated int32 or an enum holds.
LEMMA IntsFacts ==
    ASSUME IInv, phase = "running"
    PROVE  /\ Ints.vals \in Seq(Nat)
           /\ Ints.err = "ok" => Ints.next \in pos .. (Top.bound + 1)
  <1>1. CASE tag.wt = LenWire
    <2> DEFINE r == ReadSpan(data, pos, Top.bound, NoLimit)
    <2>1. Ints = IntsIn(r)
      BY <1>1 DEF Ints, VarintWire, LenWire
    <2>2. r.err = "ok" => SpanIn(r, pos, Top.bound)
      BY RunningFacts, ReadSpanFacts
    <2> HIDE DEF r
    <2>3. CASE r.err # "ok"
      BY <2>1, <2>3 DEF IntsIn
    <2>4. CASE r.err = "ok"
      <3> DEFINE from == r.next
                 to == r.next + r.v - 1
      <3>1. Ints = PackedInts(data, from, to)
        BY <2>1, <2>4 DEF IntsIn
      <3>2. /\ from \in Nat \ {0} /\ to \in Nat /\ to <= Len(data)
            /\ from <= to + 1 /\ pos <= from /\ to <= Top.bound
        <4>1. /\ r.v \in Nat /\ r.next \in (pos + 1) .. (Top.bound + 1)
              /\ r.next + r.v - 1 <= Top.bound
          BY <2>2, <2>4 DEF SpanIn
        <4>2. /\ pos \in Nat \ {0} /\ Top.bound \in Nat /\ Len(data) \in Nat
              /\ Top.bound <= Len(data)
          BY RunningFacts
        <4>3. r.next \in Nat \ {0} /\ pos <= r.next
          BY <4>1, <4>2
        <4>4. r.next + r.v - 1 \in Nat
          BY <4>1, <4>3
        <4> QED BY <4>1, <4>2, <4>3, <4>4
      <3> HIDE DEF from, to
      <3>3. PackedInts(data, from, to) \in PackedResults(from, to)
        BY <3>2, RunningFacts, PackedIntsFacts
      <3>4. Ints.vals \in Seq(Nat) /\ Ints.next \in from .. to + 1
        BY <3>1, <3>3 DEF PackedResults
      <3> QED BY <3>2, <3>4, RunningFacts
    <2> QED BY <2>3, <2>4
  <1>2. CASE tag.wt = VarintWire
    <2> DEFINE r == ReadVarint(data, pos, Top.bound)
    <2>1. Ints = OneInt(r)
      BY <1>2 DEF Ints, VarintWire, LenWire
    <2>2. ReadIn(r, pos, Top.bound)
      BY RunningFacts, ReadVarintFacts
    <2> HIDE DEF r
    <2>3. r.v % IntMod \in Nat
      BY <2>2, FormatAssumption DEF ReadIn
    <2>4. Ints.vals \in Seq(Nat)
      BY <2>1, <2>3 DEF OneInt
    <2>5. Ints.err = r.err /\ Ints.next = r.next
      BY <2>1 DEF OneInt
    <2> QED BY <2>2, <2>4, <2>5, RunningFacts DEF ReadIn
  <1>3. CASE tag.wt \notin {LenWire, VarintWire}
    <2>1. Ints = [err |-> "mismatch", vals |-> <<>>, next |-> 0]
      BY <1>3 DEF Ints
    <2> QED BY <2>1
  <1> QED BY <1>1, <1>2, <1>3

LEMMA MergeRepeatedIntStep ==
    ASSUME IInv, MergeRepeatedInt
    PROVE  IInv'
  <1> DEFINE val == SetField(Val, tag.num, Val.fields[tag.num] \o Ints.vals)
  <1>1. phase = "running" /\ StoreInts(Ints, val)
    BY DEF MergeRepeatedInt, Is, Reading, AtTag
  <1> HIDE DEF val
  <1>2. CASE Ints.err # "ok"
    BY <1>1, <1>2, RunningFacts, FailingAfter DEF StoreInts
  <1>3. CASE Ints.err = "ok"
    BY <1>1, <1>3, IntsFacts, MergingFree DEF StoreInts
  <1> QED BY <1>2, <1>3

\* What the numbers cost is a number.
LEMMA UnknownCostType ==
    ASSUME NEW s, Len(s) \in Nat
    PROVE  UnknownCost(s) \in Nat
  <1> DEFINE T == {i \in 1 .. Len(s) : s[i] \notin EnumValues}
  <1>1. IsFiniteSet(1 .. Len(s))
    BY FS_Interval
  <1>2. T \subseteq 1 .. Len(s)
    OBVIOUS
  <1>3. UnknownCost(s) = IF ~ KeepsUnknown(Top.type) THEN 0 ELSE Cardinality(T)
    BY DEF UnknownCost
  <1> HIDE DEF T
  <1>4. IsFiniteSet(T)
    BY <1>1, <1>2, FS_Subset
  <1>5. Cardinality(T) \in Nat
    BY <1>4, FS_CardinalityType
  <1> QED BY <1>3, <1>5

\* The prefix that is stored never costs more than is left.
LEMMA AffordableFacts ==
    ASSUME NEW vals \in Seq(Nat), unkLeft \in Nat
    PROVE  /\ UnknownCost(Affordable(vals)) \in Nat
           /\ UnknownCost(Affordable(vals)) <= unkLeft
  <1> DEFINE fits == {n \in 0 .. Len(vals) :
                        UnknownCost(SubSeq(vals, 1, n)) <= unkLeft}
             left == {Len(vals) - n : n \in fits}
  <1>1. 0 \in fits
    <2>1. SubSeq(vals, 1, 0) = <<>>
      OBVIOUS
    <2>2. UnknownCost(<<>>) = 0
      <3>1. {i \in 1 .. Len(<<>>) : <<>>[i] \notin EnumValues} = {}
        <4>1. Len(<<>>) = 0 /\ 1 .. 0 = {}
          OBVIOUS
        <4> QED BY <4>1
      <3> QED BY <3>1, FS_EmptySet DEF UnknownCost
    <2>3. 0 \in 0 .. Len(vals)
      OBVIOUS
    <2>4. UnknownCost(SubSeq(vals, 1, 0)) = 0
      BY <2>1, <2>2, Zenon
    <2>5. UnknownCost(SubSeq(vals, 1, 0)) <= unkLeft
      BY <2>4
    <2> QED BY <2>3, <2>5, Zenon
  <1>2. \E n \in fits : \A m \in fits : m <= n
    <2>1. left \in SUBSET Nat /\ left # {}
      BY <1>1
    <2> HIDE DEF left
    <2>2. PICK k \in left : \A j \in left : k <= j
      BY <2>1, Least
    <2>3. fits \subseteq 0 .. Len(vals)
      OBVIOUS
    <2> HIDE DEF fits
    <2>4. PICK n \in fits : k = Len(vals) - n
      BY DEF left
    <2>5. ASSUME NEW m \in fits PROVE m <= n
      <3>1. Len(vals) - m \in left
        BY DEF left
      <3>2. Len(vals) - n <= Len(vals) - m
        BY <2>2, <2>4, <3>1
      <3>3. m \in Nat /\ n \in Nat /\ Len(vals) \in Nat
        BY <2>3
      <3> QED BY <3>2, <3>3
    <2> QED BY <2>5
  <1> DEFINE n == CHOOSE n \in fits : \A m \in fits : m <= n
  <1>3. n \in fits
    BY <1>2
  <1>4. Affordable(vals) = SubSeq(vals, 1, n)
    BY DEF Affordable
  <1> HIDE DEF n
  <1>5. n \in 0 .. Len(vals) /\ UnknownCost(SubSeq(vals, 1, n)) <= unkLeft
    BY <1>3
  <1>6. Len(SubSeq(vals, 1, n)) \in Nat
    BY <1>5
  <1> QED BY <1>4, <1>5, <1>6, UnknownCostType

LEMMA MergeEnumStep ==
    ASSUME IInv, MergeEnum
    PROVE  IInv'
  <1> DEFINE stored == Affordable(Ints.vals)
             val == StoredEnums(stored)
             cost == UnknownCost(stored)
  <1>1. phase = "running"
    BY DEF MergeEnum, Is, Reading, AtTag
  <1>2. \/ \E e : Fail(e) \/ FailAfter(e, val)
        \/ Ints.err = "ok" /\ Merged(Ints.next, val) /\ Charge(cost, 0)
    BY DEF MergeEnum, StoreEnums
  <1>3. cost \in Nat /\ cost <= unkLeft
    BY <1>1, RunningFacts, IntsFacts, AffordableFacts
  <1> HIDE DEF stored, val, cost
  <1>4. CASE \E e : Fail(e) \/ FailAfter(e, val)
    BY <1>1, <1>4, RunningFacts, Failing, FailingAfter
  <1>5. CASE Ints.err = "ok" /\ Merged(Ints.next, val) /\ Charge(cost, 0)
    <2>1. Ints.next \in Nat \ {0} /\ Ints.next <= Top.bound + 1
      BY <1>1, <1>5, IntsFacts, RunningFacts
    <2>2. 0 <= memLeft
      BY <1>1, RunningFacts
    <2>3. BudgetsKept'
      BY <1>3, <1>5, <2>2, Charged
    <2> QED BY <1>1, <1>5, <2>1, <2>3, RunningFacts, Merging
  <1> QED BY <1>2, <1>4, <1>5

\* A type with groups, or used as one, has no table.
LEMMA GroupsHaveNoTable ==
    ASSUME IInv, NEW t \in Types, NEW n \in DOMAIN Schema[t],
           Schema[t][n].kind \in {"group", "rgroup"}
    PROVE  Schema[t][n].of \notin tables
  <1>1. Schema[t][n].of \in Types
    BY SchemaAssumption DEF FieldKind
  <1>2. Schema[t][n].of \in GroupTypes
    BY <1>1 DEF GroupTypes
  <1>3. tables \in TableSets \/ tables = {}
    BY DEF IInv, TypeOK
  <1> QED BY <1>2, <1>3, TablesAssumption

\* A message, read to an announced length.
LEMMA OpeningSpan ==
    ASSUME IInv, phase = "running", NEW r \in {"msg", "elem", "oneof", "value"},
           NEW t \in Types, NEW num, NEW val, NEW had, NEW max,
           ElementCost(r) <= memLeft,
           OpenSpan(Nested(r, t, num, val, had),
                    ReadSpan(data, pos, Top.bound, max))
    PROVE  IInv'
  <1> DEFINE fr == Nested(r, t, num, val, had)
             s == ReadSpan(data, pos, Top.bound, max)
             end == s.next + s.v - 1
             in == [fr EXCEPT !.end = end, !.bound = Bound(fr.type, end)]
  <1>1. s.err = "ok" => SpanIn(s, pos, Top.bound)
    BY RunningFacts, ReadSpanFacts
  <1>2. OpenSpan(fr, s)
    OBVIOUS
  <1>3. \/ \E e : FailOpening(e, fr)
        \/ /\ s.err = "ok" /\ Top.depth # 0
           /\ Open(in, s.next, 0, ElementCost(fr.role))
    BY <1>2 DEF OpenSpan
  <1>4. /\ DOMAIN in = FrameFields
        /\ in.role = r /\ in.type = t /\ in.num = num /\ in.group = FALSE
        /\ in.end = end /\ in.bound = Bound(t, end) /\ in.depth = Top.depth - 1
        /\ fr.role = r
    BY DEF Nested, Descend, FrameFields
  <1> HIDE DEF s, in, fr
  <1>5. CASE \E e : FailOpening(e, fr)
    BY <1>5, RunningFacts, FailingOpening
  <1>6. CASE /\ s.err = "ok" /\ Top.depth # 0
             /\ Open(in, s.next, 0, ElementCost(fr.role))
    <2>1. /\ s.next \in Nat \ {0} /\ s.next <= end + 1
          /\ end \in Nat /\ end <= Top.bound
      <3>1. /\ s.v \in Nat /\ s.next \in (pos + 1) .. (Top.bound + 1)
            /\ s.next + s.v - 1 <= Top.bound
        BY <1>1, <1>6 DEF SpanIn
      <3>2. pos \in Nat \ {0} /\ Top.bound \in Nat
        BY RunningFacts
      <3> QED BY <3>1, <3>2
    <2> HIDE DEF end
    <2>2. /\ Top.bound \in Nat /\ Top.bound <= Len(data) /\ Top.depth \in Nat
          /\ Len(data) \in Nat
      BY RunningFacts DEF FrameOK
    <2>3. Bound(t, end) = IF t \in tables THEN end ELSE Top.bound
      BY DEF Bound
    <2>4. FrameOK(in)
      <3>1. in.bound \in Nat /\ in.depth \in Nat
        BY <1>4, <1>6, <2>1, <2>2, <2>3
      <3>2. in.role \in Roles /\ in.role # "entry"
        BY <1>4 DEF Roles
      <3> QED BY <1>4, <2>1, <3>1, <3>2 DEF FrameOK
    <2>5. Within(in)
      BY <1>4, <2>1, <2>2, <2>3 DEF Within
    <2>6. Under(in, Top)
      BY <1>4, <2>1, <2>2, <2>3 DEF Under
    <2>7. s.next <= in.bound + 1
      BY <1>4, <2>1, <2>2, <2>3
    <2>8. BudgetsKept'
      <3>1. Charge(0, ElementCost(r))
        BY <1>4, <1>6 DEF Open
      <3>2. ElementCost(r) \in Nat /\ 0 <= unkLeft
        BY RunningFacts DEF ElementCost
      <3> QED BY <3>1, <3>2, Charged
    <2> QED BY <1>6, <2>1, <2>4, <2>5, <2>6, <2>7, <2>8, RunningFacts, Opening
  <1> QED BY <1>3, <1>5, <1>6

\* The field a tag names.
LEMMA FieldFacts ==
    ASSUME IInv, NEW kinds, Is(kinds)
    PROVE  /\ phase = "running" /\ IsMessage(Top) /\ Top.type \in Types
           /\ tag.num \in DOMAIN Schema[Top.type]
           /\ Field = Schema[Top.type][tag.num] /\ Field.kind \in kinds
           /\ Field.of \in Types
  <1>1. /\ phase = "running" /\ IsMessage(Top)
        /\ tag.num \in DOMAIN Schema[Top.type]
        /\ Field = Schema[Top.type][tag.num] /\ Field.kind \in kinds
    BY DEF Is, Reading, AtTag, Known, Field
  <1>2. Top.type \in Types
    BY <1>1, RunningFacts DEF FrameOK
  <1>3. Field \in FieldKind
    BY <1>1, <1>2, SchemaAssumption
  <1>4. Field.of \in Types
    BY <1>3 DEF FieldKind
  <1> QED BY <1>1, <1>2, <1>4

LEMMA RoleFacts ==
    ASSUME NEW kind
    PROVE  RoleOf(kind) \in {"msg", "elem", "oneof"}
  BY DEF RoleOf

LEMMA OpenMessageStep ==
    ASSUME IInv, OpenMessage
    PROVE  IInv'
  <1> DEFINE r == RoleOf(Field.kind)
             s == ReadSpan(data, pos, Top.bound, MaxMessage)
  <1>1. phase = "running" /\ Field.of \in Types /\ memLeft \in Nat
    BY FieldFacts, RunningFacts DEF OpenMessage
  <1>2. r \in {"msg", "elem", "oneof"}
    BY RoleFacts
  <1>3. \/ \E e : Fail(e)
        \/ ~ (ElementCost(r) > memLeft) /\ OpenSpan(FieldFrame(r), s)
    BY DEF OpenMessage
  <1>4. PICK val, had : FieldFrame(r) = Nested(r, Field.of, tag.num, val, had)
    BY DEF FieldFrame
  <1> HIDE DEF r
  <1>5. CASE \E e : Fail(e)
    BY <1>1, <1>5, RunningFacts, Failing
  <1>6. CASE ~ (ElementCost(r) > memLeft) /\ OpenSpan(FieldFrame(r), s)
    <2>1. ElementCost(r) <= memLeft
      BY <1>1, <1>6 DEF ElementCost
    <2> QED BY <1>1, <1>2, <1>4, <1>6, <2>1, OpeningSpan
  <1> QED BY <1>3, <1>5, <1>6

LEMMA OpenGroupStep ==
    ASSUME IInv, OpenGroup
    PROVE  IInv'
  <1> DEFINE r == RoleOf(Field.kind)
             t == Field.of
  <1>1. phase = "running" /\ t \in Types /\ t \notin tables
        /\ memLeft \in Nat /\ unkLeft \in Nat
    BY FieldFacts, GroupsHaveNoTable, RunningFacts DEF OpenGroup
  <1>2. r \in {"msg", "elem", "oneof"}
    BY RoleFacts
  <1>3. \/ \E e : Fail(e)
        \/ ~ (ElementCost(r) > memLeft) /\ OpenGroupFrame(FieldFrame(r))
    BY DEF OpenGroup
  <1>4. PICK val, had : FieldFrame(r) = Nested(r, t, tag.num, val, had)
    BY DEF FieldFrame
  <1> DEFINE fr == Nested(r, t, tag.num, val, had)
             in == [fr EXCEPT !.group = TRUE]
  <1>5. /\ DOMAIN in = FrameFields
        /\ in.role = r /\ in.type = t /\ in.group = TRUE /\ in.end = 0
        /\ in.bound = Top.bound /\ in.depth = Top.depth - 1 /\ fr.role = r
    BY DEF Nested, Descend, FrameFields
  <1>6. \/ \E e : Fail(e) \/ FailOpening(e, fr)
        \/ /\ ~ (ElementCost(r) > memLeft) /\ Top.depth # 0
           /\ Open(in, pos, 0, ElementCost(fr.role))
    BY <1>3, <1>4 DEF OpenGroupFrame
  <1> HIDE DEF fr, in, r, t
  <1>7. CASE \E e : Fail(e) \/ FailOpening(e, fr)
    BY <1>1, <1>7, RunningFacts, Failing, FailingOpening
  <1>8. CASE /\ ~ (ElementCost(r) > memLeft) /\ Top.depth # 0
             /\ Open(in, pos, 0, ElementCost(fr.role))
    <2>1. /\ Top.bound \in Nat /\ Top.bound <= Len(data) /\ Top.depth \in Nat
          /\ pos \in Nat \ {0} /\ pos <= Top.bound + 1
      BY <1>1, RunningFacts DEF FrameOK
    <2>2. FrameOK(in)
      <3>1. in.bound \in Nat /\ in.depth \in Nat
        BY <1>5, <1>8, <2>1
      <3>2. in.role \in Roles /\ in.role # "entry"
        BY <1>2, <1>5 DEF Roles
      <3>3. in.type \in Types
        BY <1>1, <1>5
      <3>4. in.group \in BOOLEAN
        BY <1>5, Zenon
      <3>5. in.end \in Nat
        BY <1>5
      <3> QED BY <1>5, <3>1, <3>2, <3>3, <3>4, <3>5 DEF FrameOK
    <2>3. Within(in)
      BY <1>1, <1>5, <2>1 DEF Within
    <2>4. Under(in, Top)
      BY <1>2, <1>5, <2>1 DEF Under
    <2>5. pos <= in.bound + 1
      BY <1>5, <2>1
    <2>6. BudgetsKept'
      <3>1. Charge(0, ElementCost(r))
        BY <1>5, <1>8 DEF Open
      <3>2. ElementCost(r) \in Nat /\ ElementCost(r) <= memLeft /\ 0 <= unkLeft
        BY <1>1, <1>8 DEF ElementCost
      <3> QED BY <3>1, <3>2, Charged
    <2> QED BY <1>1, <1>8, <2>1, <2>2, <2>3, <2>4, <2>5, <2>6, RunningFacts,
               Opening
  <1> QED BY <1>6, <1>7, <1>8

LEMMA OpenEntryStep ==
    ASSUME IInv, OpenEntry
    PROVE  IInv'
  <1> DEFINE s == ReadSpan(data, pos, Top.bound, NoLimit)
             end == s.next + s.v - 1
             fr == EntryFrame(s.next, end)
  <1>1. /\ phase = "running" /\ IsMessage(Top) /\ Top.type \in Types
        /\ tag.num \in DOMAIN Schema[Top.type]
        /\ memLeft \in Nat /\ unkLeft \in Nat
    BY FieldFacts, RunningFacts DEF OpenEntry
  <1>2. s.err = "ok" => SpanIn(s, pos, Top.bound)
    BY <1>1, RunningFacts, ReadSpanFacts
  <1>3. \/ \E e : Fail(e)
        \/ s.err = "ok" /\ memLeft # 0 /\ Open(fr, s.next, 0, 1)
    BY DEF OpenEntry, OpenEntrySpan
  <1>4. /\ DOMAIN fr = FrameFields
        /\ fr.role = "entry" /\ fr.type = Top.type /\ fr.num = tag.num
        /\ fr.group = FALSE /\ fr.end = end /\ fr.depth = Top.depth
        /\ fr.bound = IF DecodedAlone THEN end ELSE Top.bound
    BY DEF EntryFrame, FrameFields
  <1> HIDE DEF s, fr
  <1>5. CASE \E e : Fail(e)
    BY <1>1, <1>5, RunningFacts, Failing
  <1>6. CASE s.err = "ok" /\ memLeft # 0 /\ Open(fr, s.next, 0, 1)
    <2>1. /\ s.next \in Nat \ {0} /\ s.next <= end + 1
          /\ end \in Nat /\ end <= Top.bound
      <3>1. /\ s.v \in Nat /\ s.next \in (pos + 1) .. (Top.bound + 1)
            /\ s.next + s.v - 1 <= Top.bound
        BY <1>2, <1>6 DEF SpanIn
      <3>2. pos \in Nat \ {0} /\ Top.bound \in Nat
        BY <1>1, RunningFacts
      <3> QED BY <3>1, <3>2
    <2> HIDE DEF end
    <2>2. /\ Top.bound \in Nat /\ Top.bound <= Len(data) /\ Top.depth \in Nat
          /\ Len(data) \in Nat
      BY <1>1, RunningFacts DEF FrameOK
    <2>3. fr.bound \in {end, Top.bound}
      BY <1>4
    <2>4. FrameOK(fr)
      <3>1. fr.bound \in Nat
        BY <2>1, <2>2, <2>3
      <3> QED BY <1>1, <1>4, <2>1, <2>2, <3>1 DEF FrameOK, Roles
    <2>5. Within(fr)
      BY <1>4, <2>1, <2>2, <2>3 DEF Within, IsMessage
    <2>6. Under(fr, Top)
      BY <1>1, <1>4, <2>1, <2>2, <2>3 DEF Under, IsMessage
    <2>7. s.next <= fr.bound + 1
      BY <2>1, <2>2, <2>3
    <2>8. BudgetsKept'
      <3>1. Charge(0, 1)
        BY <1>6 DEF Open
      <3>2. 1 <= memLeft /\ 0 <= unkLeft
        BY <1>1, <1>6
      <3> QED BY <3>1, <3>2, Charged
    <2> QED BY <1>1, <1>6, <2>1, <2>4, <2>5, <2>6, <2>7, <2>8, RunningFacts,
               Opening
  <1> QED BY <1>3, <1>5, <1>6

LEMMA EntryIntStep ==
    ASSUME IInv, EntryInt
    PROVE  IInv'
  <1> DEFINE r == ReadVarint(data, pos, Top.bound)
             val == EntryValue(r.v % IntMod)
  <1>1. phase = "running" /\ StoreEntryInt(r)
    BY DEF EntryInt, InEntry, Reading, AtTag
  <1>2. ReadIn(r, pos, Top.bound)
    BY <1>1, RunningFacts, ReadVarintFacts
  <1>3. \/ \E e : Fail(e)
        \/ r.err = "ok" /\ Merged(r.next, val) /\ Charge(0, 0)
    BY <1>1 DEF StoreEntryInt
  <1> HIDE DEF r, val
  <1>4. CASE \E e : Fail(e)
    BY <1>1, <1>4, RunningFacts, Failing
  <1>5. CASE r.err = "ok" /\ Merged(r.next, val) /\ Charge(0, 0)
    <2>1. r.next \in pos .. (Top.bound + 1)
      BY <1>1, <1>2, <1>5, RunningFacts DEF ReadIn
    <2> QED BY <1>1, <1>5, <2>1, MergingFree
  <1> QED BY <1>3, <1>4, <1>5

LEMMA EntryMessageStep ==
    ASSUME IInv, EntryMessage
    PROVE  IInv'
  <1> DEFINE s == ReadSpan(data, pos, Top.bound, MaxMessage)
  <1>1. phase = "running" /\ Top.role = "entry"
    BY DEF EntryMessage, InEntry, Reading, AtTag
  <1>2. MapField.of \in Types
    <2>1. Top.type \in Types /\ Top.num \in DOMAIN Schema[Top.type]
      BY <1>1, RunningFacts DEF FrameOK
    <2>2. MapField \in FieldKind
      BY <2>1, SchemaAssumption DEF MapField
    <2> QED BY <2>2 DEF FieldKind
  <1>3. \/ \E e : Fail(e)
        \/ OpenSpan(Nested("value", MapField.of, 2, Val.value, FALSE), s)
    BY DEF EntryMessage
  <1>4. ElementCost("value") <= memLeft
    BY <1>1, RunningFacts DEF ElementCost
  <1>5. CASE \E e : Fail(e)
    BY <1>1, <1>5, RunningFacts, Failing
  <1>6. CASE OpenSpan(Nested("value", MapField.of, 2, Val.value, FALSE), s)
    BY <1>1, <1>2, <1>4, <1>6, OpeningSpan
  <1> QED BY <1>3, <1>5, <1>6

\* A record without structure, read whole.
LEMMA FlatFacts ==
    ASSUME IInv, phase = "running", ReadFlat(data, pos, Top.bound, tag.wt).err = "ok"
    PROVE  /\ ReadFlat(data, pos, Top.bound, tag.wt).next \in Nat \ {0}
           /\ ReadFlat(data, pos, Top.bound, tag.wt).next
                \in pos .. (Top.bound + 1)
  <1> DEFINE r == ReadFlat(data, pos, Top.bound, tag.wt)
  <1>1. r.next \in (pos + 1) .. (Top.bound + 1)
    BY RunningFacts, ReadFlatFacts
  <1> HIDE DEF r
  <1>2. pos \in Nat \ {0} /\ Top.bound \in Nat
    BY RunningFacts
  <1>3. r.next \in Nat \ {0} /\ r.next \in pos .. (Top.bound + 1)
    BY <1>1, <1>2
  <1> QED BY <1>3 DEF r

LEMMA KeepFlatStep ==
    ASSUME IInv, KeepFlat
    PROVE  IInv'
  <1> DEFINE r == ReadFlat(data, pos, Top.bound, tag.wt)
             val == IF IsMessage(Top)
                      THEN [Val EXCEPT !.unk = Append(@, UnknownFlat(r))]
                      ELSE Append(Val, UnknownFlat(r))
  <1>1. phase = "running" /\ StoreUnknown(r)
    BY DEF KeepFlat, Keeping, Reading, AtTag
  <1>2. r.err = "ok" => r.next \in Nat \ {0} /\ r.next \in pos .. (Top.bound + 1)
    BY <1>1, FlatFacts
  <1>3. \/ \E e : Fail(e)
        \/ ~ (1 > unkLeft) /\ r.err = "ok" /\ Merged(r.next, val) /\ Charge(1, 0)
    BY <1>1 DEF StoreUnknown, RecordCost
  <1> HIDE DEF r, val
  <1>4. CASE \E e : Fail(e)
    BY <1>1, <1>4, RunningFacts, Failing
  <1>5. CASE ~ (1 > unkLeft) /\ r.err = "ok" /\ Merged(r.next, val) /\ Charge(1, 0)
    <2>1. 1 <= unkLeft /\ 0 <= memLeft
      BY <1>1, <1>5, RunningFacts
    <2>2. BudgetsKept'
      BY <1>5, <2>1, Charged
    <2>3. r.next <= Top.bound + 1
      BY <1>1, <1>2, <1>5, RunningFacts
    <2> QED BY <1>1, <1>2, <1>5, <2>2, <2>3, RunningFacts, Merging
  <1> QED BY <1>3, <1>4, <1>5

LEMMA SkipFlatStep ==
    ASSUME IInv, SkipFlat
    PROVE  IInv'
  <1> DEFINE r == ReadFlat(data, pos, Top.bound, tag.wt)
  <1>1. phase = "running" /\ SkipTo(r)
    BY DEF SkipFlat, Skipping, Reading, AtTag
  <1>2. r.err = "ok" => r.next \in pos .. (Top.bound + 1)
    BY <1>1, FlatFacts
  <1> HIDE DEF r
  <1>3. CASE r.err # "ok"
    BY <1>1, <1>3, RunningFacts, Failing DEF SkipTo
  <1>4. CASE r.err = "ok"
    BY <1>1, <1>2, <1>4, MergingFree DEF SkipTo
  <1> QED BY <1>3, <1>4

\* A group that is kept or skipped.
LEMMA OpeningUnknown ==
    ASSUME IInv, phase = "running", Top.depth # 0, NEW role \in {"unk", "skip"},
           NEW cost \in {0, 1}, cost <= unkLeft,
           Open(GroupFrame(role), pos, cost, 0)
    PROVE  IInv'
  <1> DEFINE fr == GroupFrame(role)
  <1>1. /\ DOMAIN fr = FrameFields
        /\ fr.role = role /\ fr.type = Top.type /\ fr.group = TRUE /\ fr.end = 0
        /\ fr.bound = Top.bound /\ fr.depth = Top.depth - 1
    BY DEF GroupFrame, Descend, FrameFields
  <1>2. Open(fr, pos, cost, 0)
    OBVIOUS
  <1> HIDE DEF fr
  <1>3. /\ Top.bound \in Nat /\ Top.bound <= Len(data) /\ Top.depth \in Nat
        /\ Top.type \in Types /\ pos \in Nat \ {0} /\ pos <= Top.bound + 1
        /\ unkLeft \in Nat /\ memLeft \in Nat
    BY RunningFacts DEF FrameOK
  <1>4. FrameOK(fr)
    <2>1. fr.bound \in Nat /\ fr.depth \in Nat
      BY <1>1, <1>3
    <2>2. fr.role \in Roles /\ fr.role # "entry"
      BY <1>1 DEF Roles
    <2>3. fr.type \in Types
      BY <1>1, <1>3
    <2>4. fr.group \in BOOLEAN
      BY <1>1, Zenon
    <2>5. fr.end \in Nat
      BY <1>1
    <2> QED BY <1>1, <2>1, <2>2, <2>3, <2>4, <2>5 DEF FrameOK
  <1>5. Within(fr)
    BY <1>1, <1>3 DEF Within, IsMessage
  <1>6. Under(fr, Top)
    BY <1>1, <1>3 DEF Under
  <1>7. pos <= fr.bound + 1
    BY <1>1, <1>3
  <1>8. BudgetsKept'
    <2>1. Charge(cost, 0)
      BY <1>2 DEF Open
    <2>2. cost \in Nat /\ 0 <= memLeft
      BY <1>3
    <2> QED BY <2>1, <2>2, Charged
  <1> QED BY <1>2, <1>3, <1>4, <1>5, <1>6, <1>7, <1>8, RunningFacts, Opening

LEMMA KeepGroupStep ==
    ASSUME IInv, KeepGroup
    PROVE  IInv'
  <1>1. phase = "running" /\ unkLeft \in Nat
    BY RunningFacts DEF KeepGroup, Keeping, Reading, AtTag
  <1>2. \/ \E e : Fail(e)
        \/ /\ ~ (1 > unkLeft) /\ Top.depth # 0
           /\ Open(GroupFrame("unk"), pos, 1, 0)
    BY DEF KeepGroup, RecordCost
  <1>3. CASE \E e : Fail(e)
    BY <1>1, <1>3, RunningFacts, Failing
  <1>4. CASE /\ ~ (1 > unkLeft) /\ Top.depth # 0
             /\ Open(GroupFrame("unk"), pos, 1, 0)
    <2>1. 1 <= unkLeft
      BY <1>1, <1>4
    <2> QED BY <1>1, <1>4, <2>1, OpeningUnknown
  <1> QED BY <1>2, <1>3, <1>4

LEMMA SkipGroupStep ==
    ASSUME IInv, SkipGroup
    PROVE  IInv'
  <1>1. phase = "running" /\ 0 <= unkLeft
    BY RunningFacts DEF SkipGroup, Skipping, Reading, AtTag
  <1>2. \/ \E e : Fail(e)
        \/ Top.depth # 0 /\ Open(GroupFrame("skip"), pos, 0, 0)
    BY DEF SkipGroup
  <1>3. CASE \E e : Fail(e)
    BY <1>1, <1>3, RunningFacts, Failing
  <1>4. CASE Top.depth # 0 /\ Open(GroupFrame("skip"), pos, 0, 0)
    BY <1>1, <1>4, OpeningUnknown
  <1> QED BY <1>2, <1>3, <1>4

LEMMA ResumingFree ==
    ASSUME IInv, phase = "running", Len(stack) > 1, NEW into,
           SameFrame(into, stack[Len(stack) - 1]), Resume(into, pos, 0)
    PROVE  IInv'
  <1>1. Charge(0, 0)
    BY DEF Resume
  <1> QED BY <1>1, NotCharged, Resuming

LEMMA CloseGroupStep ==
    ASSUME IInv, CloseGroup
    PROVE  IInv'
  <1>1. phase = "running" /\ Top.group
    BY DEF CloseGroup, AtTag, AtEndTag
  <1>2. Len(stack) > 1
    BY <1>1, RunningFacts, NotOutermost
  <1> DEFINE below == stack[Len(stack) - 1]
  <1>3. SameFrame(Attach(below, Top), below)
    BY <1>2, BelowFacts, AttachKeepsFrame
  <1>4. (\E e : Fail(e)) \/ Resume(Attach(below, Top), pos, 0)
    BY DEF CloseGroup
  <1> QED BY <1>1, <1>2, <1>3, <1>4, RunningFacts, Failing, ResumingFree

LEMMA CloseMessageStep ==
    ASSUME IInv, CloseMessage
    PROVE  IInv'
  <1>1. phase = "running" /\ Top.role # "root"
    BY DEF CloseMessage, Ended
  <1>2. Len(stack) > 1
    BY <1>1, RunningFacts, NotOutermost
  <1> DEFINE below == stack[Len(stack) - 1]
  <1>3. SameFrame(Attach(below, Top), below)
    BY <1>2, BelowFacts, AttachKeepsFrame
  <1>4. (\E e : Fail(e)) \/ Resume(Attach(below, Top), pos, 0)
    BY DEF CloseMessage
  <1> QED BY <1>1, <1>2, <1>3, <1>4, RunningFacts, Failing, ResumingFree

LEMMA CloseEntryStep ==
    ASSUME IInv, CloseEntry
    PROVE  IInv'
  <1>1. phase = "running" /\ Top.role # "root"
    BY DEF CloseEntry, Ended
  <1>2. Len(stack) > 1
    BY <1>1, RunningFacts, NotOutermost
  <1> DEFINE below == stack[Len(stack) - 1]
  <1>3. FrameOK(below)
    BY <1>2, BelowFacts
  <1> DEFINE filled == SetField(below.val, Top.num,
                          Insert(below.val.fields[Top.num], Val.key, Val.value))
             u == Unknown(Top.num, LenWire, 0,
                          Slice(data, Val.start, Top.end), <<>>)
             kept == [below.val EXCEPT !.unk = Append(below.val.unk, u)]
  <1>4. \/ \E e : Fail(e)
        \/ Resume([below EXCEPT !.val = filled], pos, 0)
        \/ Resume(below, pos, 0)
        \/ unkLeft # 0 /\ Resume([below EXCEPT !.val = kept], pos, 1)
    <2>1. [below EXCEPT !.val.unk = Append(@, u)] = [below EXCEPT !.val = kept]
      BY <1>3 DEF FrameOK, FrameFields
    <2> HIDE DEF kept, u
    <2> QED BY <2>1 DEF CloseEntry, u
  <1> HIDE DEF filled, kept, below
  <1>5. CASE \E e : Fail(e)
    BY <1>1, <1>5, RunningFacts, Failing
  <1>6. CASE Resume([below EXCEPT !.val = filled], pos, 0)
    <2>1. SameFrame([below EXCEPT !.val = filled], below)
      BY <1>3, ValChanged
    <2> QED BY <1>1, <1>2, <1>6, <2>1, ResumingFree DEF below
  <1>7. CASE Resume(below, pos, 0)
    <2>1. SameFrame(below, below)
      BY <1>3, Unchanged
    <2> QED BY <1>1, <1>2, <1>7, <2>1, ResumingFree DEF below
  <1>8. CASE unkLeft # 0 /\ Resume([below EXCEPT !.val = kept], pos, 1)
    <2>1. SameFrame([below EXCEPT !.val = kept], below)
      BY <1>3, ValChanged
    <2>2. 1 <= unkLeft /\ 0 <= memLeft /\ Charge(1, 0)
      BY <1>1, <1>8, RunningFacts DEF Resume
    <2>3. BudgetsKept'
      BY <2>2, Charged
    <2> QED BY <1>1, <1>2, <1>8, <2>1, <2>3, Resuming DEF below
  <1> QED BY <1>4, <1>5, <1>6, <1>7, <1>8

LEMMA UnwindStep ==
    ASSUME IInv, Unwind
    PROVE  IInv'
  <1> DEFINE into == AttachFailed(stack[Len(stack) - 1], Top)
  <1>1. /\ phase' = "unwinding" /\ Len(stack) > 1
        /\ stack' = SubSeq(stack, 1, Len(stack) - 2) \o <<into>>
        /\ UNCHANGED <<data, root, tables, pos, unkLeft, memLeft>>
    BY DEF Unwind
  <1>2. SameFrame(into, stack[Len(stack) - 1])
    BY <1>1, BelowFacts, AttachFailedKeepsFrame
  <1> HIDE DEF into
  <1>3. StackWith(stack', into)
    BY <1>1, <1>2, Popped
  <1>4. BudgetsKept'
    BY <1>1 DEF IInv, BudgetsKept
  <1> QED BY <1>1, <1>3, <1>4, InvKept DEF StackWith, IInv, TypeOK

\* An outermost activation, alone on the stack.
LEMMA RootAlone ==
    ASSUME NEW fr, NEW end \in Nat, NEW bound \in Nat, NEW val,
           root \in Types, end <= bound, bound <= Len(data),
           root \in tables => bound = end, fr = RootFrame(end, bound, val)
    PROVE  StackWith(<<fr>>, fr) /\ fr.bound = bound
  <1>1. /\ DOMAIN fr = FrameFields
        /\ fr.role = "root" /\ fr.type = root /\ fr.group = FALSE
        /\ fr.end = end /\ fr.bound = bound /\ fr.depth = RecursionLimit
    BY DEF RootFrame, FrameFields
  <1>2. FrameOK(fr)
    <2>1. fr.group \in BOOLEAN
      BY <1>1, Zenon
    <2> QED BY <1>1, <2>1, DecodeLimitsAssumption DEF FrameOK, Roles
  <1>3. Within(fr)
    BY <1>1 DEF Within
  <1>4. /\ Len(<<fr>>) = 1 /\ <<fr>>[1] = fr /\ <<fr>> # <<>>
    OBVIOUS
  <1>5. IsSeq(<<fr>>)
    <2>1. <<fr>> \in Seq({fr})
      OBVIOUS
    <2> QED BY <2>1 DEF IsSeq
  <1> DEFINE s == <<fr>>
  <1>6. Len(s) = 1 /\ s[1] = fr /\ s # <<>> /\ IsSeq(s)
    BY <1>4, <1>5
  <1> HIDE DEF s
  <1>7. WellNested(s)
    <2>1. \A k \in 1 .. Len(s) : FrameOK(s[k]) /\ Within(s[k])
      BY <1>2, <1>3, <1>6
    <2>2. \A k \in 2 .. Len(s) : Under(s[k], s[k - 1])
      BY <1>6
    <2> QED BY <1>1, <1>6, <2>1, <2>2 DEF WellNested
  <1>8. StackWith(s, fr)
    BY <1>6, <1>7 DEF StackWith
  <1> QED BY <1>1, <1>8 DEF s

LEMMA MergeRestStep ==
    ASSUME IInv, MergeRest
    PROVE  IInv'
  <1>1. phase = "running"
    BY DEF MergeRest, Ended
  <1> DEFINE fr == RootFrame(Len(data), Len(data), Val)
  <1>2. \/ \E e : Fail(e)
        \/ /\ stack' = <<fr>>
           /\ unkLeft' = UnknownLimit /\ memLeft' = ElementLimit
           /\ UNCHANGED <<data, root, phase, tables, pos>>
    BY DEF MergeRest
  <1>3. CASE \E e : Fail(e)
    BY <1>1, <1>3, RunningFacts, Failing
  <1>4. CASE /\ stack' = <<fr>>
             /\ unkLeft' = UnknownLimit /\ memLeft' = ElementLimit
             /\ UNCHANGED <<data, root, phase, tables, pos>>
    <2>1. /\ Len(data) \in Nat /\ root \in Types /\ Top.bound \in Nat
          /\ pos \in Nat \ {0} /\ pos <= Len(data) + 1
      BY <1>1, RunningFacts DEF IInv, TypeOK
    <2>2. StackWith(<<fr>>, fr) /\ fr.bound = Len(data)
      BY <2>1, RootAlone
    <2>3. BudgetsKept'
      BY <1>4, DecodeLimitsAssumption DEF BudgetsKept
    <2> QED BY <1>1, <1>4, <2>1, <2>2, <2>3, InvKept DEF StackWith
  <1> QED BY <1>2, <1>3, <1>4

LEMMA FinishStep ==
    ASSUME IInv, Finish
    PROVE  IInv'
  <1>1. UNCHANGED <<data, root, tables, pos, unkLeft, memLeft>>
    BY DEF Finish
  <1>2. BudgetsKept'
    BY <1>1 DEF IInv, BudgetsKept
  <1>3. \/ phase' = "begin" /\ stack' = <<>>
        \/ phase' = "done" /\ stack' = stack
    BY DEF Finish
  <1>4. CASE phase' = "begin" /\ stack' = <<>>
    <2>1. <<>> \in Seq({}) /\ Len(<<>>) = 0
      OBVIOUS
    <2>2. IsSeq(stack)'
      BY <1>4, <2>1 DEF IsSeq
    <2>3. TypeOK'
      BY <1>1, <1>4, <2>2 DEF IInv, TypeOK
    <2>4. WellNested(stack)'
      BY <1>4, <2>1 DEF WellNested
    <2> QED BY <1>2, <1>4, <2>3, <2>4 DEF IInv
  <1>5. CASE phase' = "done" /\ stack' = stack
    <2>1. stack # <<>>
      BY DEF IInv, TypeOK, Finish, Ended
    <2> QED BY <1>1, <1>2, <1>5, <2>1, InvKept DEF IInv, TypeOK
  <1> QED BY <1>3, <1>4, <1>5

\* The bytes a call covers are in the buffer.
LEMMA PrefixFacts ==
    ASSUME data \in Seq(Nat), NEW k \in 0 .. Len(data), Prefix(k).err = "ok"
    PROVE  /\ Prefix(k).v \in Nat /\ Prefix(k).next \in Nat \ {0}
           /\ Prefix(k).next + Prefix(k).v - 1 <= Len(data)
  <1>1. CASE entry = "plain"
    <2>1. Prefix(k) = ReadOk(k, 1)
      BY <1>1 DEF Prefix, ReadErr
    <2>2. Prefix(k).v = k /\ Prefix(k).next = 1
      BY <2>1 DEF ReadOk
    <2> QED BY <2>2
  <1>2. CASE entry # "plain"
    <2> DEFINE max == IF MaxSize < MaxMessage THEN MaxSize ELSE MaxMessage
               s == ReadSpan(data, 1, Len(data), max)
    <2>1. Prefix(k) = s
      BY <1>2 DEF Prefix
    <2>2. SpanIn(s, 1, Len(data))
      <3>1. Len(data) \in Nat /\ 1 \in Nat \ {0} /\ s.err = "ok"
        BY <2>1
      <3> HIDE DEF max
      <3> QED BY <3>1, ReadSpanFacts
    <2> HIDE DEF s
    <2> QED BY <2>1, <2>2 DEF SpanIn
  <1> QED BY <1>1, <1>2

LEMMA BeginStep ==
    ASSUME IInv, NEW ts \in TableSets \cup {{}}, NEW k \in 0 .. Len(data),
           Begin(ts, k)
    PROVE  IInv'
  <1> DEFINE p == Prefix(k)
             last == p.next + p.v - 1
             bound == IF root \in ts \/ entry = "plain" THEN last ELSE Len(data)
             failed == RootFrame(0, 0, EmptyMsg(root))
             started == RootFrame(last, bound, EmptyMsg(root))
  <1>1. /\ data \in Seq(Nat) /\ root \in Types /\ Len(data) \in Nat
    BY DEF IInv, TypeOK
  <1>2. /\ tables' = ts /\ UNCHANGED <<data, root>>
        /\ unkLeft' = UnknownLimit /\ memLeft' = ElementLimit
    BY DEF Begin
  <1>3. p.err = "ok" => /\ p.v \in Nat /\ p.next \in Nat \ {0}
                        /\ last <= Len(data)
    BY <1>1, PrefixFacts
  <1>4. IF p.err # "ok"
          THEN stack' = <<failed>> /\ phase' = "unwinding" /\ pos' = 1
          ELSE stack' = <<started>> /\ phase' = "running" /\ pos' = p.next
    BY DEF Begin
  <1>5. BudgetsKept'
    BY <1>2, DecodeLimitsAssumption DEF BudgetsKept
  <1> HIDE DEF p
  <1>6. \E fr, end, bd :
           /\ stack' = <<fr>> /\ fr = RootFrame(end, bd, EmptyMsg(root))
           /\ end \in Nat /\ bd \in Nat /\ end <= bd /\ bd <= Len(data)
           /\ root \in ts => bd = end
           /\ pos' \in Nat \ {0} /\ phase' \in {"running", "unwinding"}
           /\ phase' = "running" => pos' <= bd + 1
    <2>1. CASE p.err # "ok"
      BY <1>1, <1>4, <2>1
    <2>2. CASE p.err = "ok"
      <3>1. last \in Nat /\ bound \in Nat /\ last <= bound /\ bound <= Len(data)
            /\ p.next <= bound + 1
        BY <1>1, <1>3, <2>2
      <3>2. root \in ts => bound = last
        OBVIOUS
      <3> HIDE DEF bound, last
      <3> QED BY <1>3, <1>4, <2>2, <3>1, <3>2
    <2> QED BY <2>1, <2>2
  <1>7. PICK fr, end, bd :
           /\ stack' = <<fr>> /\ fr = RootFrame(end, bd, EmptyMsg(root))
           /\ end \in Nat /\ bd \in Nat /\ end <= bd /\ bd <= Len(data)
           /\ root \in ts => bd = end
           /\ pos' \in Nat \ {0} /\ phase' \in {"running", "unwinding"}
           /\ phase' = "running" => pos' <= bd + 1
    BY <1>6
  <1>8. /\ DOMAIN fr = FrameFields
        /\ fr.role = "root" /\ fr.type = root /\ fr.group = FALSE
        /\ fr.end = end /\ fr.bound = bd /\ fr.depth = RecursionLimit
    BY <1>7 DEF RootFrame, FrameFields
  <1>9. FrameOK(fr)
    <2>1. fr.group \in BOOLEAN
      BY <1>8, Zenon
    <2> QED BY <1>1, <1>7, <1>8, <2>1, DecodeLimitsAssumption DEF FrameOK, Roles
  <1>10. Within(fr)'
    BY <1>2, <1>7, <1>8 DEF Within
  <1>11. /\ Len(stack') = 1 /\ stack'[1] = fr /\ stack' # <<>>
         /\ stack' \in Seq({fr})
    BY <1>7
  <1>12. WellNested(stack)'
    <2>1. (\A j \in 1 .. Len(stack) : FrameOK(stack[j]) /\ Within(stack[j]))'
      <3>1. \A j \in 1 .. Len(stack') : stack'[j] = fr
        BY <1>11
      <3> QED BY <1>9, <1>10, <3>1 DEF FrameOK, Within, IsMessage
    <2>2. (\A j \in 2 .. Len(stack) : Under(stack[j], stack[j - 1]))'
      BY <1>11
    <2>3. (stack # <<>> => /\ stack[1].role = "root" /\ ~ stack[1].group
                           /\ stack[1].depth = RecursionLimit)'
      BY <1>8, <1>11
    <2> QED BY <2>1, <2>2, <2>3 DEF WellNested
  <1>13. TypeOK'
    BY <1>1, <1>2, <1>7, <1>11 DEF TypeOK, IsSeq
  <1>14. (phase = "running" => pos <= Top.bound + 1)'
    BY <1>7, <1>8, <1>11 DEF Top
  <1> QED BY <1>5, <1>12, <1>13, <1>14 DEF IInv

LEMMA InitInv == Init => IInv
  <1> SUFFICES ASSUME Init PROVE IInv
    OBVIOUS
  <1>1. PICK i \in Inputs : root = i[1] /\ entry = i[2] /\ data = i[3]
    BY DEF Init
  <1>2. root \in Types /\ data \in Seq(Nat)
    <2>1. root \in Types /\ data \in Seq(ByteValues)
      BY <1>1, SchemaAssumption
    <2>2. ByteValues \subseteq Nat
      BY VarintAssumption DEF ByteValues
    <2>3. ASSUME NEW A, NEW B, A \subseteq B, NEW s \in Seq(A)
          PROVE  s \in Seq(B)
      BY <2>3
    <2> QED BY <2>1, <2>2, <2>3
  <1>3. phase = "begin" /\ tables = {} /\ stack = <<>> /\ pos = 1
        /\ unkLeft = UnknownLimit /\ memLeft = ElementLimit
    BY DEF Init
  <1>4. <<>> \in Seq({}) /\ Len(<<>>) = 0
    OBVIOUS
  <1>5. TypeOK
    BY <1>2, <1>3, <1>4 DEF TypeOK, IsSeq
  <1>6. WellNested(stack)
    BY <1>3, <1>4 DEF WellNested
  <1>7. BudgetsKept
    BY <1>3, DecodeLimitsAssumption DEF BudgetsKept
  <1> QED BY <1>3, <1>5, <1>6, <1>7 DEF IInv

LEMMA NextInv == IInv /\ [Next]_vars => IInv'
  <1> SUFFICES ASSUME IInv, [Next]_vars PROVE IInv'
    OBVIOUS
  <1>1. Len(data) \in Nat
    BY DEF IInv, TypeOK
  <1>2. CASE BeginGenerated
    <2>1. Begin({}, Len(data))
      BY <1>2 DEF BeginGenerated
    <2>2. Len(data) \in 0 .. Len(data) /\ {} \in TableSets \cup {{}}
      BY <1>1
    <2> QED BY <2>1, <2>2, BeginStep
  <1>3. CASE BeginTables
    <2>1. PICK ts \in TableSets : Begin(ts, Len(data))
      BY <1>3 DEF BeginTables
    <2> QED BY <1>1, <2>1, BeginStep
  <1>4. CASE BeginParts
    <2>1. PICK k \in 1 .. Len(data) - 1 : Begin({}, k)
      BY <1>4 DEF BeginParts
    <2>2. k \in 0 .. Len(data)
      BY <1>1
    <2> QED BY <2>1, <2>2, BeginStep
  <1>5. CASE Fields
    BY <1>5, DecodeTagStep, MergeIntStep, MergeBytesStep, MergeRepeatedIntStep,
       MergeEnumStep, OpenMessageStep, OpenGroupStep, OpenEntryStep,
       EntryIntStep, EntryMessageStep, KeepFlatStep, KeepGroupStep,
       SkipFlatStep, SkipGroupStep DEF Fields
  <1>6. CASE Ends
    <2>1. CASE RootOverran
      BY <2>1, RunningFacts, Failing DEF RootOverran, Ended
    <2> QED BY <1>6, <2>1, CloseGroupStep, CloseMessageStep, CloseEntryStep,
               MergeRestStep, UnwindStep, FinishStep DEF Ends
  <1>7. CASE UNCHANGED vars
    BY <1>7 DEF vars, IInv, TypeOK, IsSeq, WellNested, FrameOK, Within, Under,
                IsMessage, BudgetsKept, Top
  <1> QED BY <1>2, <1>3, <1>4, <1>5, <1>6, <1>7 DEF Next, Returned

LEMMA Inductive == Spec => []IInv
  BY InitInv, NextInv, PTL DEF Spec

-----------------------------------------------------------------------------
(***************************************************************************)
(* The theorems.                                                           *)
(***************************************************************************)
LEMMA InvBounds == IInv => StaysInBounds
  <1> SUFFICES ASSUME IInv, phase = "running" PROVE StaysInBounds
    BY DEF StaysInBounds
  <1>1. Len(stack) \in Nat
    BY RunningFacts
  <1>2. ASSUME NEW k \in 1 .. Len(stack)
        PROVE  LET fr == stack[k] IN
               /\ fr.bound <= Len(data)
               /\ k > 1 => fr.bound <= stack[k - 1].bound
               /\ ~ fr.group => fr.end <= fr.bound
               /\ IsMessage(fr) /\ fr.type \in tables => fr.bound = fr.end
    <2>1. Within(stack[k])
      BY <1>2 DEF IInv, WellNested
    <2>2. k > 1 => Under(stack[k], stack[k - 1])
      BY <1>1, <1>2 DEF IInv, WellNested
    <2> QED BY <2>1, <2>2 DEF Within, Under
  <1> QED BY <1>2 DEF IInv, StaysInBounds

\* No read of the decoder, whatever it was given, goes past the buffer, past
\* the activation it belongs to, or past the payload a table was handed.
THEOREM ReadsInBounds == Spec => []StaysInBounds
  BY Inductive, InvBounds, PTL

LEMMA InvDepth == IInv => DepthBounded
  <1> SUFFICES ASSUME IInv PROVE DepthBounded
    OBVIOUS
  <1>1. Len(stack) \in Nat
    BY Appended DEF IInv, TypeOK
  <1> DEFINE opened(k) == {j \in 2 .. k : stack[j].role # "entry"}
             S == {k \in Nat : 1 <= k /\ k <= Len(stack) =>
                      /\ IsFiniteSet(opened(k))
                      /\ Cardinality(opened(k)) \in Nat
                      /\ stack[k].depth = RecursionLimit - Cardinality(opened(k))}
  <1>2. 0 \in S
    OBVIOUS
  <1>3. ASSUME NEW k \in Nat, k \in S PROVE k + 1 \in S
    <2> SUFFICES ASSUME k + 1 <= Len(stack)
                 PROVE  /\ IsFiniteSet(opened(k + 1))
                        /\ Cardinality(opened(k + 1)) \in Nat
                        /\ stack[k + 1].depth
                             = RecursionLimit - Cardinality(opened(k + 1))
      OBVIOUS
    <2>1. CASE k = 0
      <3>1. opened(k + 1) = {}
        BY <2>1
      <3>2. stack # <<>> /\ stack[k + 1].depth = RecursionLimit
        <4>1. Len(<<>>) = 0
          OBVIOUS
        <4>2. stack # <<>>
          BY <1>1, <2>1, <4>1
        <4> QED BY <2>1, <4>2 DEF IInv, WellNested
      <3> HIDE DEF opened
      <3> QED BY <3>1, <3>2, FS_EmptySet, DecodeLimitsAssumption
    <2>2. CASE k # 0
      <3>1. /\ IsFiniteSet(opened(k)) /\ Cardinality(opened(k)) \in Nat
            /\ stack[k].depth = RecursionLimit - Cardinality(opened(k))
        BY <1>1, <1>3, <2>2
      <3>2. k + 1 \in 2 .. Len(stack) /\ (k + 1) - 1 = k
        BY <1>1, <2>2
      <3>3. Under(stack[k + 1], stack[k])
        BY <3>2 DEF IInv, WellNested
      <3>4. k + 1 \notin opened(k)
        OBVIOUS
      <3>5. CASE stack[k + 1].role = "entry"
        <4>1. opened(k + 1) = opened(k)
          BY <2>2, <3>5
        <4>2. stack[k + 1].depth = stack[k].depth - 0
          BY <3>3, <3>5 DEF Under
        <4> HIDE DEF opened
        <4> QED BY <3>1, <4>1, <4>2, DecodeLimitsAssumption
      <3>6. CASE stack[k + 1].role # "entry"
        <4>1. opened(k + 1) = opened(k) \cup {k + 1}
          BY <2>2, <3>6
        <4>2. stack[k + 1].depth = stack[k].depth - 1
          BY <3>3, <3>6 DEF Under
        <4> HIDE DEF opened
        <4>3. /\ IsFiniteSet(opened(k + 1))
              /\ Cardinality(opened(k + 1)) = Cardinality(opened(k)) + 1
          BY <3>1, <3>4, <4>1, FS_AddElement
        <4> QED BY <3>1, <4>2, <4>3, DecodeLimitsAssumption
      <3> QED BY <3>5, <3>6
    <2> QED BY <2>1, <2>2
  <1> HIDE DEF S
  <1>4. Nat \subseteq S
    BY <1>2, <1>3, Induction
  <1>5. \A k \in 1 .. Len(stack) :
           stack[k].depth = RecursionLimit - Cardinality(opened(k))
    BY <1>1, <1>4 DEF S
  <1>6. \A k \in 1 .. Len(stack) - 1 :
           ~ (stack[k].role = "entry" /\ stack[k + 1].role = "entry")
    <2> SUFFICES ASSUME NEW k \in 1 .. Len(stack) - 1
                 PROVE  ~ (stack[k].role = "entry" /\ stack[k + 1].role = "entry")
      OBVIOUS
    <2>1. k + 1 \in 2 .. Len(stack) /\ (k + 1) - 1 = k
      BY <1>1
    <2>2. Under(stack[k + 1], stack[k])
      BY <2>1 DEF IInv, WellNested
    <2> QED BY <2>2 DEF Under
  <1> QED BY <1>5, <1>6 DEF DepthBounded

\* The recursion limit and both budgets are kept at every step of a decode,
\* however messages, groups, entries and unknown fields are nested.
THEOREM LimitsHold == Spec => []LimitsKept
  <1>1. IInv => LimitsKept
    BY InvDepth DEF LimitsKept, IInv
  <1> QED BY <1>1, Inductive, PTL

-----------------------------------------------------------------------------
(***************************************************************************)
(* What is left of the outermost message, at any moment of a decode: a     *)
(* second invariant, on top of the first.                                  *)
(***************************************************************************)
\* A message of type t as the decoder holds it.
Shaped(v, t) ==
    /\ v = [fields |-> v.fields, oneof |-> v.oneof, unk |-> v.unk]
    /\ v.fields = [n \in DOMAIN Schema[t] |-> v.fields[n]]

Repeats(t, n) ==
    n \in DOMAIN Schema[t] /\ Schema[t][n].kind \in {"rmsg", "rgroup"}

\* The elements of field n are among those decoded to their end.
AllDone(s, t, n, done) ==
    /\ IsSeq(s)
    /\ \A i \in 1 .. Len(s) : <<Schema[t][n].of, n, s[i]>> \in done

\* A member with this number was decoded to its end.
MemberDone(n, done) == \E c \in done : c[2] = n

Kept(v, t, done) ==
    /\ Shaped(v, t)
    /\ \A n \in DOMAIN Schema[t] :
          Repeats(t, n) => AllDone(v.fields[n], t, n, done)
    /\ v.oneof # <<>> /\ Schema[t][v.oneof[1]].kind = "omsg" =>
          MemberDone(v.oneof[1], done)

\* An activation for a field of a message of type t.
InField(fr, t, done) ==
    /\ fr.role \notin {"root", "value"}
    /\ fr.role \in {"msg", "entry"} => ~ Repeats(t, fr.num)
    /\ fr.role = "elem" => fr.type = Schema[t][fr.num].of
    /\ fr.role = "oneof" /\ fr.had => MemberDone(fr.num, done)

KeptInv ==
    stack # <<>> =>
        /\ stack[1].type = root /\ Kept(stack[1].val, root, complete)
        /\ Len(stack) > 1 => InField(stack[2], root, complete)

\* What happens to a message that is kept so.
LEMMA KeptGrows ==
    ASSUME NEW v, NEW t, NEW done, NEW more, Kept(v, t, done), done \subseteq more
    PROVE  Kept(v, t, more)
  BY DEF Kept, AllDone, MemberDone

LEMMA KeptField ==
    ASSUME NEW v, NEW t, NEW done, Kept(v, t, done), NEW n, NEW x,
           Repeats(t, n) => AllDone(x, t, n, done)
    PROVE  Kept(SetField(v, n, x), t, done)
  <1> DEFINE w == SetField(v, n, x)
  <1>1. /\ w = [fields |-> w.fields, oneof |-> w.oneof, unk |-> w.unk]
        /\ w.fields = [v.fields EXCEPT ![n] = x] /\ w.oneof = v.oneof
    BY DEF Kept, Shaped, SetField
  <1>2. /\ w.fields = [m \in DOMAIN Schema[t] |-> w.fields[m]]
        /\ \A m \in DOMAIN Schema[t] :
              w.fields[m] = IF m = n THEN x ELSE v.fields[m]
    BY <1>1 DEF Kept, Shaped
  <1> HIDE DEF w
  <1>3. ASSUME NEW m \in DOMAIN Schema[t], Repeats(t, m)
        PROVE  AllDone(w.fields[m], t, m, done)
    BY <1>2, <1>3 DEF Kept
  <1>4. w.oneof # <<>> /\ Schema[t][w.oneof[1]].kind = "omsg" =>
          MemberDone(w.oneof[1], done)
    BY <1>1 DEF Kept
  <1>5. Shaped(w, t)
    BY <1>1, <1>2 DEF Shaped
  <1>6. Kept(w, t, done)
    BY <1>3, <1>4, <1>5 DEF Kept
  <1> QED BY <1>6 DEF w

LEMMA KeptMember ==
    ASSUME NEW v, NEW t, NEW done, Kept(v, t, done), NEW n, NEW x,
           Schema[t][n].kind = "omsg" => MemberDone(n, done)
    PROVE  Kept([v EXCEPT !.oneof = <<n, x>>], t, done)
  <1> DEFINE w == [v EXCEPT !.oneof = <<n, x>>]
  <1>1. /\ w = [fields |-> w.fields, oneof |-> w.oneof, unk |-> w.unk]
        /\ w.fields = v.fields /\ w.oneof[1] = n
    BY DEF Kept, Shaped
  <1> HIDE DEF w
  <1>2. Kept(w, t, done)
    BY <1>1 DEF Kept, Shaped
  <1> QED BY <1>2 DEF w

LEMMA KeptUnknown ==
    ASSUME NEW v, NEW t, NEW done, Kept(v, t, done), NEW u
    PROVE  Kept([v EXCEPT !.unk = u], t, done)
  <1> DEFINE w == [v EXCEPT !.unk = u]
  <1>1. /\ w = [fields |-> w.fields, oneof |-> w.oneof, unk |-> w.unk]
        /\ w.fields = v.fields /\ w.oneof = v.oneof
    BY DEF Kept, Shaped
  <1> HIDE DEF w
  <1>2. Kept(w, t, done)
    BY <1>1 DEF Kept, Shaped
  <1> QED BY <1>2 DEF w

LEMMA KeptNew ==
    ASSUME NEW t, NEW done
    PROVE  Kept(EmptyMsg(t), t, done)
  <1>1. Shaped(EmptyMsg(t), t)
    BY DEF EmptyMsg, Shaped
  <1>2. ASSUME NEW n \in DOMAIN Schema[t], Repeats(t, n)
        PROVE  AllDone(EmptyMsg(t).fields[n], t, n, done)
    <2>1. EmptyMsg(t).fields[n] = <<>>
      BY <1>2 DEF EmptyMsg, Default, Repeats
    <2>2. <<>> \in Seq({}) /\ Len(<<>>) = 0
      OBVIOUS
    <2> QED BY <2>1, <2>2 DEF AllDone, IsSeq
  <1>3. EmptyMsg(t).oneof = <<>>
    BY DEF EmptyMsg
  <1> QED BY <1>1, <1>2, <1>3 DEF Kept

\* An activation that ended well, or not, put into the message.
LEMMA KeptAttached ==
    ASSUME NEW into, FrameOK(into), IsMessage(into), NEW fr, NEW t, NEW done,
           Kept(into.val, t, done), InField(fr, t, done)
    PROVE  Kept(Attach(into, fr).val, t,
                IF fr.role \in {"elem", "oneof"}
                  THEN done \cup {<<fr.type, fr.num, fr.val>>} ELSE done)
  <1> DEFINE more == done \cup {<<fr.type, fr.num, fr.val>>}
             v == into.val
  <1>1. "val" \in DOMAIN into
    BY DEF FrameOK, FrameFields
  <1>2. Kept(v, t, more)
    BY KeptGrows
  <1>3. CASE fr.role = "msg"
    <2>1. Attach(into, fr).val = SetField(v, fr.num, <<fr.val>>)
      BY <1>1, <1>3 DEF Attach
    <2>2. ~ Repeats(t, fr.num)
      BY <1>3 DEF InField
    <2> QED BY <1>3, <2>1, <2>2, KeptField
  <1>4. CASE fr.role = "elem"
    <2> DEFINE old == v.fields[fr.num]
               new == Append(old, fr.val)
    <2>1. Attach(into, fr).val = SetField(v, fr.num, new)
      BY <1>1, <1>4 DEF Attach
    <2>2. ASSUME Repeats(t, fr.num) PROVE AllDone(new, t, fr.num, more)
      <3>1. AllDone(old, t, fr.num, done)
        BY <2>2 DEF Kept, Repeats
      <3>2. fr.type = Schema[t][fr.num].of
        BY <1>4 DEF InField
      <3> HIDE DEF old
      <3>3. /\ IsSeq(new) /\ Len(old) \in Nat /\ Len(new) = Len(old) + 1
            /\ \A k \in 1 .. Len(old) : new[k] = old[k]
            /\ new[Len(old) + 1] = fr.val
        BY <3>1, Appended DEF AllDone
      <3> HIDE DEF new
      <3>4. ASSUME NEW i \in 1 .. Len(new)
            PROVE  <<Schema[t][fr.num].of, fr.num, new[i]>> \in more
        <4>1. CASE i = Len(old) + 1
          BY <3>2, <3>3, <4>1
        <4>2. CASE i # Len(old) + 1
          <5>1. i \in 1 .. Len(old)
            BY <3>3, <4>2
          <5> QED BY <3>1, <3>3, <5>1 DEF AllDone
        <4> QED BY <4>1, <4>2
      <3> QED BY <3>3, <3>4 DEF AllDone
    <2> HIDE DEF new, more
    <2>3. Kept(SetField(v, fr.num, new), t, more)
      BY <1>2, <2>2, KeptField
    <2> QED BY <1>4, <2>1, <2>3 DEF more
  <1>5. CASE fr.role = "oneof"
    <2>1. Attach(into, fr).val = [v EXCEPT !.oneof = <<fr.num, fr.val>>]
      BY <1>1, <1>5 DEF Attach
    <2>2. MemberDone(fr.num, more)
      <3> DEFINE c == <<fr.type, fr.num, fr.val>>
      <3>1. c \in more /\ c[2] = fr.num
        OBVIOUS
      <3> HIDE DEF more, c
      <3> QED BY <3>1 DEF MemberDone
    <2> HIDE DEF more
    <2>3. Kept([v EXCEPT !.oneof = <<fr.num, fr.val>>], t, more)
      BY <1>2, <2>2, KeptMember
    <2> QED BY <1>5, <2>1, <2>3 DEF more
  <1>6. CASE fr.role = "unk"
    <2> DEFINE u == Append(v.unk, Unknown(fr.num, StartGroupWire, 0, <<>>, fr.val))
    <2>1. Attach(into, fr).val = [v EXCEPT !.unk = u]
      BY <1>1, <1>6 DEF Attach
    <2> HIDE DEF u
    <2> QED BY <1>6, <2>1, KeptUnknown
  <1>7. CASE fr.role \notin {"msg", "elem", "oneof", "unk"}
    <2>1. Attach(into, fr) = into
      BY <1>7 DEF Attach, InField
    <2> QED BY <1>7, <2>1
  <1> QED BY <1>3, <1>4, <1>5, <1>6, <1>7

LEMMA KeptFailed ==
    ASSUME NEW into, FrameOK(into), NEW fr, NEW t, NEW done,
           Kept(into.val, t, done), InField(fr, t, done)
    PROVE  Kept(AttachFailed(into, fr).val, t, done)
  <1> DEFINE v == into.val
  <1>1. "val" \in DOMAIN into
    BY DEF FrameOK, FrameFields
  <1>2. CASE fr.role = "msg"
    <2>1. AttachFailed(into, fr).val = SetField(v, fr.num, <<fr.val>>)
      BY <1>1, <1>2 DEF AttachFailed, Attach
    <2>2. ~ Repeats(t, fr.num)
      BY <1>2 DEF InField
    <2> QED BY <2>1, <2>2, KeptField
  <1>3. CASE fr.role = "oneof" /\ fr.had
    <2>1. AttachFailed(into, fr).val = [v EXCEPT !.oneof = <<fr.num, fr.val>>]
      BY <1>1, <1>3 DEF AttachFailed, Attach
    <2>2. MemberDone(fr.num, done)
      BY <1>3 DEF InField
    <2>3. Kept([v EXCEPT !.oneof = <<fr.num, fr.val>>], t, done)
      <3> HIDE DEF v
      <3>1. Kept(v, t, done)
        BY DEF v
      <3> QED BY <2>2, <3>1, KeptMember
    <2> QED BY <2>1, <2>3
  <1>4. CASE ~ (fr.role = "msg" \/ (fr.role = "oneof" /\ fr.had))
    <2>1. AttachFailed(into, fr) = into
      BY <1>4, Zenon DEF AttachFailed
    <2> QED BY <2>1
  <1> QED BY <1>2, <1>3, <1>4

\* What the steps do to the stack: everything above position n replaced, one
\* activation more, or nothing.
LEMMA KeptCut ==
    ASSUME IInv, KeptInv, NEW n \in Nat, n + 1 <= Len(stack), NEW x,
           CutAt(stack', stack, n, x), SameFrame(x, stack[n + 1]),
           root' = root, complete \subseteq complete',
           n = 0 => Kept(x.val, root, complete')
    PROVE  KeptInv'
  <1>1. IsSeq(stack) /\ Len(stack) \in Nat
    BY Appended DEF IInv, TypeOK
  <1>2. stack # <<>>
    BY <1>1
  <1>3. /\ stack[1].type = root /\ Kept(stack[1].val, root, complete)
        /\ Len(stack) > 1 => InField(stack[2], root, complete)
    BY <1>2 DEF KeptInv
  <1>4. /\ Len(stack') = n + 1 /\ stack'[n + 1] = x
        /\ \A k \in 1 .. n : stack'[k] = stack[k]
    BY DEF CutAt
  <1>5. stack'[1].type = root /\ Kept(stack'[1].val, root, complete')
    <2>1. CASE n = 0
      BY <1>3, <1>4, <2>1 DEF SameFrame
    <2>2. CASE n # 0
      <3>1. stack'[1] = stack[1]
        BY <1>4, <2>2
      <3> QED BY <1>3, <3>1, KeptGrows
    <2> QED BY <2>1, <2>2
  <1>6. ASSUME n # 0 PROVE InField(stack'[2], root, complete')
    <2>1. InField(stack[2], root, complete)
      BY <1>1, <1>3, <1>6
    <2>2. stack'[2] = stack[2] \/ SameFrame(stack'[2], stack[2])
      <3>1. CASE n = 1
        BY <1>4, <3>1
      <3>2. CASE n # 1
        BY <1>4, <1>6, <3>2
      <3> QED BY <3>1, <3>2
    <2> QED BY <2>1, <2>2 DEF SameFrame, InField, MemberDone
  <1> QED BY <1>4, <1>5, <1>6 DEF KeptInv

LEMMA KeptTop ==
    ASSUME IInv, KeptInv, stack # <<>>, NEW fr, SameFrame(fr, Top),
           stack' = ReplaceTop(fr), UNCHANGED <<root, complete>>,
           Len(stack) = 1 => Kept(fr.val, root, complete)
    PROVE  KeptInv'
  <1> DEFINE n == Len(stack) - 1
  <1>1. n \in Nat /\ n + 1 = Len(stack) /\ n \in 0 .. Len(stack)
    BY TopFacts
  <1>2. IsSeq(stack)
    BY DEF IInv, TypeOK
  <1>3. stack' = Append(SubSeq(stack, 1, n), fr) /\ SameFrame(fr, stack[n + 1])
    BY <1>1 DEF ReplaceTop, Below, Top
  <1> HIDE DEF n
  <1>4. CutAt(stack', stack, n, fr)
    BY <1>1, <1>2, <1>3, Cut
  <1> QED BY <1>1, <1>3, <1>4, KeptCut

LEMMA KeptOpened ==
    ASSUME IInv, KeptInv, stack # <<>>, NEW fr,
           stack' = Append(stack, fr), UNCHANGED <<root, complete>>,
           Len(stack) = 1 => InField(fr, root, complete)
    PROVE  KeptInv'
  <1>1. Len(stack) \in Nat \ {0} /\ IsSeq(stack)
    BY TopFacts DEF IInv, TypeOK
  <1>2. /\ Len(stack') = Len(stack) + 1 /\ stack'[Len(stack) + 1] = fr
        /\ \A k \in 1 .. Len(stack) : stack'[k] = stack[k]
    BY <1>1, Appended
  <1>3. /\ stack[1].type = root /\ Kept(stack[1].val, root, complete)
        /\ Len(stack) > 1 => InField(stack[2], root, complete)
    BY DEF KeptInv
  <1>4. stack'[1] = stack[1]
    BY <1>1, <1>2
  <1>5. InField(stack'[2], root, complete)
    <2>1. CASE Len(stack) = 1
      BY <1>2, <2>1
    <2>2. CASE Len(stack) # 1
      <3>1. Len(stack) > 1 /\ 2 \in 1 .. Len(stack)
        <4> DEFINE n == Len(stack)
        <4>1. n \in Nat \ {0} /\ n # 1
          BY <1>1, <2>2
        <4> HIDE DEF n
        <4>2. n > 1 /\ 2 \in 1 .. n
          BY <4>1
        <4> QED BY <4>2 DEF n
      <3>2. stack'[2] = stack[2]
        BY <1>2, <3>1
      <3> QED BY <1>3, <3>1, <3>2
    <2> QED BY <2>1, <2>2
  <1> QED BY <1>3, <1>4, <1>5 DEF KeptInv

LEMMA KeptSame ==
    ASSUME KeptInv, UNCHANGED <<stack, root, complete>>
    PROVE  KeptInv'
  BY DEF KeptInv

\* The outermost message, when no field of it is open.
LEMMA AtRoot ==
    ASSUME IInv, KeptInv, stack # <<>>, Len(stack) = 1
    PROVE  /\ Top.role = "root" /\ IsMessage(Top) /\ Top.type = root
           /\ Val = stack[1].val /\ Kept(Val, root, complete)
  BY DEF IInv, WellNested, KeptInv, Top, Val, IsMessage

LEMMA KeptFailing ==
    ASSUME KeptInv, NEW e, Fail(e)
    PROVE  KeptInv'
  BY KeptSame DEF Fail

LEMMA KeptReplaced ==
    ASSUME IInv, KeptInv, stack # <<>>, NEW val,
           stack' = ReplaceTop([Top EXCEPT !.val = val]),
           UNCHANGED <<root, complete>>,
           Len(stack) = 1 => Kept(val, root, complete)
    PROVE  KeptInv'
  <1> DEFINE fr == [Top EXCEPT !.val = val]
  <1>1. FrameOK(Top)
    BY TopFacts
  <1>2. SameFrame(fr, Top) /\ fr.val = val
    BY <1>1, ValChanged DEF FrameOK, FrameFields
  <1> HIDE DEF fr
  <1> QED BY <1>2, KeptTop DEF fr

LEMMA KeptMerging ==
    ASSUME IInv, KeptInv, stack # <<>>, NEW val, NEW next, Merged(next, val),
           Len(stack) = 1 => Kept(val, root, complete)
    PROVE  KeptInv'
  BY KeptReplaced DEF Merged

LEMMA KeptFailingAfter ==
    ASSUME IInv, KeptInv, stack # <<>>, NEW val, NEW e, FailAfter(e, val),
           Len(stack) = 1 => Kept(val, root, complete)
    PROVE  KeptInv'
  BY KeptReplaced DEF FailAfter

LEMMA KeptFailingOpening ==
    ASSUME IInv, KeptInv, stack # <<>>, NEW fr, NEW e, FailOpening(e, fr),
           Len(stack) = 1 => InField(fr, root, complete)
    PROVE  KeptInv'
  <1> DEFINE x == AttachFailed(Top, fr)
  <1>1. FrameOK(Top) /\ SameFrame(x, Top)
    BY TopFacts, AttachFailedKeepsFrame
  <1>2. ASSUME Len(stack) = 1 PROVE Kept(x.val, root, complete)
    <2>1. Kept(Top.val, root, complete)
      BY <1>2, AtRoot DEF Val
    <2> QED BY <1>1, <1>2, <2>1, KeptFailed
  <1>3. stack' = ReplaceTop(x) /\ UNCHANGED <<root, complete>>
    BY DEF FailOpening
  <1> HIDE DEF x
  <1> QED BY <1>1, <1>2, <1>3, KeptTop

LEMMA KeptPopped ==
    ASSUME IInv, KeptInv, Len(stack) > 1, NEW into,
           SameFrame(into, stack[Len(stack) - 1]),
           stack' = SubSeq(stack, 1, Len(stack) - 2) \o <<into>>,
           root' = root, complete \subseteq complete',
           Len(stack) = 2 => Kept(into.val, root, complete')
    PROVE  KeptInv'
  <1> DEFINE n == Len(stack) - 2
             below == SubSeq(stack, 1, n)
  <1>1. IsSeq(stack) /\ Len(stack) \in Nat
    BY Appended DEF IInv, TypeOK
  <1>2. /\ n \in Nat /\ n + 1 <= Len(stack) /\ n + 1 = Len(stack) - 1
        /\ n \in 0 .. Len(stack) /\ (n = 0 => Len(stack) = 2)
    BY <1>1
  <1>3. SameFrame(into, stack[n + 1]) /\ stack' = below \o <<into>>
    BY <1>2
  <1>4. IsSeq(below)
    BY <1>1, <1>2, Shortened
  <1> HIDE DEF n
  <1>5. CutAt(Append(SubSeq(stack, 1, n), into), stack, n, into)
    BY <1>1, <1>2, Cut
  <1> HIDE DEF below
  <1>6. stack' = Append(below, into)
    BY <1>3, <1>4, Concatenated
  <1>7. CutAt(stack', stack, n, into)
    BY <1>5, <1>6 DEF below
  <1> QED BY <1>2, <1>3, <1>7, KeptCut

\* One lemma per action that touches a message or opens an activation.
LEMMA KeptMergeInt ==
    ASSUME IInv, KeptInv, MergeInt
    PROVE  KeptInv'
  <1> DEFINE r == ReadVarint(data, pos, Top.bound)
             x == r.v % IntMod
             val == IF Field.kind = "int" THEN SetField(Val, tag.num, x)
                    ELSE [Val EXCEPT !.oneof = <<tag.num, x>>]
  <1>1. /\ phase = "running" /\ Field = Schema[Top.type][tag.num]
        /\ Field.kind \in {"int", "oint"}
    BY FieldFacts DEF MergeInt
  <1>2. (\E e : Fail(e)) \/ Merged(r.next, val)
    BY DEF MergeInt, StoreInt
  <1> HIDE DEF r, x
  <1>3. ASSUME Len(stack) = 1 PROVE Kept(val, root, complete)
    <2>1. Kept(Val, root, complete) /\ Top.type = root
      BY <1>1, <1>3, RunningFacts, AtRoot
    <2>2. CASE Field.kind = "int"
      <3>1. ~ Repeats(root, tag.num)
        BY <1>1, <2>1, <2>2 DEF Repeats
      <3> QED BY <2>1, <2>2, <3>1, KeptField
    <2>3. CASE Field.kind = "oint"
      <3>1. Schema[root][tag.num].kind # "omsg"
        BY <1>1, <2>1, <2>3
      <3>2. Kept([Val EXCEPT !.oneof = <<tag.num, x>>], root, complete)
        BY <2>1, <3>1, KeptMember
      <3> QED BY <2>3, <3>2
    <2> QED BY <1>1, <2>2, <2>3
  <1> HIDE DEF val
  <1> QED BY <1>1, <1>2, <1>3, RunningFacts, KeptFailing, KeptMerging

\* A field that is not a repeated message set to anything.
LEMMA KeptScalar ==
    ASSUME IInv, KeptInv, NEW kinds, Is(kinds), Len(stack) = 1,
           kinds \cap {"rmsg", "rgroup"} = {}, NEW x
    PROVE  Kept(SetField(Val, tag.num, x), root, complete)
  <1>1. /\ phase = "running" /\ Field = Schema[Top.type][tag.num]
        /\ Field.kind \in kinds
    BY FieldFacts
  <1>2. Kept(Val, root, complete) /\ Top.type = root
    BY <1>1, RunningFacts, AtRoot
  <1>3. ~ Repeats(root, tag.num)
    BY <1>1, <1>2 DEF Repeats
  <1> QED BY <1>2, <1>3, KeptField

LEMMA KeptMergeBytes ==
    ASSUME IInv, KeptInv, MergeBytes
    PROVE  KeptInv'
  <1>1. phase = "running" /\ Is({"bytes", "rbytes"})
    BY FieldFacts DEF MergeBytes
  <1>2. (\E e : Fail(e))
        \/ \E x, next : Merged(next, SetField(Val, tag.num, x))
    BY DEF MergeBytes, StoreBytes
  <1>3. CASE \E e : Fail(e)
    BY <1>3, KeptFailing
  <1>4. CASE \E x, next : Merged(next, SetField(Val, tag.num, x))
    <2>1. PICK x, next : Merged(next, SetField(Val, tag.num, x))
      BY <1>4
    <2>2. {"bytes", "rbytes"} \cap {"rmsg", "rgroup"} = {}
      OBVIOUS
    <2>3. Len(stack) = 1 => Kept(SetField(Val, tag.num, x), root, complete)
      BY <1>1, <2>2, KeptScalar
    <2> QED BY <1>1, <2>1, <2>3, RunningFacts, KeptMerging
  <1> QED BY <1>2, <1>3, <1>4

LEMMA KeptMergeRepeatedInt ==
    ASSUME IInv, KeptInv, MergeRepeatedInt
    PROVE  KeptInv'
  <1> DEFINE ints == Ints
             val == SetField(Val, tag.num, Val.fields[tag.num] \o ints.vals)
  <1>1. phase = "running" /\ Is({"rint"}) /\ stack # <<>>
    BY FieldFacts, RunningFacts DEF MergeRepeatedInt
  <1>2. StoreInts(ints, val)
    BY DEF MergeRepeatedInt
  <1>3. {"rint"} \cap {"rmsg", "rgroup"} = {}
    OBVIOUS
  <1>4. Len(stack) = 1 => Kept(val, root, complete)
    BY <1>1, <1>3, KeptScalar
  <1> HIDE DEF val, ints
  <1> QED BY <1>1, <1>2, <1>4, KeptMerging, KeptFailingAfter DEF StoreInts

LEMMA KeptMergeEnum ==
    ASSUME IInv, KeptInv, MergeEnum
    PROVE  KeptInv'
  <1> DEFINE ints == Ints
             stored == Affordable(ints.vals)
             val == StoredEnums(stored)
  <1>1. phase = "running" /\ Is({"enum", "renum"}) /\ stack # <<>>
    BY FieldFacts, RunningFacts DEF MergeEnum
  <1>2. (\E e : Fail(e)) \/ StoreEnums(ints, stored)
    BY DEF MergeEnum
  <1>3. {"enum", "renum"} \cap {"rmsg", "rgroup"} = {}
    OBVIOUS
  <1>4. ASSUME Len(stack) = 1 PROVE Kept(val, root, complete)
    <2>1. PICK seen, kept : val = EnumsStored(seen, kept)
      BY DEF StoredEnums
    <2>2. PICK x, u : val = [SetField(Val, tag.num, x) EXCEPT !.unk = u]
      BY <2>1 DEF EnumsStored
    <2>3. Kept(SetField(Val, tag.num, x), root, complete)
      BY <1>1, <1>3, <1>4, KeptScalar
    <2> QED BY <2>2, <2>3, KeptUnknown
  <1> HIDE DEF val
  <1>5. StoreEnums(ints, stored) =>
          (\E e : FailAfter(e, val)) \/ \E next : Merged(next, val)
    <2> HIDE DEF ints, stored
    <2> QED BY DEF StoreEnums, val
  <1> HIDE DEF ints, stored
  <1> QED BY <1>1, <1>2, <1>4, <1>5, KeptFailing, KeptMerging, KeptFailingAfter

\* The activation for a field of the outermost message.
LEMMA FieldOfRoot ==
    ASSUME IInv, KeptInv, NEW kinds \in SUBSET MessageKinds, Is(kinds),
           Len(stack) = 1, NEW fr, NEW r,
           r = RoleOf(Field.kind),
           fr.role = r, fr.type = Field.of, fr.num = tag.num,
           fr.had = (r = "oneof" /\ SetMember)
    PROVE  InField(fr, root, complete)
  <1>1. /\ phase = "running" /\ Field = Schema[Top.type][tag.num]
        /\ Field.kind \in MessageKinds
    BY FieldFacts
  <1>2. Kept(Val, root, complete) /\ Top.type = root
    BY <1>1, RunningFacts, AtRoot
  <1>3. r \in {"msg", "elem", "oneof"}
    BY RoleFacts
  <1>4. r = "msg" => ~ Repeats(root, tag.num)
    BY <1>1, <1>2 DEF RoleOf, Repeats
  <1>5. ASSUME r = "oneof", fr.had PROVE MemberDone(tag.num, complete)
    <2>1. Field.kind = "omsg"
      BY <1>1, <1>5 DEF RoleOf, MessageKinds
    <2>2. Val.oneof # <<>> /\ Val.oneof[1] = tag.num
      BY <1>5 DEF SetMember
    <2> QED BY <1>1, <1>2, <2>1, <2>2 DEF Kept
  <1> QED BY <1>1, <1>2, <1>3, <1>4, <1>5 DEF InField

LEMMA FieldFrameFacts ==
    ASSUME NEW role
    PROVE  LET fr == FieldFrame(role) IN
           /\ DOMAIN fr = FrameFields
           /\ fr.role = role /\ fr.type = Field.of /\ fr.num = tag.num
           /\ fr.had = (role = "oneof" /\ SetMember)
  BY DEF FieldFrame, Nested, FrameFields

LEMMA KeptOpenSpan ==
    ASSUME IInv, KeptInv, stack # <<>>, NEW fr, DOMAIN fr = FrameFields,
           NEW s, OpenSpan(fr, s),
           Len(stack) = 1 => InField(fr, root, complete)
    PROVE  KeptInv'
  <1> DEFINE end == s.next + s.v - 1
             in == [fr EXCEPT !.end = end, !.bound = Bound(fr.type, end)]
  <1>1. \/ \E e : FailOpening(e, fr)
        \/ stack' = Append(stack, in) /\ UNCHANGED <<root, complete>>
    BY DEF OpenSpan, Open
  <1>2. /\ in.role = fr.role /\ in.type = fr.type /\ in.num = fr.num
        /\ in.had = fr.had
    BY DEF FrameFields
  <1> HIDE DEF in
  <1>3. Len(stack) = 1 => InField(in, root, complete)
    BY <1>2 DEF InField
  <1> QED BY <1>1, <1>3, KeptFailingOpening, KeptOpened

LEMMA KeptOpenMessage ==
    ASSUME IInv, KeptInv, OpenMessage
    PROVE  KeptInv'
  <1> DEFINE r == RoleOf(Field.kind)
             fr == FieldFrame(r)
             s == ReadSpan(data, pos, Top.bound, MaxMessage)
  <1>1. Is({"msg", "rmsg", "omsg"}) /\ stack # <<>>
    BY FieldFacts, RunningFacts DEF OpenMessage
  <1>2. (\E e : Fail(e)) \/ OpenSpan(fr, s)
    BY DEF OpenMessage
  <1>3. /\ DOMAIN fr = FrameFields
        /\ fr.role = r /\ fr.type = Field.of /\ fr.num = tag.num
        /\ fr.had = (r = "oneof" /\ SetMember)
    BY FieldFrameFacts
  <1>4. {"msg", "rmsg", "omsg"} \in SUBSET MessageKinds
    BY DEF MessageKinds
  <1> HIDE DEF fr, s
  <1>5. Len(stack) = 1 => InField(fr, root, complete)
    BY <1>1, <1>3, <1>4, FieldOfRoot
  <1> HIDE DEF r
  <1> QED BY <1>1, <1>2, <1>3, <1>5, KeptFailing, KeptOpenSpan

LEMMA KeptOpenGroup ==
    ASSUME IInv, KeptInv, OpenGroup
    PROVE  KeptInv'
  <1> DEFINE r == RoleOf(Field.kind)
             fr == FieldFrame(r)
             in == [fr EXCEPT !.group = TRUE]
  <1>1. Is({"group", "rgroup"}) /\ stack # <<>>
    BY FieldFacts, RunningFacts DEF OpenGroup
  <1>2. (\E e : Fail(e)) \/ OpenGroupFrame(fr)
    BY DEF OpenGroup
  <1>3. /\ DOMAIN fr = FrameFields
        /\ fr.role = r /\ fr.type = Field.of /\ fr.num = tag.num
        /\ fr.had = (r = "oneof" /\ SetMember)
    BY FieldFrameFacts
  <1>4. {"group", "rgroup"} \in SUBSET MessageKinds
    BY DEF MessageKinds
  <1> HIDE DEF fr
  <1>5. Len(stack) = 1 => InField(fr, root, complete)
    BY <1>1, <1>3, <1>4, FieldOfRoot
  <1>6. /\ in.role = fr.role /\ in.type = fr.type /\ in.num = fr.num
        /\ in.had = fr.had
    BY <1>3 DEF FrameFields
  <1>7. \/ \E e : Fail(e) \/ FailOpening(e, fr)
        \/ stack' = Append(stack, in) /\ UNCHANGED <<root, complete>>
    BY <1>2 DEF OpenGroupFrame, Open
  <1> HIDE DEF r, in
  <1>8. Len(stack) = 1 => InField(in, root, complete)
    BY <1>5, <1>6 DEF InField
  <1> QED BY <1>1, <1>5, <1>7, <1>8, KeptFailing, KeptFailingOpening, KeptOpened

LEMMA KeptOpenEntry ==
    ASSUME IInv, KeptInv, OpenEntry
    PROVE  KeptInv'
  <1>1. /\ phase = "running" /\ Field = Schema[Top.type][tag.num]
        /\ Field.kind \in MapKinds /\ stack # <<>>
    BY FieldFacts, RunningFacts DEF OpenEntry
  <1>2. (\E e : Fail(e))
        \/ \E from, end : /\ stack' = Append(stack, EntryFrame(from, end))
                          /\ UNCHANGED <<root, complete>>
    BY DEF OpenEntry, OpenEntrySpan, Open
  <1>3. CASE \E e : Fail(e)
    BY <1>3, KeptFailing
  <1>4. CASE \E from, end : /\ stack' = Append(stack, EntryFrame(from, end))
                            /\ UNCHANGED <<root, complete>>
    <2>1. PICK from, end : /\ stack' = Append(stack, EntryFrame(from, end))
                           /\ UNCHANGED <<root, complete>>
      BY <1>4
    <2> DEFINE fr == EntryFrame(from, end)
    <2>2. fr.role = "entry" /\ fr.num = tag.num
      BY DEF EntryFrame
    <2> HIDE DEF fr
    <2>3. Len(stack) = 1 => InField(fr, root, complete)
      BY <1>1, <2>2, AtRoot DEF InField, Repeats, MapKinds
    <2> QED BY <1>1, <2>1, <2>3, KeptOpened DEF fr
  <1> QED BY <1>2, <1>3, <1>4

\* In an entry the outermost message stays as it is.
LEMMA EntryNotRoot ==
    ASSUME IInv, KeptInv, NEW n, InEntry(n)
    PROVE  phase = "running" /\ stack # <<>> /\ Len(stack) # 1
  <1>1. phase = "running" /\ Top.role = "entry"
    BY DEF InEntry, Reading, AtTag
  <1> QED BY <1>1, RunningFacts, AtRoot

LEMMA KeptEntryInt ==
    ASSUME IInv, KeptInv, EntryInt
    PROVE  KeptInv'
  <1>1. stack # <<>> /\ Len(stack) # 1
    BY EntryNotRoot DEF EntryInt
  <1>2. (\E e : Fail(e)) \/ \E val, next : Merged(next, val)
    BY DEF EntryInt, StoreEntryInt
  <1> QED BY <1>1, <1>2, KeptFailing, KeptMerging

LEMMA KeptEntryMessage ==
    ASSUME IInv, KeptInv, EntryMessage
    PROVE  KeptInv'
  <1> DEFINE fr == Nested("value", MapField.of, 2, Val.value, FALSE)
             s == ReadSpan(data, pos, Top.bound, MaxMessage)
  <1>1. stack # <<>> /\ Len(stack) # 1
    BY EntryNotRoot DEF EntryMessage
  <1>2. (\E e : Fail(e)) \/ OpenSpan(fr, s)
    BY DEF EntryMessage
  <1>3. DOMAIN fr = FrameFields
    BY DEF Nested, FrameFields
  <1> HIDE DEF fr, s
  <1> QED BY <1>1, <1>2, <1>3, KeptFailing, KeptOpenSpan

\* Unknown fields.
LEMMA KeptKeepFlat ==
    ASSUME IInv, KeptInv, KeepFlat
    PROVE  KeptInv'
  <1> DEFINE r == ReadFlat(data, pos, Top.bound, tag.wt)
             u == Append(Val.unk, UnknownFlat(r))
             val == IF IsMessage(Top) THEN [Val EXCEPT !.unk = u]
                    ELSE Append(Val, UnknownFlat(r))
  <1>1. phase = "running" /\ stack # <<>>
    BY RunningFacts DEF KeepFlat, Keeping, Reading, AtTag
  <1>2. (\E e : Fail(e)) \/ Merged(r.next, val)
    BY DEF KeepFlat, StoreUnknown
  <1> HIDE DEF r, u
  <1>3. Len(stack) = 1 => Kept(val, root, complete)
    BY <1>1, AtRoot, KeptUnknown
  <1> HIDE DEF val
  <1> QED BY <1>1, <1>2, <1>3, KeptFailing, KeptMerging

LEMMA KeptSkipFlat ==
    ASSUME IInv, KeptInv, SkipFlat
    PROVE  KeptInv'
  <1>1. phase = "running" /\ stack # <<>>
    BY RunningFacts DEF SkipFlat, Skipping, Reading, AtTag
  <1>2. (\E e : Fail(e)) \/ \E next : Merged(next, Val)
    BY DEF SkipFlat, SkipTo
  <1> QED BY <1>1, <1>2, AtRoot, KeptFailing, KeptMerging

LEMMA KeptUnknownGroup ==
    ASSUME IInv, KeptInv, phase = "running", NEW r \in {"unk", "skip"},
           NEW next, NEW cost, Open(GroupFrame(r), next, cost, 0)
    PROVE  KeptInv'
  <1> DEFINE fr == GroupFrame(r)
  <1>1. fr.role = r
    BY DEF GroupFrame
  <1>2. stack' = Append(stack, fr) /\ UNCHANGED <<root, complete>>
    BY DEF Open
  <1> HIDE DEF fr
  <1>3. InField(fr, root, complete)
    BY <1>1 DEF InField
  <1> QED BY <1>2, <1>3, RunningFacts, KeptOpened

LEMMA KeptGroups ==
    ASSUME IInv, KeptInv, KeepGroup \/ SkipGroup
    PROVE  KeptInv'
  <1>1. phase = "running"
    BY DEF KeepGroup, SkipGroup, Keeping, Skipping, Reading, AtTag
  <1>2. \/ \E e : Fail(e)
        \/ \E r \in {"unk", "skip"} : \E cost : Open(GroupFrame(r), pos, cost, 0)
    BY DEF KeepGroup, SkipGroup
  <1> QED BY <1>1, <1>2, KeptFailing, KeptUnknownGroup

\* The ends of an activation.
LEMMA KeptResuming ==
    ASSUME IInv, KeptInv, Len(stack) > 1, NEW into, NEW unknown,
           SameFrame(into, stack[Len(stack) - 1]), Resume(into, pos, unknown),
           Len(stack) = 2 => Kept(into.val, root, complete')
    PROVE  KeptInv'
  BY KeptPopped DEF Resume

\* The outermost message and the one field of it that is open.
LEMMA BelowRoot ==
    ASSUME IInv, KeptInv, Len(stack) = 2
    PROVE  LET below == stack[Len(stack) - 1] IN
           /\ FrameOK(below) /\ IsMessage(below)
           /\ Kept(below.val, root, complete) /\ InField(Top, root, complete)
  <1>1. FrameOK(stack[Len(stack) - 1])
    BY BelowFacts
  <1>2. stack # <<>>
    BY DEF IInv, TypeOK
  <1>3. stack[1].role = "root"
    BY <1>2 DEF IInv, WellNested
  <1> QED BY <1>1, <1>2, <1>3 DEF KeptInv, Top, IsMessage

LEMMA KeptClosed ==
    ASSUME IInv, KeptInv, phase = "running", Top.role # "root" \/ Top.group,
           Resume(Attach(stack[Len(stack) - 1], Top), pos, 0)
    PROVE  KeptInv'
  <1> DEFINE below == stack[Len(stack) - 1]
             into == Attach(below, Top)
  <1>1. Len(stack) > 1
    BY RunningFacts, NotOutermost
  <1>2. SameFrame(into, below)
    BY <1>1, BelowFacts, AttachKeepsFrame
  <1>3. complete' = IF Top.role \in {"elem", "oneof"}
                      THEN complete \cup {<<Top.type, Top.num, Top.val>>}
                      ELSE complete
    BY DEF Resume
  <1>4. ASSUME Len(stack) = 2 PROVE Kept(into.val, root, complete')
    <2>1. /\ FrameOK(below) /\ IsMessage(below)
          /\ Kept(below.val, root, complete) /\ InField(Top, root, complete)
      BY <1>4, BelowRoot
    <2> HIDE DEF below
    <2>2. Kept(Attach(below, Top).val, root,
               IF Top.role \in {"elem", "oneof"}
                 THEN complete \cup {<<Top.type, Top.num, Top.val>>}
                 ELSE complete)
      BY <2>1, KeptAttached
    <2> QED BY <1>3, <2>2
  <1> QED BY <1>1, <1>2, <1>4, KeptResuming

LEMMA KeptCloseGroup ==
    ASSUME IInv, KeptInv, CloseGroup
    PROVE  KeptInv'
  <1>1. phase = "running" /\ Top.group
    BY DEF CloseGroup, AtTag, AtEndTag
  <1>2. \/ \E e : Fail(e)
        \/ Resume(Attach(stack[Len(stack) - 1], Top), pos, 0)
    BY DEF CloseGroup
  <1> QED BY <1>1, <1>2, KeptFailing, KeptClosed

LEMMA KeptCloseMessage ==
    ASSUME IInv, KeptInv, CloseMessage
    PROVE  KeptInv'
  <1>1. phase = "running" /\ Top.role # "root"
    BY DEF CloseMessage, Ended
  <1>2. \/ \E e : Fail(e)
        \/ Resume(Attach(stack[Len(stack) - 1], Top), pos, 0)
    BY DEF CloseMessage
  <1> QED BY <1>1, <1>2, KeptFailing, KeptClosed

LEMMA KeptCloseEntry ==
    ASSUME IInv, KeptInv, CloseEntry
    PROVE  KeptInv'
  <1> DEFINE below == stack[Len(stack) - 1]
  <1>1. phase = "running" /\ Top.role = "entry" /\ Len(stack) > 1
    BY RunningFacts, NotOutermost DEF CloseEntry, Ended
  <1>2. FrameOK(below)
    BY <1>1, BelowFacts
  <1>3. "val" \in DOMAIN below /\ SameFrame(below, below)
    BY <1>2, Unchanged DEF FrameOK, FrameFields
  <1>4. \/ \E e : Fail(e)
        \/ Resume(below, pos, 0)
        \/ \E x : Resume([below EXCEPT !.val = SetField(below.val, Top.num, x)],
                         pos, 0)
        \/ \E u : Resume([below EXCEPT !.val = [below.val EXCEPT !.unk = u]],
                         pos, 1)
    <2> DEFINE u == Unknown(Top.num, LenWire, 0,
                            Slice(data, Val.start, Top.end), <<>>)
               x == Insert(below.val.fields[Top.num], Val.key, Val.value)
    <2>1. [below EXCEPT !.val.unk = Append(@, u)]
            = [below EXCEPT !.val = [below.val EXCEPT
                                        !.unk = Append(below.val.unk, u)]]
      BY <1>3
    <2>2. [below EXCEPT !.val = SetField(@, Top.num, x)]
            = [below EXCEPT !.val = SetField(below.val, Top.num, x)]
      BY <1>3
    <2> HIDE DEF u, x
    <2> QED BY <2>1, <2>2 DEF CloseEntry, u, x
  <1>5. ASSUME NEW v, NEW cost, Resume([below EXCEPT !.val = v], pos, cost),
               Len(stack) = 2 => Kept(v, root, complete)
        PROVE  KeptInv'
    <2>1. SameFrame([below EXCEPT !.val = v], below)
          /\ [below EXCEPT !.val = v].val = v
      BY <1>2, <1>3, ValChanged
    <2>2. complete' = complete
      BY <1>1, <1>5 DEF Resume
    <2> QED BY <1>1, <1>5, <2>1, <2>2, KeptResuming
  <1>6. CASE Resume(below, pos, 0)
    <2>1. complete' = complete
      BY <1>1, <1>6 DEF Resume
    <2>2. Len(stack) = 2 => Kept(below.val, root, complete')
      BY <2>1, BelowRoot
    <2> QED BY <1>1, <1>3, <1>6, <2>2, KeptResuming
  <1>7. ASSUME NEW x,
               Resume([below EXCEPT !.val = SetField(below.val, Top.num, x)],
                      pos, 0)
        PROVE  KeptInv'
    <2>1. ASSUME Len(stack) = 2
          PROVE  Kept(SetField(below.val, Top.num, x), root, complete)
      <3>1. Kept(below.val, root, complete) /\ InField(Top, root, complete)
        BY <2>1, BelowRoot
      <3>2. ~ Repeats(root, Top.num)
        BY <1>1, <3>1 DEF InField
      <3> HIDE DEF below
      <3> QED BY <3>1, <3>2, KeptField
    <2> QED BY <1>5, <1>7, <2>1
  <1>8. ASSUME NEW u,
               Resume([below EXCEPT !.val = [below.val EXCEPT !.unk = u]], pos, 1)
        PROVE  KeptInv'
    <2>1. Len(stack) = 2 => Kept([below.val EXCEPT !.unk = u], root, complete)
      BY BelowRoot, KeptUnknown
    <2> QED BY <1>5, <1>8, <2>1
  <1> HIDE DEF below
  <1> QED BY <1>4, <1>6, <1>7, <1>8, KeptFailing

LEMMA KeptUnwind ==
    ASSUME IInv, KeptInv, Unwind
    PROVE  KeptInv'
  <1> DEFINE below == stack[Len(stack) - 1]
             into == AttachFailed(below, Top)
  <1>1. /\ Len(stack) > 1 /\ UNCHANGED <<root, complete>>
        /\ stack' = SubSeq(stack, 1, Len(stack) - 2) \o <<into>>
    BY DEF Unwind
  <1>2. SameFrame(into, below)
    BY <1>1, BelowFacts, AttachFailedKeepsFrame
  <1>3. Len(stack) = 2 => Kept(into.val, root, complete)
    BY BelowRoot, KeptFailed
  <1> HIDE DEF into
  <1> QED BY <1>1, <1>2, <1>3, KeptPopped

\* A message alone on the stack.
LEMMA KeptAlone ==
    ASSUME NEW end, NEW bound, NEW val, stack' = <<RootFrame(end, bound, val)>>,
           root' = root, Kept(val, root, complete')
    PROVE  KeptInv'
  BY DEF KeptInv, RootFrame

LEMMA KeptMergeRest ==
    ASSUME IInv, KeptInv, MergeRest
    PROVE  KeptInv'
  <1>1. phase = "running" /\ Top.role = "root"
    BY DEF MergeRest, Ended
  <1>2. stack # <<>> /\ Len(stack) = 1
    <2>1. stack # <<>> /\ Len(stack) \in Nat \ {0}
      BY <1>1, RunningFacts
    <2>2. Len(stack) > 1 => Top.role # "root"
      BY BelowFacts DEF Under
    <2>3. ~ (Len(stack) > 1)
      BY <1>1, <2>2
    <2>4. ASSUME NEW n \in Nat \ {0}, ~ (n > 1) PROVE n = 1
      BY <2>4
    <2> QED BY <2>1, <2>3, <2>4
  <1>3. \/ \E e : Fail(e)
        \/ /\ stack' = <<RootFrame(Len(data), Len(data), Val)>>
           /\ UNCHANGED <<root, complete>>
    BY DEF MergeRest
  <1>4. Kept(Val, root, complete)
    BY <1>2, AtRoot
  <1> QED BY <1>3, <1>4, KeptFailing, KeptAlone

LEMMA KeptFinish ==
    ASSUME KeptInv, Finish
    PROVE  KeptInv'
  <1>1. \/ stack' = <<>>
        \/ UNCHANGED <<stack, root, complete>>
    BY DEF Finish
  <1>2. CASE stack' = <<>>
    BY <1>2 DEF KeptInv
  <1> QED BY <1>1, <1>2, KeptSame

LEMMA KeptBegin ==
    ASSUME NEW ts, NEW k, Begin(ts, k)
    PROVE  KeptInv'
  <1>1. root' = root
        /\ \E end, bound : stack' = <<RootFrame(end, bound, EmptyMsg(root))>>
    BY DEF Begin
  <1> QED BY <1>1, KeptNew, KeptAlone

LEMMA KeptNext == IInv /\ KeptInv /\ [Next]_vars => KeptInv'
  <1> SUFFICES ASSUME IInv, KeptInv, [Next]_vars PROVE KeptInv'
    OBVIOUS
  <1>1. CASE BeginGenerated \/ BeginTables \/ BeginParts
    BY <1>1, KeptBegin DEF BeginGenerated, BeginTables, BeginParts
  <1>2. CASE DecodeTag
    <2>1. (\E e : Fail(e)) \/ UNCHANGED <<stack, root, complete>>
      BY <1>2 DEF DecodeTag, NextTag
    <2> QED BY <2>1, KeptFailing, KeptSame
  <1>3. CASE Fields
    BY <1>2, <1>3, KeptMergeInt, KeptMergeBytes, KeptMergeRepeatedInt,
       KeptMergeEnum, KeptOpenMessage, KeptOpenGroup, KeptOpenEntry,
       KeptEntryInt, KeptEntryMessage, KeptKeepFlat, KeptSkipFlat, KeptGroups
       DEF Fields
  <1>4. CASE RootOverran
    BY <1>4, KeptFailing DEF RootOverran
  <1>5. CASE Ends
    BY <1>4, <1>5, KeptCloseGroup, KeptCloseMessage, KeptCloseEntry,
       KeptMergeRest, KeptUnwind, KeptFinish DEF Ends
  <1>6. CASE UNCHANGED vars
    BY <1>6, KeptSame DEF vars
  <1> QED BY <1>1, <1>3, <1>5, <1>6 DEF Next, Returned

LEMMA KeptComplete == IInv /\ KeptInv => FailureLeavesComplete
  <1> SUFFICES ASSUME IInv, KeptInv,
                      phase = "done" \/ (phase = "unwinding" /\ Len(stack) = 1)
               PROVE  FailureLeavesComplete
    BY DEF FailureLeavesComplete
  <1>1. Kept(stack[1].val, root, complete)
    BY DEF IInv, TypeOK, KeptInv
  <1> QED BY <1>1 DEF FailureLeavesComplete, Kept, Repeats, AllDone, MemberDone

\* Whatever a decode that fails was given, no repeated field is left with an
\* element that was not decoded to its end, and no oneof with a member that
\* never was.
THEOREM FailedMergeIsWhole == Spec => []FailureLeavesComplete
  <1>1. Init => KeptInv
    BY DEF Init, KeptInv
  <1> QED BY <1>1, KeptNext, KeptComplete, Inductive, PTL DEF Spec

=============================================================================
