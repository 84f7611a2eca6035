-------------------------- MODULE EncodeSinks_proofs --------------------------
(***************************************************************************)
(* What the two kinds of sink hold: the rope and its reader, for any       *)
(* sequence of writes and reads of any lengths, and the pre-sized window   *)
(* of a contiguous sink, for any messages written by any sequence of puts. *)
(***************************************************************************)
EXTENDS Rope, ContiguousSink, Varint_proofs

(***************************************************************************)
(* Where the segments of a rope end.                                       *)
(***************************************************************************)
EndsOf(s, e) ==
    /\ e \in [0 .. Len(s) -> Nat] /\ e[0] = 0
    /\ \A k \in 1 .. Len(s) : e[k] = e[k - 1] + Len(s[k])

LEMMA EndsFacts ==
    ASSUME NEW s \in Seq(Seq(Nat))
    PROVE  EndsOf(s, Ends(s))
  <1> DEFINE n == Len(s)
             next(i, x) == x + Len(s[i])
  <1>0. n \in Nat /\ \A i \in 1 .. n : s[i] \in Seq(Nat) /\ Len(s[i]) \in Nat
    OBVIOUS
  <1> HIDE DEF n
  <1>1. \A i \in 1 .. n, x \in Nat : next(i, x) \in Nat
    BY <1>0
  <1>2. PICK step : /\ step \in Steps(Nat)
                    /\ \A i \in 1 .. n, x \in Nat : step[i][x] = next(i, x)
    <2> DEFINE f == [i \in Nat |-> [x \in Nat |->
                        IF i \in 1 .. n THEN next(i, x) ELSE 0]]
    <2> HIDE DEF next
    <2>1. f \in [Nat -> [Nat -> Nat]]
      BY <1>1
    <2>2. \A i \in 1 .. n, x \in Nat : f[i][x] = next(i, x)
      BY <1>0
    <2> QED BY <2>1, <2>2 DEF Steps
  <1>3. PICK g : /\ g \in [Nat -> Nat] /\ g[0] = 0
                 /\ \A i \in Nat : g[i + 1] = step[i + 1][g[i]]
    <2>1. PICK g : Recursive(Nat, 0, step, g)
      BY <1>2, Recursion
    <2> QED BY <2>1 DEF Recursive
  <1> DEFINE h == [i \in 0 .. n |-> g[i]]
  <1>4. ASSUME NEW i \in 0 .. n
        PROVE  h[i] = IF i = 0 THEN 0 ELSE next(i, h[i - 1])
    <2>1. CASE i = 0
      BY <1>3, <2>1
    <2>2. CASE i # 0
      <3>1. i - 1 \in Nat /\ i - 1 \in 0 .. n /\ i \in 1 .. n /\ (i - 1) + 1 = i
        BY <1>0, <2>2
      <3> HIDE DEF next
      <3>2. g[i] = step[i][g[i - 1]] /\ g[i - 1] \in Nat
        BY <1>3, <3>1
      <3>3. g[i] = next(i, g[i - 1])
        BY <1>2, <3>1, <3>2
      <3> QED BY <2>2, <3>1, <3>3
    <2> QED BY <2>1, <2>2
  <1>5. h = [i \in 0 .. n |-> IF i = 0 THEN 0 ELSE next(i, h[i - 1])]
    <2>1. h = [i \in 0 .. n |-> h[i]]
      OBVIOUS
    <2> HIDE DEF h, next
    <2> QED BY <1>4, <2>1
  <1> DEFINE end == CHOOSE e :
                      e = [i \in 0 .. n |-> IF i = 0 THEN 0 ELSE next(i, e[i - 1])]
  <1>6. end = [i \in 0 .. n |-> IF i = 0 THEN 0 ELSE next(i, end[i - 1])]
    <2> HIDE DEF h, next
    <2> QED BY <1>5
  <1>7. Ends(s) = end
    BY DEF Ends, n
  <1> HIDE DEF end
  <1>8. end[0] = 0 /\ \A i \in 1 .. n : end[i] = next(i, end[i - 1])
    <2>1. 0 \in 0 .. n /\ \A i \in 1 .. n : i \in 0 .. n /\ i # 0
      BY <1>0
    <2> HIDE DEF next
    <2> QED BY <1>6, <2>1
  <1> DEFINE S == {i \in Nat : i <= n => end[i] \in Nat}
  <1>9. Nat \subseteq S
    <2>1. 0 \in S
      BY <1>8
    <2>2. ASSUME NEW i \in Nat, i \in S PROVE i + 1 \in S
      <3> SUFFICES ASSUME i + 1 <= n PROVE end[i + 1] \in Nat
        OBVIOUS
      <3>1. i + 1 \in 1 .. n /\ (i + 1) - 1 = i /\ i <= n
        BY <1>0
      <3>2. end[i] \in Nat
        BY <2>2, <3>1
      <3> HIDE DEF next
      <3>3. end[i + 1] = next(i + 1, end[i])
        BY <1>8, <3>1
      <3> QED BY <1>1, <3>1, <3>2, <3>3
    <2> HIDE DEF S
    <2> QED BY <2>1, <2>2, Induction
  <1>10. end \in [0 .. n -> Nat]
    <2>1. \A i \in 0 .. n : end[i] \in Nat
      BY <1>0, <1>9
    <2> HIDE DEF next
    <2> QED BY <1>6, <2>1
  <1> QED BY <1>7, <1>8, <1>10 DEF EndsOf, n

\* Whatever satisfies the equations is where the segments end.
LEMMA EndsUnique ==
    ASSUME NEW s \in Seq(Seq(Nat)), NEW e, EndsOf(s, e)
    PROVE  \A k \in 0 .. Len(s) : Ends(s)[k] = e[k]
  <1> DEFINE f == Ends(s)
             S == {k \in Nat : k <= Len(s) => f[k] = e[k]}
  <1>1. EndsOf(s, f)
    BY EndsFacts
  <1> HIDE DEF f
  <1>2. 0 \in S
    BY <1>1 DEF EndsOf
  <1>3. ASSUME NEW k \in Nat, k \in S PROVE k + 1 \in S
    <2> SUFFICES ASSUME k + 1 <= Len(s) PROVE f[k + 1] = e[k + 1]
      OBVIOUS
    <2>1. k + 1 \in 1 .. Len(s) /\ (k + 1) - 1 = k /\ k <= Len(s)
      OBVIOUS
    <2>2. f[k] = e[k]
      BY <1>3, <2>1
    <2>3. f[k + 1] = f[k] + Len(s[k + 1]) /\ e[k + 1] = e[k] + Len(s[k + 1])
      BY <1>1, <2>1 DEF EndsOf
    <2> QED BY <2>2, <2>3
  <1> HIDE DEF S
  <1>4. Nat \subseteq S
    BY <1>2, <1>3, Induction
  <1>5. \A k \in 0 .. Len(s) : k \in Nat /\ k <= Len(s)
    OBVIOUS
  <1> QED BY <1>4, <1>5 DEF S, f

LEMMA EndsGrow ==
    ASSUME NEW s \in Seq(Seq(Nat)), NEW i \in 0 .. Len(s), NEW j \in i .. Len(s)
    PROVE  Ends(s)[i] <= Ends(s)[j]
  <1> DEFINE f == Ends(s)
             S == {k \in Nat : i <= k /\ k <= Len(s) => f[i] <= f[k]}
  <1>1. EndsOf(s, f)
    BY EndsFacts
  <1> HIDE DEF f
  <1>2. f \in [0 .. Len(s) -> Nat] /\ f[i] \in Nat
    BY <1>1 DEF EndsOf
  <1>3. 0 \in S
    BY <1>2
  <1>4. ASSUME NEW k \in Nat, k \in S PROVE k + 1 \in S
    <2> SUFFICES ASSUME i <= k + 1, k + 1 <= Len(s) PROVE f[i] <= f[k + 1]
      OBVIOUS
    <2>1. k + 1 \in 1 .. Len(s) /\ (k + 1) - 1 = k /\ k \in 0 .. Len(s)
      OBVIOUS
    <2>2. CASE i = k + 1
      BY <1>2, <2>2
    <2>3. CASE i <= k
      <3>1. f[k] \in Nat
        BY <1>2, <2>1
      <3>4. f[i] <= f[k]
        BY <1>4, <2>1, <2>3
      <3>2. f[k + 1] = f[k] + Len(s[k + 1])
        BY <1>1, <2>1 DEF EndsOf
      <3>3. Len(s[k + 1]) \in Nat
        BY <2>1
      <3> QED BY <1>2, <3>1, <3>2, <3>3, <3>4
    <2> QED BY <2>2, <2>3
  <1> HIDE DEF S
  <1>5. Nat \subseteq S
    BY <1>3, <1>4, Induction
  <1>6. j \in Nat /\ i <= j /\ j <= Len(s)
    OBVIOUS
  <1> QED BY <1>5, <1>6 DEF S, f

-----------------------------------------------------------------------------

(***************************************************************************)
(* Runs of numbers, and segments that are consecutive runs.                *)
(***************************************************************************)
LEMMA RunFacts ==
    ASSUME NEW a \in Nat, NEW b \in Nat, a <= b
    PROVE  /\ Run(a, b) \in Seq(Nat) /\ Len(Run(a, b)) = b - a
           /\ \A i \in 1 .. b - a : Run(a, b)[i] = a + i
           /\ Run(a, b) = <<>> <=> a = b
  <1> DEFINE run == Run(a, b)
             n == b - a
  <1>1. n \in Nat /\ run = [i \in 1 .. n |-> a + i]
    BY DEF Run
  <1> HIDE DEF n, run
  <1>2. run \in Seq(Nat) /\ Len(run) = n
    BY <1>1
  <1>3. \A i \in 1 .. n : run[i] = a + i
    BY <1>1
  <1>4. run = <<>> <=> n = 0
    BY <1>1, <1>2
  <1>5. n = 0 <=> a = b
    BY DEF n
  <1> QED BY <1>2, <1>3, <1>4, <1>5 DEF n, run

LEMMA SameElements ==
    ASSUME NEW x \in Seq(Nat), NEW y \in Seq(Nat), Len(x) = Len(y),
           \A i \in 1 .. Len(x) : x[i] = y[i]
    PROVE  x = y
  OBVIOUS

LEMMA JoinFacts ==
    ASSUME NEW x \in Seq(Nat), NEW y \in Seq(Nat)
    PROVE  /\ x \o y \in Seq(Nat) /\ Len(x \o y) = Len(x) + Len(y)
           /\ \A i \in 1 .. Len(x) + Len(y) :
                 (x \o y)[i] = IF i <= Len(x) THEN x[i] ELSE y[i - Len(x)]
  <1>1. x \o y \in Seq(Nat) /\ Len(x \o y) = Len(x) + Len(y)
    OBVIOUS
  <1>2. ASSUME NEW i \in 1 .. Len(x) + Len(y)
        PROVE  (x \o y)[i] = IF i <= Len(x) THEN x[i] ELSE y[i - Len(x)]
    OBVIOUS
  <1> QED BY <1>1, <1>2

LEMMA RunJoin ==
    ASSUME NEW a \in Nat, NEW b \in Nat, NEW c \in Nat, a <= b, b <= c
    PROVE  Run(a, b) \o Run(b, c) = Run(a, c)
  <1> DEFINE x == Run(a, b)
             y == Run(b, c)
             z == Run(a, c)
             w == x \o y
  <1>1. x \in Seq(Nat) /\ Len(x) = b - a /\ \A i \in 1 .. Len(x) : x[i] = a + i
    BY RunFacts
  <1>2. y \in Seq(Nat) /\ Len(y) = c - b /\ \A i \in 1 .. Len(y) : y[i] = b + i
    BY RunFacts
  <1>3. z \in Seq(Nat) /\ Len(z) = c - a /\ \A i \in 1 .. Len(z) : z[i] = a + i
    <2>1. a <= c
      OBVIOUS
    <2> QED BY <2>1, RunFacts
  <1> HIDE DEF x, y, z
  <1>4. /\ w \in Seq(Nat) /\ Len(w) = Len(x) + Len(y)
        /\ \A i \in 1 .. Len(x) + Len(y) :
              w[i] = IF i <= Len(x) THEN x[i] ELSE y[i - Len(x)]
    BY <1>1, <1>2, JoinFacts
  <1> HIDE DEF w
  <1>5. Len(w) = Len(z)
    BY <1>1, <1>2, <1>3, <1>4
  <1>6. ASSUME NEW i \in 1 .. Len(w) PROVE w[i] = z[i]
    <2>1. z[i] = a + i /\ i \in Nat /\ i \in 1 .. Len(x) + Len(y)
      BY <1>3, <1>4, <1>5
    <2>2. CASE i <= Len(x)
      <3>1. i \in 1 .. Len(x)
        BY <1>1, <2>1, <2>2
      <3> QED BY <1>1, <1>4, <2>1, <2>2, <3>1
    <2>3. CASE ~ (i <= Len(x))
      <3>1. i - Len(x) \in 1 .. Len(y) /\ b + (i - Len(x)) = a + i
        BY <1>1, <1>2, <2>1, <2>3
      <3> QED BY <1>2, <1>4, <2>1, <2>3, <3>1
    <2> QED BY <1>1, <2>2, <2>3
  <1>7. w = z
    BY <1>3, <1>4, <1>5, <1>6, SameElements
  <1> QED BY <1>7 DEF x, y, z, w

\* A run without its first p numbers, and those.
LEMMA RunCut ==
    ASSUME NEW a \in Nat, NEW b \in Nat, NEW p \in Nat, a + p <= b
    PROVE  /\ SubSeq(Run(a, b), p + 1, b - a) = Run(a + p, b)
           /\ SubSeq(Run(a, b), 1, p) = Run(a, a + p)
  <1> DEFINE x == Run(a, b)
             y == Run(a + p, b)
             z == Run(a, a + p)
  <1>0. a <= b /\ a + p \in Nat /\ a <= a + p /\ (a + p) - a = p
    OBVIOUS
  <1>1. x \in Seq(Nat) /\ Len(x) = b - a /\ \A i \in 1 .. b - a : x[i] = a + i
    BY <1>0, RunFacts
  <1>4. /\ y \in Seq(Nat) /\ Len(y) = b - (a + p)
        /\ \A i \in 1 .. b - (a + p) : y[i] = a + p + i
    BY <1>0, RunFacts
  <1>5. z \in Seq(Nat) /\ Len(z) = p /\ \A i \in 1 .. p : z[i] = a + i
    BY <1>0, RunFacts
  <1> HIDE DEF x, y, z
  <1>2. SubSeq(x, p + 1, b - a) = y
    BY <1>1, <1>4
  <1>3. SubSeq(x, 1, p) = z
    BY <1>1, <1>5
  <1> QED BY <1>2, <1>3 DEF x, y, z

\* s are the numbers after a, cut into segments none of which is empty.
Consecutive(s, a) ==
    /\ s \in Seq(Seq(Nat))
    /\ \A k \in 1 .. Len(s) :
          s[k] # <<>> /\ s[k] = Run(a + Ends(s)[k - 1], a + Ends(s)[k])

\* s and then t are the numbers after a, up to b.
Pieces(s, t, a, b) ==
    /\ Consecutive(s, a)
    /\ a + SumLen(s) <= b
    /\ t = Run(a + SumLen(s), b)

LEMMA SumLenFacts ==
    ASSUME NEW s \in Seq(Seq(Nat))
    PROVE  /\ SumLen(s) \in Nat
           /\ s = <<>> => SumLen(s) = 0
           /\ \A k \in 0 .. Len(s) : Ends(s)[k] \in 0 .. SumLen(s)
  <1>1. EndsOf(s, Ends(s))
    BY EndsFacts
  <1>2. Len(s) \in 0 .. Len(s) /\ Len(s) \in Nat
    OBVIOUS
  <1>3. \A k \in 0 .. Len(s) : Ends(s)[k] <= Ends(s)[Len(s)]
    BY <1>2, EndsGrow
  <1>4. \A k \in 0 .. Len(s) : Ends(s)[k] \in Nat
    BY <1>1 DEF EndsOf
  <1>5. SumLen(s) \in Nat /\ \A k \in 0 .. Len(s) : Ends(s)[k] <= SumLen(s)
    BY <1>2, <1>3, <1>4 DEF SumLen
  <1>6. s = <<>> => SumLen(s) = 0
    BY <1>1 DEF EndsOf, SumLen
  <1> QED BY <1>4, <1>5, <1>6

\* The segments one behind the other are one run.
LEMMA FlattenRun ==
    ASSUME NEW s, NEW a \in Nat, Consecutive(s, a)
    PROVE  FlattenSeq(s) = Run(a, a + SumLen(s))
  <1> DEFINE n == Len(s)
             f == Ends(s)
  <1>1. /\ s \in Seq(Seq(Nat)) /\ n \in Nat
        /\ f \in [0 .. n -> Nat] /\ f[0] = 0
        /\ \A k \in 1 .. n : f[k] = f[k - 1] + Len(s[k])
        /\ \A k \in 1 .. n : s[k] = Run(a + f[k - 1], a + f[k])
    BY EndsFacts DEF EndsOf, Consecutive
  <1>2. SumLen(s) = f[n]
    BY DEF SumLen
  <1>3. CASE n = 0
    <2>1. s = <<>> /\ FlattenSeq(s) = s
      BY <1>1, <1>3 DEF FlattenSeq
    <2>2. Run(a, a) = <<>>
      BY RunFacts
    <2> QED BY <1>1, <1>2, <1>3, <2>1, <2>2
  <1>4. CASE n # 0
    <2> DEFINE next(i, x) == x \o s[i]
               h == [i \in 1 .. n |-> Run(a, a + f[i])]
               flat == CHOOSE g : g = [i \in 1 .. n |->
                                         IF i = 1 THEN s[i] ELSE g[i - 1] \o s[i]]
    <2> HIDE DEF f
    <2>1. \A k \in 0 .. n : f[k] \in Nat
      BY <1>1
    <2>2. ASSUME NEW k \in 1 .. n
          PROVE  /\ k - 1 \in 0 .. n /\ f[k - 1] \in Nat /\ f[k] \in Nat
                 /\ f[k - 1] <= f[k]
      <3>1. k - 1 \in 0 .. n /\ k \in 0 .. n /\ s[k] \in Seq(Nat)
        BY <1>1
      <3>2. Len(s[k]) \in Nat /\ f[k] = f[k - 1] + Len(s[k])
        BY <1>1, <3>1
      <3> QED BY <2>1, <3>1, <3>2
    <2>3. ASSUME NEW i \in 1 .. n
          PROVE  Run(a, a + f[i])
                   = IF i = 1 THEN s[i] ELSE Run(a, a + f[i - 1]) \o s[i]
      <3>1. s[i] = Run(a + f[i - 1], a + f[i])
        BY <1>1
      <3>2. CASE i = 1
        <4>1. f[i - 1] = 0
          BY <1>1, <3>2
        <4> QED BY <3>1, <3>2, <4>1
      <3>3. CASE i # 1
        <4>1. Run(a, a + f[i - 1]) \o Run(a + f[i - 1], a + f[i]) = Run(a, a + f[i])
          <5>1. /\ a + f[i - 1] \in Nat /\ a + f[i] \in Nat
                /\ a <= a + f[i - 1] /\ a + f[i - 1] <= a + f[i]
            BY <2>2
          <5> QED BY <5>1, RunJoin
        <4> QED BY <3>1, <3>3, <4>1
      <3> QED BY <3>2, <3>3
    <2>4. h = [i \in 1 .. n |-> IF i = 1 THEN s[i] ELSE h[i - 1] \o s[i]]
      <3>1. ASSUME NEW i \in 1 .. n
            PROVE  h[i] = IF i = 1 THEN s[i] ELSE h[i - 1] \o s[i]
        <4>1. CASE i = 1
          BY <2>3, <4>1
        <4>2. CASE i # 1
          <5>1. i - 1 \in 1 .. n
            BY <1>1, <4>2
          <5> QED BY <2>3, <4>2, <5>1
        <4> QED BY <4>1, <4>2
      <3>2. h = [i \in 1 .. n |-> h[i]]
        OBVIOUS
      <3> HIDE DEF h
      <3> QED BY <3>1, <3>2
    <2>5. flat = [i \in 1 .. n |-> IF i = 1 THEN s[i] ELSE flat[i - 1] \o s[i]]
      <3> HIDE DEF h
      <3> QED BY <2>4
    <2>6. FlattenSeq(s) = flat[n]
      BY <1>4 DEF FlattenSeq
    <2> HIDE DEF flat
    <2>7. /\ flat[1] = s[1]
          /\ \A i \in 1 .. n : i # 1 => flat[i] = flat[i - 1] \o s[i]
      <3>1. 1 \in 1 .. n
        BY <1>1, <1>4
      <3> QED BY <2>5, <3>1
    <2> DEFINE S == {i \in Nat : i \in 1 .. n => flat[i] = Run(a, a + f[i])}
    <2>8. Nat \subseteq S
      <3>1. 0 \in S
        OBVIOUS
      <3>2. ASSUME NEW i \in Nat, i \in S PROVE i + 1 \in S
        <4> SUFFICES ASSUME i + 1 \in 1 .. n
                     PROVE  flat[i + 1] = Run(a, a + f[i + 1])
          OBVIOUS
        <4>1. (i + 1) - 1 = i
          OBVIOUS
        <4>2. CASE i = 0
          BY <2>3, <2>7, <4>2
        <4>3. CASE i # 0
          <5>1. i \in 1 .. n /\ i + 1 # 1
            BY <1>1, <4>3
          <5>2. flat[i] = Run(a, a + f[i])
            BY <3>2, <5>1
          <5>3. flat[i + 1] = flat[i] \o s[i + 1]
            BY <2>7, <4>1, <5>1
          <5>4. Run(a, a + f[i + 1]) = Run(a, a + f[i]) \o s[i + 1]
            BY <2>3, <4>1, <5>1
          <5> QED BY <5>2, <5>3, <5>4
        <4> QED BY <4>2, <4>3
      <3> HIDE DEF S
      <3> QED BY <3>1, <3>2, Induction
    <2>9. n \in 1 .. n
      BY <1>1, <1>4
    <2> HIDE DEF n
    <2>10. flat[n] = Run(a, a + f[n])
      BY <2>8, <2>9
    <2> QED BY <1>2, <2>6, <2>10 DEF n, f
  <1> QED BY <1>3, <1>4

LEMMA PiecesContent ==
    ASSUME NEW s, NEW t, NEW a \in Nat, NEW b \in Nat, Pieces(s, t, a, b)
    PROVE  FlattenSeq(s) \o t = Run(a, b)
  <1>1. FlattenSeq(s) = Run(a, a + SumLen(s))
    BY FlattenRun DEF Pieces
  <1>2. SumLen(s) \in Nat /\ a + SumLen(s) <= b /\ t = Run(a + SumLen(s), b)
    BY SumLenFacts DEF Pieces, Consecutive
  <1>4. SumLen(s) \in Nat
    BY <1>2
  <1>3. a + SumLen(s) \in Nat /\ a <= a + SumLen(s)
    BY <1>4
  <1>5. Run(a, a + SumLen(s)) \o Run(a + SumLen(s), b) = Run(a, b)
    BY <1>2, <1>3, RunJoin
  <1> QED BY <1>1, <1>2, <1>5

(***************************************************************************)
(* What writing and reading do to the segments.                            *)
(***************************************************************************)
\* One segment more.
LEMMA EndsAppend ==
    ASSUME NEW s \in Seq(Seq(Nat)), NEW t \in Seq(Nat)
    PROVE  /\ Append(s, t) \in Seq(Seq(Nat))
           /\ \A k \in 0 .. Len(s) : Ends(Append(s, t))[k] = Ends(s)[k]
           /\ SumLen(Append(s, t)) = SumLen(s) + Len(t)
  <1> DEFINE n == Len(s)
             more == Append(s, t)
             f == Ends(s)
             e == [k \in 0 .. n + 1 |-> IF k = n + 1 THEN f[n] + Len(t) ELSE f[k]]
  <1>1. /\ n \in Nat /\ more \in Seq(Seq(Nat)) /\ Len(more) = n + 1
        /\ more[n + 1] = t /\ \A k \in 1 .. n : more[k] = s[k]
    OBVIOUS
  <1>2. /\ f \in [0 .. n -> Nat] /\ f[0] = 0
        /\ \A k \in 1 .. n : f[k] = f[k - 1] + Len(s[k])
    BY EndsFacts DEF EndsOf
  <1> HIDE DEF n, more, f
  <1>3. e \in [0 .. n + 1 -> Nat] /\ e[0] = 0
    <2>1. f[n] + Len(t) \in Nat
      BY <1>1, <1>2
    <2> QED BY <1>1, <1>2, <2>1
  <1>4. ASSUME NEW k \in 1 .. n + 1 PROVE e[k] = e[k - 1] + Len(more[k])
    <2>1. CASE k = n + 1
      <3>1. k - 1 = n /\ n \in 0 .. n + 1 /\ n # n + 1
        BY <1>1, <2>1
      <3> QED BY <1>1, <2>1, <3>1
    <2>2. CASE k # n + 1
      <3>1. /\ k \in 1 .. n /\ k \in 0 .. n + 1 /\ k - 1 \in 0 .. n + 1
            /\ k - 1 # n + 1
        BY <1>1, <2>2
      <3> QED BY <1>1, <1>2, <2>2, <3>1
    <2> QED BY <2>1, <2>2
  <1>5. \A k \in 0 .. n + 1 : Ends(more)[k] = e[k]
    <2> HIDE DEF e
    <2>1. EndsOf(more, e)
      BY <1>1, <1>3, <1>4 DEF EndsOf
    <2> QED BY <1>1, <2>1, EndsUnique
  <1>6. \A k \in 0 .. n : Ends(more)[k] = f[k]
    BY <1>1, <1>5
  <1>7. Ends(more)[n + 1] = f[n] + Len(t)
    BY <1>1, <1>5
  <1> QED BY <1>1, <1>6, <1>7 DEF SumLen, n, more, f

\* A segment that goes on where the others end.
LEMMA PiecesAppend ==
    ASSUME NEW s, NEW a \in Nat, NEW b \in Nat, Consecutive(s, a),
           a + SumLen(s) < b
    PROVE  Pieces(Append(s, Run(a + SumLen(s), b)), <<>>, a, b)
  <1> DEFINE m == a + SumLen(s)
             t == Run(m, b)
             more == Append(s, t)
  <1>1. s \in Seq(Seq(Nat)) /\ SumLen(s) \in Nat /\ m \in Nat
    BY SumLenFacts DEF Consecutive
  <1>2. t \in Seq(Nat) /\ Len(t) = b - m /\ t # <<>>
    <2>1. m <= b /\ m # b
      BY <1>1
    <2> QED BY <1>1, <2>1, RunFacts
  <1> HIDE DEF t
  <1>3. /\ more \in Seq(Seq(Nat))
        /\ \A k \in 0 .. Len(s) : Ends(more)[k] = Ends(s)[k]
        /\ SumLen(more) = SumLen(s) + Len(t)
    BY <1>1, <1>2, EndsAppend
  <1>4. a + SumLen(more) = b
    BY <1>1, <1>2, <1>3
  <1>5. /\ Len(more) = Len(s) + 1 /\ Len(s) \in Nat
        /\ more[Len(s) + 1] = t /\ \A k \in 1 .. Len(s) : more[k] = s[k]
    BY <1>1, <1>2
  <1> HIDE DEF more
  <1>6. ASSUME NEW k \in 1 .. Len(more)
        PROVE  /\ more[k] # <<>>
               /\ more[k] = Run(a + Ends(more)[k - 1], a + Ends(more)[k])
    <2>1. CASE k = Len(s) + 1
      <3>1. k - 1 = Len(s) /\ k = Len(more) /\ Len(s) \in 0 .. Len(s)
        BY <1>5, <2>1
      <3>2. Ends(more)[k - 1] = SumLen(s) /\ Ends(more)[k] = SumLen(more)
        BY <1>3, <3>1 DEF SumLen
      <3> QED BY <1>2, <1>4, <1>5, <2>1, <3>2 DEF t
    <2>2. CASE k # Len(s) + 1
      <3>1. k \in 1 .. Len(s) /\ k \in 0 .. Len(s) /\ k - 1 \in 0 .. Len(s)
        BY <1>5, <2>2
      <3>2. s[k] # <<>> /\ s[k] = Run(a + Ends(s)[k - 1], a + Ends(s)[k])
        BY <3>1 DEF Consecutive
      <3> QED BY <1>3, <1>5, <3>1, <3>2
    <2> QED BY <2>1, <2>2
  <1>7. Consecutive(more, a)
    BY <1>3, <1>6 DEF Consecutive
  <1>8. Run(b, b) = <<>>
    BY RunFacts
  <1>9. Pieces(more, <<>>, a, b)
    BY <1>4, <1>7, <1>8 DEF Pieces
  <1> QED BY <1>9 DEF more, t

\* The tail becomes a segment, unless it is empty.
LEMMA PiecesFlush ==
    ASSUME NEW s, NEW t, NEW a \in Nat, NEW b \in Nat, Pieces(s, t, a, b)
    PROVE  Pieces(IF t = <<>> THEN s ELSE Append(s, t), <<>>, a, b)
  <1>1. /\ SumLen(s) \in Nat /\ a + SumLen(s) \in Nat /\ a + SumLen(s) <= b
        /\ t = Run(a + SumLen(s), b) /\ Consecutive(s, a)
    BY SumLenFacts DEF Pieces, Consecutive
  <1>2. t = <<>> <=> a + SumLen(s) = b
    BY <1>1, RunFacts
  <1>3. CASE t = <<>>
    BY <1>3 DEF Pieces
  <1>4. CASE t # <<>>
    <2>1. a + SumLen(s) < b
      BY <1>1, <1>2, <1>4
    <2> QED BY <1>1, <1>4, <2>1, PiecesAppend
  <1> QED BY <1>3, <1>4

\* Where the tail is empty the segments end at b.
LEMMA PiecesFlushed ==
    ASSUME NEW s, NEW a \in Nat, NEW b \in Nat, Pieces(s, <<>>, a, b)
    PROVE  Consecutive(s, a) /\ a + SumLen(s) = b
  <1>1. /\ SumLen(s) \in Nat /\ a + SumLen(s) \in Nat /\ a + SumLen(s) <= b
        /\ <<>> = Run(a + SumLen(s), b) /\ Consecutive(s, a)
    BY SumLenFacts DEF Pieces, Consecutive
  <1> QED BY <1>1, RunFacts

LEMMA PiecesCollect ==
    ASSUME NEW s, NEW t, NEW a \in Nat, NEW b \in Nat, NEW n \in Nat,
           Pieces(s, t, a, b)
    PROVE  Pieces(s, t \o Run(b, b + n), a, b + n)
  <1>1. /\ SumLen(s) \in Nat /\ a + SumLen(s) \in Nat /\ a + SumLen(s) <= b
        /\ t = Run(a + SumLen(s), b) /\ Consecutive(s, a)
    BY SumLenFacts DEF Pieces, Consecutive
  <1>2. b + n \in Nat /\ b <= b + n /\ a + SumLen(s) <= b + n
    BY <1>1
  <1>3. t \o Run(b, b + n) = Run(a + SumLen(s), b + n)
    BY <1>1, <1>2, RunJoin
  <1> QED BY <1>1, <1>2, <1>3 DEF Pieces

\* s without its first k segments and the first part bytes of the next.
Rest(s, k, part, t) ==
    /\ t \in Seq(Seq(Nat)) /\ Len(t) = Len(s) - k
    /\ k < Len(s) => /\ part < Len(s[k + 1])
                     /\ t[1] = SubSeq(s[k + 1], part + 1, Len(s[k + 1]))
    /\ k = Len(s) => part = 0
    /\ \A i \in 2 .. Len(s) - k : t[i] = s[k + i]

LEMMA RestEnds ==
    ASSUME NEW s \in Seq(Seq(Nat)), NEW k \in 0 .. Len(s), NEW part \in Nat,
           NEW t, Rest(s, k, part, t)
    PROVE  /\ \A i \in 1 .. Len(t) :
                 Ends(t)[i] = Ends(s)[k + i] - (Ends(s)[k] + part)
           /\ Ends(t)[0] = 0
           /\ SumLen(t) = SumLen(s) - (Ends(s)[k] + part)
  <1> DEFINE n == Len(s) - k
             f == Ends(s)
             gone == f[k] + part
             e == [i \in 0 .. n |-> IF i = 0 THEN 0 ELSE f[k + i] - gone]
  <1>0. /\ n \in Nat /\ Len(t) = n /\ t \in Seq(Seq(Nat)) /\ k \in Nat
        /\ Len(s) = k + n
        /\ k = Len(s) => part = 0
        /\ \A i \in 2 .. n : t[i] = s[k + i]
    BY DEF Rest
  <1>12. k \in Nat /\ n \in Nat /\ Len(s) = k + n
    BY <1>0
  <1> HIDE DEF n
  <1>1. /\ f \in [0 .. Len(s) -> Nat] /\ f[0] = 0
        /\ \A j \in 1 .. Len(s) : f[j] = f[j - 1] + Len(s[j])
    BY EndsFacts DEF EndsOf
  <1>2. \A i \in 0 .. n : k + i \in 0 .. Len(s)
    BY <1>12
  <1>3. f[k] \in Nat /\ gone \in Nat
    <2> HIDE DEF f
    <2>1. f[k] \in Nat
      BY <1>1
    <2> QED BY <2>1
  <1>4. n # 0 => /\ part < Len(s[k + 1]) /\ f[k + 1] = f[k] + Len(s[k + 1])
                 /\ Len(s[k + 1]) \in Nat
                 /\ Len(t[1]) = Len(s[k + 1]) - part
    <2> SUFFICES ASSUME n # 0
                 PROVE  /\ part < Len(s[k + 1]) /\ f[k + 1] = f[k] + Len(s[k + 1])
                        /\ Len(s[k + 1]) \in Nat
                        /\ Len(t[1]) = Len(s[k + 1]) - part
      OBVIOUS
    <2>1. k < Len(s) /\ k + 1 \in 1 .. Len(s) /\ (k + 1) - 1 = k
      BY <1>12
    <2>2. s[k + 1] \in Seq(Nat) /\ part < Len(s[k + 1])
          /\ t[1] = SubSeq(s[k + 1], part + 1, Len(s[k + 1]))
      BY <2>1 DEF Rest
    <2>3. f[k + 1] = f[k] + Len(s[k + 1])
      BY <1>1, <2>1
    <2> QED BY <2>2, <2>3
  <1>5. ASSUME NEW i \in 1 .. n PROVE f[k + i] \in Nat /\ gone <= f[k + i]
    <2>1. /\ k + 1 \in 0 .. Len(s) /\ k + i \in (k + 1) .. Len(s)
          /\ k + i \in 0 .. Len(s) /\ n # 0
      BY <1>12
    <2>2. f[k + i] \in Nat /\ f[k + 1] \in Nat
      BY <1>1, <2>1
    <2>3. f[k + 1] <= f[k + i]
      BY <2>1, EndsGrow
    <2>4. gone <= f[k + 1]
      BY <1>3, <1>4, <2>1
    <2> QED BY <1>3, <2>2, <2>3, <2>4
  <1>6. e \in [0 .. n -> Nat] /\ e[0] = 0
    <2> HIDE DEF gone, f
    <2>1. ASSUME NEW i \in 1 .. n PROVE f[k + i] - gone \in Nat
      BY <1>3, <1>5
    <2>2. ASSUME NEW i \in 0 .. n
          PROVE  (IF i = 0 THEN 0 ELSE f[k + i] - gone) \in Nat
      <3>1. CASE i = 0
        BY <3>1
      <3>2. CASE i # 0
        <4>1. i \in 1 .. n
          BY <1>12, <3>2
        <4> QED BY <2>1, <3>2, <4>1
      <3> QED BY <3>1, <3>2
    <2>3. 0 \in 0 .. n
      BY <1>12
    <2> QED BY <2>2, <2>3
  <1>7. ASSUME NEW i \in 1 .. n PROVE e[i] = e[i - 1] + Len(t[i])
    <2>1. CASE i = 1
      <3>1. e[i] = f[k + 1] - gone /\ e[i - 1] = 0
        BY <1>0, <2>1
      <3>2. n # 0
        BY <1>12
      <3>3. f[k + 1] - gone = Len(t[1])
        <4>1. f[k] \in Nat /\ f[k + 1] = f[k] + Len(s[k + 1])
              /\ Len(s[k + 1]) \in Nat /\ Len(t[1]) = Len(s[k + 1]) - part
              /\ gone = f[k] + part
          BY <1>3, <1>4, <3>2
        <4> HIDE DEF f, gone
        <4> QED BY <4>1
      <3>4. Len(t[1]) \in Nat
        BY <1>0, <1>12
      <3> HIDE DEF e, f, gone
      <3> QED BY <2>1, <3>1, <3>3, <3>4
    <2>2. CASE i # 1
      <3>1. /\ i - 1 \in 1 .. n /\ k + i \in 1 .. Len(s) /\ i \in 2 .. n
            /\ (k + i) - 1 = k + (i - 1)
        BY <1>0, <2>2
      <3>2. t[i] = s[k + i]
        BY <1>0, <3>1
      <3>3. f[k + i] = f[k + (i - 1)] + Len(s[k + i])
        BY <1>1, <3>1
      <3>4. e[i] = f[k + i] - gone /\ e[i - 1] = f[k + (i - 1)] - gone
        BY <1>0, <3>1
      <3>5. s[k + i] \in Seq(Nat) /\ Len(s[k + i]) \in Nat
        BY <3>1
      <3> HIDE DEF e, f, gone
      <3> QED BY <1>3, <1>5, <3>1, <3>2, <3>3, <3>4, <3>5
    <2> QED BY <2>1, <2>2
  <1>8. \A i \in 0 .. n : Ends(t)[i] = e[i]
    <2> HIDE DEF e, n
    <2>1. EndsOf(t, e)
      BY <1>0, <1>6, <1>7 DEF EndsOf
    <2> QED BY <1>0, <2>1, EndsUnique
  <1>9. Ends(t)[0] = 0 /\ \A i \in 1 .. n : Ends(t)[i] = f[k + i] - gone
    BY <1>0, <1>8
  <1>10. SumLen(t) = SumLen(s) - gone
    <2>1. CASE n = 0
      <3>1. k = Len(s) /\ part = 0
        BY <1>0, <2>1
      <3> QED BY <1>0, <1>3, <1>9, <2>1, <3>1 DEF SumLen
    <2>2. CASE n # 0
      <3>1. n \in 1 .. n
        BY <1>0, <2>2
      <3> HIDE DEF n, gone
      <3> QED BY <1>0, <1>9, <3>1 DEF SumLen
    <2> QED BY <2>1, <2>2
  <1> QED BY <1>0, <1>9, <1>10

LEMMA RestConsecutive ==
    ASSUME NEW s, NEW a \in Nat, Consecutive(s, a),
           NEW k \in 0 .. Len(s), NEW part \in Nat, NEW t, Rest(s, k, part, t)
    PROVE  Consecutive(t, a + (Ends(s)[k] + part))
  <1> DEFINE n == Len(s) - k
             f == Ends(s)
             gone == f[k] + part
  <1>0. /\ s \in Seq(Seq(Nat)) /\ n \in Nat /\ Len(t) = n /\ t \in Seq(Seq(Nat))
        /\ k \in Nat /\ Len(s) = k + n
    BY DEF Rest, Consecutive
  <1>1. /\ f \in [0 .. Len(s) -> Nat] /\ f[0] = 0
        /\ \A j \in 1 .. Len(s) : f[j] = f[j - 1] + Len(s[j])
    BY <1>0, EndsFacts DEF EndsOf
  <1>2. f[k] \in Nat /\ gone \in Nat
    BY <1>1
  <1>3. /\ Ends(t)[0] = 0
        /\ \A i \in 1 .. n : Ends(t)[i] = f[k + i] - gone
    BY <1>0, RestEnds
  <1>4. ASSUME NEW i \in 1 .. n PROVE f[k + i] \in Nat
    <2>1. k + i \in 0 .. Len(s)
      BY <1>0
    <2> QED BY <1>1, <2>1
  <1>5. ASSUME NEW i \in 1 .. n
        PROVE  /\ t[i] # <<>>
               /\ t[i] = Run((a + gone) + Ends(t)[i - 1], (a + gone) + Ends(t)[i])
    <2>1. (a + gone) + Ends(t)[i] = a + f[k + i]
      <3> HIDE DEF f, gone
      <3> QED BY <1>2, <1>3, <1>4
    <2>2. CASE i = 1
      <3>1. k < Len(s) /\ k + 1 \in 1 .. Len(s) /\ (k + 1) - 1 = k
        BY <1>0
      <3>2. /\ s[k + 1] = Run(a + f[(k + 1) - 1], a + f[k + 1])
            /\ f[k + 1] = f[(k + 1) - 1] + Len(s[k + 1])
            /\ s[k + 1] \in Seq(Nat) /\ Len(s[k + 1]) \in Nat
        <4>1. s[k + 1] = Run(a + f[(k + 1) - 1], a + f[k + 1])
          BY <3>1 DEF Consecutive
        <4>2. f[k + 1] = f[(k + 1) - 1] + Len(s[k + 1])
          BY <1>1, <3>1
        <4>3. s[k + 1] \in Seq(Nat) /\ Len(s[k + 1]) \in Nat
          BY <1>0, <3>1
        <4> QED BY <4>1, <4>2, <4>3
      <3>3. /\ part < Len(s[k + 1])
            /\ t[1] = SubSeq(s[k + 1], part + 1, Len(s[k + 1]))
        BY <3>1 DEF Rest
      <3> DEFINE x == a + f[k]
                 y == a + f[k + 1]
      <3>4. /\ x \in Nat /\ y \in Nat /\ x + part < y /\ Len(s[k + 1]) = y - x
            /\ x + part = a + gone /\ x + part \in Nat /\ x + part <= y
        <4>1. f[k + 1] = f[k] + Len(s[k + 1]) /\ f[k] \in Nat
              /\ Len(s[k + 1]) \in Nat /\ part < Len(s[k + 1])
          BY <1>2, <3>1, <3>2, <3>3
        <4>2. \A u, l \in Nat : part < l =>
                 /\ a + u \in Nat /\ a + (u + l) \in Nat
                 /\ (a + u) + part < a + (u + l) /\ l = (a + (u + l)) - (a + u)
                 /\ (a + u) + part = a + (u + part) /\ (a + u) + part \in Nat
                 /\ (a + u) + part <= a + (u + l)
          OBVIOUS
        <4> HIDE DEF f
        <4>3. PICK u \in Nat, l \in Nat :
                 u = f[k] /\ l = Len(s[k + 1]) /\ f[k + 1] = u + l /\ part < l
          BY <4>1
        <4>4. x = a + u /\ y = a + (u + l) /\ gone = u + part
          BY <4>3
        <4> HIDE DEF x, y, gone
        <4> QED BY <4>2, <4>3, <4>4
      <3>5. s[k + 1] = Run(x, y)
        BY <3>1, <3>2
      <3> HIDE DEF x, y
      <3>6. t[1] = Run(x + part, y)
        <4>2. x \in Nat /\ y \in Nat /\ x + part <= y
          BY <3>4
        <4>1. SubSeq(Run(x, y), part + 1, y - x) = Run(x + part, y)
          BY <4>2, RunCut
        <4> QED BY <3>3, <3>4, <3>5, <4>1
      <3>7. t[1] # <<>>
        <4>1. x + part # y
          BY <3>4
        <4> QED BY <3>4, <3>6, <4>1, RunFacts
      <3>8. (a + gone) + Ends(t)[i - 1] = x + part
        <4>1. Ends(t)[i - 1] = 0
          BY <1>3, <2>2
        <4> HIDE DEF gone
        <4> QED BY <1>2, <3>4, <4>1
      <3>9. (a + gone) + Ends(t)[i] = y
        BY <2>1, <2>2 DEF y
      <3> QED BY <2>2, <3>6, <3>7, <3>8, <3>9
    <2>3. CASE i # 1
      <3>1. /\ i - 1 \in 1 .. n /\ k + i \in 1 .. Len(s) /\ i \in 2 .. n
            /\ (k + i) - 1 = k + (i - 1)
        BY <1>0, <2>3
      <3>2. t[i] = s[k + i]
        BY <3>1 DEF Rest
      <3>3. /\ s[k + i] # <<>>
            /\ s[k + i] = Run(a + f[(k + i) - 1], a + f[k + i])
        BY <3>1 DEF Consecutive
      <3>4. (a + gone) + Ends(t)[i - 1] = a + f[k + (i - 1)]
        <4>1. Ends(t)[i - 1] = f[k + (i - 1)] - gone
              /\ f[k + (i - 1)] \in Nat
          BY <1>3, <1>4, <3>1
        <4> HIDE DEF f, gone
        <4> QED BY <1>2, <4>1
      <3> QED BY <2>1, <3>1, <3>2, <3>3, <3>4
    <2> QED BY <2>2, <2>3
  <1> QED BY <1>0, <1>5 DEF Consecutive

-----------------------------------------------------------------------------
(***************************************************************************)
(* The rope.                                                               *)
(***************************************************************************)
RopeTypeOK ==
    /\ minSegment \in Nat \ {0} /\ backed \in BOOLEAN
    /\ segments \in Seq(Seq(Nat))
    /\ reading \in BOOLEAN
    /\ pos \in 1 .. Len(segments) + 1
    /\ remaining \in Nat /\ written \in Nat /\ read \in Nat

\* What is left are the numbers from the first unread one on; while the rope is
\* written nothing was read, and when it is read the tail is out.
RopeInv ==
    /\ RopeTypeOK
    /\ Pieces(Left, tail, read, written)
    /\ ~ reading => pos = 1
    /\ reading => tail = <<>> /\ remaining = SumLen(Left)

LEMMA LeftFacts ==
    ASSUME NEW s \in Seq(Seq(Nat)), NEW p \in 1 .. Len(s) + 1
    PROVE  /\ SubSeq(s, p, Len(s)) \in Seq(Seq(Nat))
           /\ Len(SubSeq(s, p, Len(s))) = Len(s) - p + 1
           /\ \A i \in 1 .. Len(s) - p + 1 : SubSeq(s, p, Len(s))[i] = s[p + i - 1]
           /\ p = 1 => SubSeq(s, p, Len(s)) = s
  OBVIOUS

LEMMA RopeInitInv == RopeInit => RopeInv
  <1> SUFFICES ASSUME RopeInit PROVE RopeInv
    OBVIOUS
  <1>1. minSegment \in Nat \ {0}
    BY RopeAssumption DEF RopeInit, Clamped
  <1>2. /\ segments = <<>> /\ tail = <<>> /\ pos = 1 /\ written = 0 /\ read = 0
        /\ remaining = 0 /\ reading = FALSE
    BY DEF RopeInit
  <1>3. segments \in Seq(Seq(Nat)) /\ Len(segments) = 0 /\ Left = <<>>
    BY <1>2 DEF Left
  <1>4. RopeTypeOK
    <2>1. pos \in 1 .. Len(segments) + 1
      BY <1>2, <1>3
    <2>2. backed \in BOOLEAN /\ reading \in BOOLEAN
      BY <1>2 DEF RopeInit
    <2>3. remaining \in Nat /\ written \in Nat /\ read \in Nat
      BY <1>2
    <2> QED BY <1>1, <1>3, <2>1, <2>2, <2>3 DEF RopeTypeOK
  <1>5. SumLen(Left) = 0 /\ Consecutive(Left, 0)
    <2>1. SumLen(Left) = 0
      BY <1>2, <1>3, SumLenFacts
    <2>2. Left \in Seq(Seq(Nat)) /\ Len(Left) = 0
      BY <1>2, <1>3
    <2> QED BY <2>1, <2>2 DEF Consecutive
  <1>6. tail = Run(0, 0)
    BY <1>2, RunFacts
  <1>7. Pieces(Left, tail, 0, 0)
    BY <1>5, <1>6 DEF Pieces
  <1> QED BY <1>2, <1>4, <1>7 DEF RopeInv

\* A write adds the next n numbers at the end.
LEMMA CollectKeeps ==
    ASSUME RopeInv, NEW n \in Nat, Writes(n), Collect(n)
    PROVE  RopeInv'
  <1>1. RopeTypeOK /\ Pieces(Left, tail, read, written) /\ ~ reading /\ pos = 1
    BY DEF RopeInv, Writes
  <1>2. /\ tail' = tail \o Run(written, written + n) /\ segments' = segments
        /\ written' = written + n
        /\ UNCHANGED <<minSegment, backed, reading, pos, remaining, read, copied>>
    BY DEF Writes, Collect
  <1>3. read \in Nat /\ written \in Nat /\ Left' = Left
    BY <1>1, <1>2 DEF RopeTypeOK, Left
  <1>4. Pieces(Left, tail', read, written + n)
    BY <1>1, <1>2, <1>3, PiecesCollect
  <1>5. Pieces(Left, tail, read, written)'
    BY <1>2, <1>3, <1>4
  <1>6. RopeTypeOK'
    BY <1>1, <1>2 DEF RopeTypeOK
  <1> QED BY <1>1, <1>2, <1>5, <1>6 DEF RopeInv

\* While the rope is written, all segments are left; with the tail flushed, too.
LEMMA Flushed ==
    ASSUME RopeInv, ~ reading
    PROVE  /\ Left = segments /\ FlushTail \in Seq(Seq(Nat))
           /\ Pieces(FlushTail, <<>>, read, written)
           /\ Consecutive(FlushTail, read)
           /\ read + SumLen(FlushTail) = written
  <1>1. /\ segments \in Seq(Seq(Nat)) /\ pos = 1
        /\ read \in Nat /\ written \in Nat
        /\ Pieces(Left, tail, read, written)
    BY DEF RopeInv, RopeTypeOK
  <1>2. Left = segments
    BY <1>1, LeftFacts DEF Left
  <1>3. Pieces(FlushTail, <<>>, read, written)
    BY <1>1, <1>2, PiecesFlush DEF FlushTail
  <1>4. Consecutive(FlushTail, read) /\ read + SumLen(FlushTail) = written
    BY <1>1, <1>3, PiecesFlushed
  <1> QED BY <1>2, <1>3, <1>4 DEF Consecutive

LEMMA SpliceKeeps ==
    ASSUME RopeInv, NEW n \in Nat \ {0}, Writes(n), Splice(n)
    PROVE  RopeInv'
  <1>1. RopeTypeOK /\ ~ reading /\ pos = 1
    BY DEF RopeInv, Writes
  <1>2. /\ segments' = Append(FlushTail, Run(written, written + n))
        /\ tail' = <<>> /\ written' = written + n
        /\ UNCHANGED <<minSegment, backed, reading, pos, remaining, read, copied>>
    BY DEF Writes, Splice
  <1>3. /\ FlushTail \in Seq(Seq(Nat)) /\ Consecutive(FlushTail, read)
        /\ read + SumLen(FlushTail) = written
    BY <1>1, Flushed
  <1>4. /\ read \in Nat /\ written \in Nat /\ written + n \in Nat
        /\ written < written + n
    BY <1>1 DEF RopeTypeOK
  <1>5. Pieces(segments', <<>>, read, written + n)
    BY <1>2, <1>3, <1>4, PiecesAppend
  <1>6. segments' \in Seq(Seq(Nat)) /\ pos' = 1 /\ pos' \in 1 .. Len(segments') + 1
    BY <1>1, <1>2, <1>5 DEF Pieces, Consecutive
  <1>7. Left' = segments'
    BY <1>6, LeftFacts DEF Left
  <1>8. Pieces(Left, tail, read, written)'
    BY <1>2, <1>5, <1>7
  <1>9. RopeTypeOK'
    BY <1>1, <1>2, <1>4, <1>6 DEF RopeTypeOK
  <1> QED BY <1>1, <1>2, <1>6, <1>8, <1>9 DEF RopeInv

LEMMA WriteKeeps ==
    ASSUME RopeInv,
           \/ \E n \in FixedLengths : PutFixed(n)
           \/ \E n \in Lengths, within \in BOOLEAN : PutSlice(n, within)
           \/ \E n \in Lengths : PutShared(n)
    PROVE  RopeInv'
  <1>1. \A n : n \in FixedLengths \/ n \in Lengths => n \in Nat
    BY RopeAssumption
  <1>2. \A n \in Nat : n >= minSegment => n \in Nat \ {0}
    BY DEF RopeInv, RopeTypeOK
  <1>3. ASSUME NEW n \in FixedLengths, PutFixed(n) PROVE RopeInv'
    BY <1>1, <1>3, CollectKeeps DEF PutFixed
  <1>4. ASSUME NEW n \in Lengths, NEW within \in BOOLEAN, PutSlice(n, within)
        PROVE  RopeInv'
    BY <1>1, <1>2, <1>4, CollectKeeps, SpliceKeeps DEF PutSlice
  <1>5. ASSUME NEW n \in Lengths, PutShared(n) PROVE RopeInv'
    BY <1>1, <1>2, <1>5, CollectKeeps, SpliceKeeps DEF PutShared
  <1> QED BY <1>3, <1>4, <1>5

LEMMA IntoBufKeeps ==
    ASSUME RopeInv, IntoBuf
    PROVE  RopeInv'
  <1>1. RopeTypeOK /\ ~ reading /\ pos = 1
    BY DEF RopeInv, IntoBuf
  <1>2. /\ segments' = FlushTail /\ tail' = <<>> /\ reading' = TRUE
        /\ remaining' = SumLen(FlushTail)
        /\ UNCHANGED <<minSegment, backed, pos, written, read, copied>>
    BY DEF IntoBuf
  <1>3. /\ FlushTail \in Seq(Seq(Nat))
        /\ Pieces(FlushTail, <<>>, read, written)
    BY <1>1, Flushed
  <1>4. pos' \in 1 .. Len(segments') + 1 /\ segments' \in Seq(Seq(Nat))
    BY <1>1, <1>2, <1>3
  <1>5. Left' = FlushTail
    BY <1>1, <1>2, <1>4, LeftFacts DEF Left
  <1>6. remaining' \in Nat /\ remaining' = SumLen(Left')
    BY <1>2, <1>3, <1>5, SumLenFacts
  <1>7. Pieces(Left, tail, read, written)'
    BY <1>2, <1>3, <1>5
  <1>8. RopeTypeOK'
    BY <1>1, <1>2, <1>4, <1>6 DEF RopeTypeOK
  <1>9. (SumLen(Left))' = SumLen(Left')
    OBVIOUS
  <1> QED BY <1>1, <1>2, <1>6, <1>7, <1>8, <1>9 DEF RopeInv

\* A read takes n numbers off the front, in segments and a part of one.
LEMMA ReadKeeps ==
    ASSUME RopeInv, NEW n \in Nat, Reads(n),
           NEW k \in 0 .. Len(Left), NEW part \in Nat,
           Ends(Left)[k] + part = n, Rest(Left, k, part, Left'),
           segments' \in Seq(Seq(Nat)), pos' \in 1 .. Len(segments') + 1
    PROVE  RopeInv'
  <1>1. /\ reading /\ n <= remaining /\ remaining' = remaining - n
        /\ read' = read + n
        /\ UNCHANGED <<minSegment, backed, tail, reading, written>>
    BY DEF Reads
  <1>2. /\ RopeTypeOK /\ Pieces(Left, <<>>, read, written) /\ tail = <<>>
        /\ remaining = SumLen(Left)
    BY <1>1 DEF RopeInv
  <1>3. /\ read \in Nat /\ written \in Nat /\ remaining \in Nat
        /\ read + n \in Nat /\ remaining - n \in Nat
    BY <1>1, <1>2 DEF RopeTypeOK
  <1>4. Consecutive(Left, read) /\ read + SumLen(Left) = written
    BY <1>2, <1>3, PiecesFlushed
  <1>5. Left \in Seq(Seq(Nat))
    BY <1>4 DEF Consecutive
  <1>6. Consecutive(Left', read + n)
    BY <1>3, <1>4, RestConsecutive
  <1>7. SumLen(Left') = remaining - n
    BY <1>2, <1>5, RestEnds
  <1>8. (read + n) + SumLen(Left') = written
    BY <1>1, <1>2, <1>3, <1>4, <1>7
  <1>9. Pieces(Left', <<>>, read + n, written)
    <2>1. Run(written, written) = <<>> /\ written <= written
      BY <1>3, RunFacts
    <2> QED BY <1>6, <1>8, <2>1 DEF Pieces
  <1>10. Pieces(Left, tail, read, written)'
    BY <1>1, <1>2, <1>9
  <1>11. RopeTypeOK'
    BY <1>1, <1>2, <1>3 DEF RopeTypeOK
  <1>12. (SumLen(Left))' = SumLen(Left')
    OBVIOUS
  <1> QED BY <1>1, <1>2, <1>7, <1>10, <1>11, <1>12 DEF RopeInv

\* The loop of advance stops somewhere.
LEMMA DroppedFacts ==
    ASSUME Left \in Seq(Seq(Nat)), NEW n \in Nat
    PROVE  /\ Dropped(n) \in 0 .. Len(Left) /\ Ends(Left)[Dropped(n)] <= n
           /\ \A j \in Dropped(n) + 1 .. Len(Left) : Ends(Left)[j] > n
  <1> DEFINE s == Left
             f == Ends(s)
             len == Len(s)
             Over == {j \in 1 .. len + 1 : j = len + 1 \/ f[j] > n}
             Stop(k) == f[k] <= n /\ \A j \in k + 1 .. len : f[j] > n
  <1>1. s \in Seq(Seq(Nat)) /\ len \in Nat
    OBVIOUS
  <1> HIDE DEF s
  <1>2. f \in [0 .. len -> Nat] /\ f[0] = 0
    BY <1>1, EndsFacts DEF EndsOf
  <1>3. \A i \in 0 .. len, j \in 0 .. len : i <= j => f[i] <= f[j]
    <2> SUFFICES ASSUME NEW i \in 0 .. len, NEW j \in 0 .. len, i <= j
                 PROVE  f[i] <= f[j]
      OBVIOUS
    <2>1. j \in i .. len
      BY <1>1
    <2> QED BY <1>1, <2>1, EndsGrow
  <1> HIDE DEF f, len
  <1>4. PICK m \in Over : \A j \in Over : m <= j
    <2>1. Over \in SUBSET Nat /\ len + 1 \in Over
      BY <1>1
    <2> HIDE DEF Over
    <2> QED BY <2>1, Least
  <1>5. m \in 1 .. len + 1 /\ m - 1 \in 0 .. len /\ (m - 1) + 1 = m
    BY <1>1, <1>4
  <1>6. f[m - 1] <= n
    <2>1. CASE m = 1
      <3>1. m - 1 = 0
        BY <2>1
      <3> QED BY <1>2, <3>1
    <2>2. CASE m # 1
      <3>1. m - 1 \in 1 .. len + 1 /\ m - 1 # len + 1 /\ ~ (m <= m - 1)
        BY <1>1, <1>5, <2>2
      <3>2. ~ (f[m - 1] > n)
        BY <1>4, <3>1
      <3>3. f[m - 1] \in Nat
        BY <1>2, <1>5
      <3> QED BY <3>2, <3>3
    <2> QED BY <2>1, <2>2
  <1>7. ASSUME NEW j \in m .. len PROVE f[j] > n
    <2>1. m # len + 1 /\ m \in 0 .. len /\ j \in 0 .. len /\ m <= j
      BY <1>1, <1>5
    <2>2. f[m] > n
      BY <1>4, <2>1
    <2>3. f[m] <= f[j] /\ f[m] \in Nat /\ f[j] \in Nat
      BY <1>2, <1>3, <2>1
    <2> QED BY <2>2, <2>3
  <1>8. Stop(m - 1)
    BY <1>5, <1>6, <1>7
  <1>9. Dropped(n) = CHOOSE k \in 0 .. len : Stop(k)
    BY DEF Dropped, s, f, len
  <1> HIDE DEF Stop
  <1>10. Dropped(n) \in 0 .. len /\ Stop(Dropped(n))
    BY <1>5, <1>8, <1>9
  <1> QED BY <1>10 DEF Stop, s, f, len

LEMMA AdvanceKeeps ==
    ASSUME RopeInv, NEW n \in Nat, Reads(n), AdvanceBy(n)
    PROVE  RopeInv'
  <1> DEFINE k == Dropped(n)
             part == n - Ends(Left)[k]
  <1>1. /\ segments \in Seq(Seq(Nat)) /\ pos \in 1 .. Len(segments) + 1
        /\ n <= SumLen(Left)
    BY DEF RopeInv, RopeTypeOK, Reads
  <1>2. /\ Left \in Seq(Seq(Nat)) /\ Len(Left) = Len(segments) - pos + 1
        /\ \A i \in 1 .. Len(Left) : Left[i] = segments[pos + i - 1]
    BY <1>1, LeftFacts DEF Left
  <1>3. /\ k \in 0 .. Len(Left) /\ Ends(Left)[k] <= n
        /\ \A j \in k + 1 .. Len(Left) : Ends(Left)[j] > n
    BY <1>2, DroppedFacts
  <1>4. /\ pos' = pos + k
        /\ segments' = [i \in 1 .. Len(segments) |->
                           IF i < pos + k THEN <<>>
                           ELSE IF i = pos + k
                             THEN SubSeq(segments[i], part + 1, Len(segments[i]))
                           ELSE segments[i]]
    BY DEF AdvanceBy
  <1>5. EndsOf(Left, Ends(Left)) /\ Ends(Left)[k] \in Nat
    BY <1>2, <1>3, EndsFacts DEF EndsOf
  <1>6. part \in Nat /\ Ends(Left)[k] + part = n
    BY <1>3, <1>5
  <1> HIDE DEF k, part
  <1>7. /\ segments' \in Seq(Seq(Nat)) /\ Len(segments') = Len(segments)
        /\ \A i \in 1 .. Len(segments) :
              segments'[i] = IF i < pos + k THEN <<>>
                             ELSE IF i = pos + k
                               THEN SubSeq(segments[i], part + 1, Len(segments[i]))
                             ELSE segments[i]
    <2>1. ASSUME NEW i \in 1 .. Len(segments)
          PROVE  (IF i < pos + k THEN <<>>
                  ELSE IF i = pos + k
                    THEN SubSeq(segments[i], part + 1, Len(segments[i]))
                  ELSE segments[i]) \in Seq(Nat)
      <3>1. segments[i] \in Seq(Nat) /\ Len(segments[i]) \in Nat
        BY <1>1
      <3>2. SubSeq(segments[i], part + 1, Len(segments[i])) \in Seq(Nat)
        BY <1>6, <3>1
      <3> QED BY <3>1, <3>2
    <2>2. Len(segments) \in Nat
      BY <1>1
    <2>3. segments' \in [1 .. Len(segments) -> Seq(Nat)]
      BY <1>4, <2>1
    <2>4. segments' \in Seq(Seq(Nat)) /\ Len(segments') = Len(segments)
      BY <2>2, <2>3
    <2> QED BY <1>4, <2>4
  <1>8. pos' \in 1 .. Len(segments') + 1
    BY <1>1, <1>2, <1>3, <1>4, <1>7
  <1>9. /\ Left' \in Seq(Seq(Nat)) /\ Len(Left') = Len(Left) - k
        /\ \A i \in 1 .. Len(Left) - k : Left'[i] = segments'[(pos + k) + i - 1]
    <2>1. /\ Left' \in Seq(Seq(Nat)) /\ Len(Left') = Len(segments') - pos' + 1
          /\ \A i \in 1 .. Len(segments') - pos' + 1 :
                Left'[i] = segments'[pos' + i - 1]
      BY <1>7, <1>8, LeftFacts DEF Left
    <2>2. Len(segments') - pos' + 1 = Len(Left) - k
      BY <1>1, <1>2, <1>3, <1>4, <1>7
    <2> QED BY <1>4, <2>1, <2>2
  <1>10. ASSUME k < Len(Left)
         PROVE  /\ part < Len(Left[k + 1])
                /\ Left'[1] = SubSeq(Left[k + 1], part + 1, Len(Left[k + 1]))
    <2>1. /\ k + 1 \in 1 .. Len(Left) /\ k + 1 \in k + 1 .. Len(Left)
          /\ (k + 1) - 1 = k /\ 1 \in 1 .. Len(Left) - k
          /\ pos + k \in 1 .. Len(segments) /\ pos + (k + 1) - 1 = pos + k
          /\ (pos + k) + 1 - 1 = pos + k
      BY <1>1, <1>2, <1>3, <1>10
    <2>2. /\ Ends(Left)[k + 1] = Ends(Left)[k] + Len(Left[k + 1])
          /\ Ends(Left)[k + 1] > n /\ Len(Left[k + 1]) \in Nat
      BY <1>2, <1>3, <1>5, <2>1 DEF EndsOf
    <2>3. part < Len(Left[k + 1])
      BY <1>5, <1>6, <2>2
    <2>4. Left[k + 1] = segments[pos + k] /\ Left'[1] = segments'[pos + k]
      BY <1>2, <1>9, <2>1
    <2>5. ~ (pos + k < pos + k)
      BY <2>1
    <2>6. segments'[pos + k]
            = SubSeq(segments[pos + k], part + 1, Len(segments[pos + k]))
      BY <1>7, <2>1, <2>5
    <2> QED BY <2>3, <2>4, <2>6
  <1>11. k = Len(Left) => part = 0
    BY <1>1, <1>3, <1>5, <1>6 DEF SumLen
  <1>14. /\ Len(segments) \in Nat /\ pos \in Nat \ {0} /\ k \in Nat
         /\ k <= Len(Left) /\ Len(Left) = Len(segments) - pos + 1
    BY <1>1, <1>2, <1>3
  <1>12. ASSUME NEW i \in 2 .. Len(Left) - k PROVE Left'[i] = Left[k + i]
    <2>1. /\ i \in 1 .. Len(Left) - k /\ k + i \in 1 .. Len(Left)
          /\ (pos + k) + i - 1 \in 1 .. Len(segments)
          /\ pos + (k + i) - 1 = (pos + k) + i - 1
          /\ ~ ((pos + k) + i - 1 < pos + k) /\ (pos + k) + i - 1 # pos + k
      BY <1>14
    <2>2. Left'[i] = segments'[(pos + k) + i - 1]
      BY <1>9, <2>1
    <2>3. Left[k + i] = segments[(pos + k) + i - 1]
      BY <1>2, <2>1
    <2> QED BY <1>7, <2>1, <2>2, <2>3
  <1>13. Rest(Left, k, part, Left')
    BY <1>9, <1>10, <1>11, <1>12 DEF Rest
  <1> QED BY <1>3, <1>6, <1>7, <1>8, <1>13, ReadKeeps

\* The front of the rope, where something is left.
LEMMA ChunkFacts ==
    ASSUME RopeInv, Chunk # <<>>
    PROVE  /\ pos \in 1 .. Len(segments) /\ Len(Left) \in Nat \ {0}
           /\ Chunk = segments[pos] /\ Left[1] = Chunk /\ Chunk \in Seq(Nat)
  <1>1. segments \in Seq(Seq(Nat)) /\ pos \in 1 .. Len(segments) + 1
    BY DEF RopeInv, RopeTypeOK
  <1>2. pos \in 1 .. Len(segments) /\ Chunk = segments[pos]
    BY <1>1 DEF Chunk
  <1>3. /\ Len(Left) = Len(segments) - pos + 1
        /\ \A i \in 1 .. Len(segments) - pos + 1 : Left[i] = segments[pos + i - 1]
    BY <1>1, LeftFacts DEF Left
  <1>4. 1 \in 1 .. Len(segments) - pos + 1 /\ pos + 1 - 1 = pos
    BY <1>1, <1>2
  <1> QED BY <1>1, <1>2, <1>3, <1>4

LEMMA SplitKeeps ==
    ASSUME RopeInv, NEW n \in Nat \ {0}, n <= Len(Chunk), Chunk # <<>>,
           Reads(n), Split(n)
    PROVE  RopeInv'
  <1> DEFINE len == Len(segments)
             front == SubSeq(segments[pos], n + 1, Len(segments[pos]))
  <1>1. segments \in Seq(Seq(Nat)) /\ len \in Nat
    BY DEF RopeInv, RopeTypeOK
  <1>2. /\ pos \in 1 .. len /\ Len(Left) \in Nat \ {0}
        /\ Chunk = segments[pos] /\ Left[1] = Chunk /\ Chunk \in Seq(Nat)
    BY ChunkFacts
  <1>3. /\ Left \in Seq(Seq(Nat)) /\ Len(Left) = len - pos + 1
        /\ \A i \in 1 .. len - pos + 1 : Left[i] = segments[pos + i - 1]
    BY <1>1, <1>2, LeftFacts DEF Left
  <1>4. front \in Seq(Nat)
    BY <1>2
  <1> HIDE DEF front
  <1>5. /\ segments' \in Seq(Seq(Nat)) /\ Len(segments') = len
        /\ segments'[pos] = front
        /\ \A i \in 1 .. len : i # pos => segments'[i] = segments[i]
    <2>1. segments' = [segments EXCEPT ![pos] = front]
      BY DEF Split, front
    <2> QED BY <1>1, <1>2, <1>4, <2>1
  <1> HIDE DEF len
  <1>6. EndsOf(Left, Ends(Left))
    BY <1>3, EndsFacts
  <1>7. 0 \in 0 .. Len(Left) /\ 1 \in 0 .. Len(Left) /\ 1 \in 1 .. Len(Left)
    BY <1>2
  <1>8. Ends(Left)[0] = 0 /\ Ends(Left)[1] = Len(Chunk)
    <2>1. Ends(Left)[1] = Ends(Left)[1 - 1] + Len(Left[1])
      BY <1>6, <1>7 DEF EndsOf
    <2>2. Ends(Left)[0] = 0 /\ 1 - 1 = 0 /\ Len(Chunk) \in Nat
      BY <1>2, <1>6 DEF EndsOf
    <2> QED BY <1>2, <2>1, <2>2
  <1>9. CASE n = Len(Chunk)
    <2>1. pos' = pos + 1 /\ pos' \in 1 .. len + 1
      BY <1>1, <1>2, <1>9 DEF Split
    <2>2. /\ Left' \in Seq(Seq(Nat)) /\ Len(Left') = len - pos' + 1
          /\ \A i \in 1 .. len - pos' + 1 : Left'[i] = segments'[pos' + i - 1]
      BY <1>5, <2>1, LeftFacts DEF Left
    <2>3. Len(Left') = Len(Left) - 1
      BY <1>1, <1>2, <1>3, <2>1, <2>2
    <2>4. ASSUME NEW i \in 1 .. Len(Left) - 1 PROVE Left'[i] = Left[1 + i]
      <3>1. /\ i \in 1 .. len - pos' + 1 /\ 1 + i \in 1 .. len - pos + 1
            /\ pos' + i - 1 = pos + i /\ pos + (1 + i) - 1 = pos + i
            /\ pos + i \in 1 .. len /\ pos + i # pos
        BY <1>1, <1>2, <1>3, <2>1
      <3> QED BY <1>3, <1>5, <2>2, <3>1
    <2>5. ASSUME 1 < Len(Left)
          PROVE  /\ 0 < Len(Left[1 + 1])
                 /\ Left'[1] = SubSeq(Left[1 + 1], 0 + 1, Len(Left[1 + 1]))
      <3>1. 1 + 1 \in 1 .. Len(Left) /\ 1 \in 1 .. Len(Left) - 1
        BY <1>2, <2>5
      <3>2. Left[1 + 1] \in Seq(Nat) /\ Left[1 + 1] # <<>>
        BY <1>3, <3>1 DEF RopeInv, Pieces, Consecutive
      <3>3. Left'[1] = Left[1 + 1]
        BY <2>4, <3>1
      <3> HIDE DEF Left
      <3> QED BY <3>2, <3>3
    <2>6. Rest(Left, 1, 0, Left')
      BY <1>2, <2>2, <2>3, <2>4, <2>5 DEF Rest
    <2>7. Ends(Left)[1] + 0 = n
      BY <1>2, <1>8, <1>9
    <2> QED BY <1>5, <1>7, <2>1, <2>6, <2>7, ReadKeeps
  <1>10. CASE n # Len(Chunk)
    <2>1. pos' = pos /\ pos' \in 1 .. len + 1 /\ n < Len(Chunk)
      BY <1>1, <1>2, <1>10 DEF Split
    <2>2. /\ Left' \in Seq(Seq(Nat)) /\ Len(Left') = len - pos + 1
          /\ \A i \in 1 .. len - pos + 1 : Left'[i] = segments'[pos + i - 1]
      BY <1>5, <2>1, LeftFacts DEF Left
    <2>3. Left'[1] = SubSeq(Left[0 + 1], n + 1, Len(Left[0 + 1]))
      <3>1. 1 \in 1 .. len - pos + 1 /\ pos + 1 - 1 = pos /\ 0 + 1 = 1
        BY <1>1, <1>2
      <3> QED BY <1>2, <1>5, <2>2, <3>1 DEF front
    <2>4. ASSUME NEW i \in 2 .. Len(Left) - 0 PROVE Left'[i] = Left[0 + i]
      <3>1. /\ i \in 1 .. len - pos + 1 /\ 0 + i = i
            /\ pos + i - 1 \in 1 .. len /\ pos + i - 1 # pos
        BY <1>1, <1>2, <1>3
      <3> QED BY <1>3, <1>5, <2>2, <3>1
    <2>5. Rest(Left, 0, n, Left')
      <3>1. Len(Left') = Len(Left) - 0 /\ 0 # Len(Left)
        BY <1>2, <1>3, <2>2
      <3>2. n < Len(Left[0 + 1])
        BY <1>2, <2>1
      <3> QED BY <2>2, <2>3, <2>4, <3>1, <3>2 DEF Rest
    <2> QED BY <1>5, <1>7, <1>8, <2>1, <2>5, ReadKeeps
  <1> QED BY <1>9, <1>10

LEMMA ReadingKeeps ==
    ASSUME RopeInv, NEW n \in Nat, Advance(n) \/ CopyToBytes(n)
    PROVE  RopeInv'
  <1>1. CASE Advance(n)
    BY <1>1, AdvanceKeeps DEF Advance
  <1>2. CASE CopyToBytes(n) /\ n = 0 /\ UNCHANGED <<segments, pos>>
    <2>1. /\ remaining' = remaining /\ read' = read
          /\ UNCHANGED <<minSegment, backed, tail, reading, written>>
      BY <1>2 DEF CopyToBytes, Reads, RopeInv, RopeTypeOK
    <2>2. Left' = Left
      BY <1>2 DEF Left
    <2>3. RopeTypeOK' /\ Pieces(Left, tail, read, written)'
      BY <1>2, <2>1, <2>2 DEF RopeInv, RopeTypeOK
    <2>4. (SumLen(Left))' = SumLen(Left)
      BY <2>2
    <2> QED BY <1>2, <2>1, <2>3, <2>4 DEF RopeInv
  <1>3. CASE CopyToBytes(n) /\ n > 0 /\ n <= Len(Chunk) /\ Split(n)
    BY <1>3, SplitKeeps DEF CopyToBytes
  <1>4. CASE CopyToBytes(n) /\ AdvanceBy(n)
    BY <1>4, AdvanceKeeps DEF CopyToBytes
  <1> QED BY <1>1, <1>2, <1>3, <1>4 DEF CopyToBytes

LEMMA RopeStepInv == RopeInv /\ [RopeNext]_ropeVars => RopeInv'
  <1> SUFFICES ASSUME RopeInv, [RopeNext]_ropeVars PROVE RopeInv'
    OBVIOUS
  <1>1. CASE UNCHANGED ropeVars
    <2>1. Left' = Left
      BY <1>1 DEF ropeVars, Left
    <2>2. (SumLen(Left))' = SumLen(Left)
      BY <2>1
    <2>3. Pieces(Left, tail, read, written)'
      BY <1>1, <2>1 DEF ropeVars, RopeInv
    <2> QED BY <1>1, <2>2, <2>3 DEF ropeVars, RopeInv, RopeTypeOK
  <1>2. CASE \E n \in 0 .. MaxBytes : Advance(n) \/ CopyToBytes(n)
    <2>1. \A n \in 0 .. MaxBytes : n \in Nat
      BY RopeAssumption
    <2> QED BY <1>2, <2>1, ReadingKeeps
  <1> QED BY <1>1, <1>2, WriteKeeps, IntoBufKeeps DEF RopeNext, Drained

LEMMA RopeSpecInv == RopeSpec => []RopeInv
  BY RopeInitInv, RopeStepInv, PTL DEF RopeSpec

LEMMA ContentRun ==
    ASSUME RopeInv
    PROVE  Content = Run(read, written) /\ read <= written
  <1>1. /\ read \in Nat /\ written \in Nat /\ Pieces(Left, tail, read, written)
    BY DEF RopeInv, RopeTypeOK
  <1>2. Content = Run(read, written)
    BY <1>1, PiecesContent DEF Content
  <1>3. SumLen(Left) \in Nat /\ read + SumLen(Left) <= written
    BY <1>1, SumLenFacts DEF Pieces, Consecutive
  <1> QED BY <1>1, <1>2, <1>3

\* Whatever is written by copy or by reference, and however it is read, what the
\* rope holds is what was written and not read yet, in the order of the writes.
THEOREM RopeInOrder == RopeSpec => []InOrder
  <1>1. RopeInv => InOrder
    BY ContentRun DEF InOrder
  <1> QED BY <1>1, RopeSpecInv, PTL

\* Within the front segment or across several, the next bytes are returned.
LEMMA CopiesNext ==
    ASSUME RopeInv, NEW n \in Nat, CopyToBytes(n)
    PROVE  copied' = SubSeq(Content, 1, read' - read)
  <1>1. /\ reading /\ n <= SumLen(Left) /\ read' = read + n
        /\ read \in Nat /\ written \in Nat /\ read' - read = n
        /\ Pieces(Left, tail, read, written)
    BY DEF CopyToBytes, Reads, RopeInv, RopeTypeOK
  <1>2. Content = Run(read, written)
    BY ContentRun
  <1>3. SumLen(Left) \in Nat /\ read + n <= written
    BY <1>1, SumLenFacts DEF Pieces, Consecutive
  <1>4. SubSeq(Content, 1, n) = Run(read, read + n)
    BY <1>1, <1>2, <1>3, RunCut
  <1>5. CASE n = 0 /\ copied' = <<>>
    <2>1. Run(read, read + n) = <<>>
      BY <1>1, <1>5, RunFacts
    <2> QED BY <1>1, <1>4, <1>5, <2>1
  <1>6. CASE n > 0 /\ n <= Len(Chunk) /\ copied' = SubSeq(Chunk, 1, n)
    <2>1. Chunk # <<>>
      BY <1>6
    <2>2. Len(Left) \in Nat \ {0} /\ Left[1] = Chunk /\ Chunk \in Seq(Nat)
      BY <2>1, ChunkFacts
    <2>3. 1 \in 1 .. Len(Left) /\ 1 - 1 = 0
      BY <2>2
    <2>4. /\ Left \in Seq(Seq(Nat))
          /\ Chunk = Run(read + Ends(Left)[1 - 1], read + Ends(Left)[1])
      BY <1>1, <2>2, <2>3 DEF Pieces, Consecutive
    <2>5. Ends(Left)[0] = 0 /\ Ends(Left)[1] = Ends(Left)[1 - 1] + Len(Left[1])
      BY <2>3, <2>4, EndsFacts DEF EndsOf
    <2>6. Len(Chunk) \in Nat
      BY <2>2
    <2>7. Chunk = Run(read, read + Len(Chunk))
      BY <1>1, <2>2, <2>3, <2>4, <2>5, <2>6
    <2> HIDE DEF Chunk
    <2>8. read + Len(Chunk) \in Nat /\ read + n <= read + Len(Chunk)
      BY <1>1, <1>6, <2>6
    <2>9. SubSeq(Run(read, read + Len(Chunk)), 1, n) = Run(read, read + n)
      BY <1>1, <2>8, RunCut
    <2> QED BY <1>1, <1>4, <1>6, <2>7, <2>9
  <1>7. CASE copied' = Gathered(n)
    BY <1>1, <1>7 DEF Gathered
  <1> QED BY <1>5, <1>6, <1>7 DEF CopyToBytes

\* The reader's announced remainder is what is left, none of its segments is
\* empty, and copy_to_bytes returns the bytes that are next.
THEOREM RopeBufContract == RopeSpec => BufContract
  <1> DEFINE Contract ==
        /\ reading' => (/\ remaining = SumLen(Left)
                        /\ \A i \in 1 .. Len(Left) : Left[i] # <<>>)'
        /\ copied' # copied => copied' = SubSeq(Content, 1, read' - read)
  <1>1. ASSUME RopeInv, RopeInv', [RopeNext]_ropeVars, ~ UNCHANGED ropeVars
        PROVE  Contract
    <2>1. ASSUME reading'
          PROVE  (/\ remaining = SumLen(Left)
                  /\ \A i \in 1 .. Len(Left) : Left[i] # <<>>)'
      BY <1>1, <2>1 DEF RopeInv, Pieces, Consecutive
    <2>2. ASSUME copied' # copied
          PROVE  copied' = SubSeq(Content, 1, read' - read)
      <3>1. PICK n \in 0 .. MaxBytes : CopyToBytes(n)
        BY <1>1, <2>2 DEF RopeNext, PutFixed, PutSlice, PutShared, Writes,
                          IntoBuf, Advance, Drained
      <3>2. n \in Nat
        BY RopeAssumption
      <3> QED BY <1>1, <3>1, <3>2, CopiesNext
    <2> QED BY <2>1, <2>2
  <1>2. RopeInv /\ RopeInv' /\ [RopeNext]_ropeVars => [Contract]_ropeVars
    BY <1>1
  <1> QED BY <1>2, RopeSpecInv, PTL DEF RopeSpec, BufContract

-----------------------------------------------------------------------------
(***************************************************************************)
(* The pre-sized window of a contiguous sink.                              *)
(***************************************************************************)
SinkTypeOK ==
    /\ kind \in Kinds /\ debug \in BOOLEAN
    /\ published \in Seq(Seq(Nat))
    /\ path \in {"idle", "window", "scratch", "perwrite"}
    /\ size \in Nat /\ window \in Seq(Nat)
    /\ cursor \in Nat /\ produced \in Nat
    /\ outcomes \in Seq({"ok", "panic"})

\* The cursor is at the bytes produced, inside the space that was asked for,
\* and everything before it was written.
CursorInv ==
    Pre => /\ kind = "bufmut"
           /\ Len(window) = size
           /\ cursor = produced /\ cursor <= size
           /\ \A i \in 1 .. cursor : window[i] = i

\* The last message of a per-write sink is the bytes produced so far.
PerWriteInv ==
    path = "perwrite" =>
        /\ kind = "perwrite"
        /\ published # <<>>
        /\ Len(published[Len(published)]) = produced

SinkInv == SinkTypeOK /\ CursorInv /\ PerWriteInv /\ NothingUninitialised

-----------------------------------------------------------------------------
LEMMA InitSinkInv == Init => SinkInv
  BY DEF Init, SinkInv, SinkTypeOK, CursorInv, PerWriteInv, NothingUninitialised, Pre

\* A message whose bytes are numbered from 1.
Numbered(bytes) == bytes \in Seq(Nat) /\ \A i \in 1 .. Len(bytes) : bytes[i] = i

LEMMA PublishNumbered ==
    ASSUME SinkTypeOK, NothingUninitialised, NEW bytes, Numbered(bytes),
           published' = Append(published, bytes)
    PROVE  /\ published' \in Seq(Seq(Nat)) /\ NothingUninitialised'
           /\ published' # <<>> /\ published'[Len(published')] = bytes
  <1>1. published \in Seq(Seq(Nat)) /\ bytes \in Seq(Nat)
    BY DEF SinkTypeOK, Numbered
  <1>2. /\ published' \in Seq(Seq(Nat)) /\ Len(published') = Len(published) + 1
        /\ published'[Len(published) + 1] = bytes
        /\ \A m \in 1 .. Len(published) : published'[m] = published[m]
    BY <1>1
  <1>3. Len(published) \in Nat
    BY <1>1
  <1>4. ASSUME NEW m \in 1 .. Len(published')
        PROVE  \A i \in 1 .. Len(published'[m]) : published'[m][i] = i
    <2>1. CASE m = Len(published) + 1
      BY <1>2, <2>1 DEF Numbered
    <2>2. CASE m # Len(published) + 1
      <3>1. m \in 1 .. Len(published)
        BY <1>2, <1>3, <2>2
      <3> QED BY <1>2, <3>1 DEF NothingUninitialised
    <2> QED BY <2>1, <2>2
  <1>5. published' # <<>>
    BY <1>2, <1>3
  <1> QED BY <1>2, <1>4, <1>5 DEF NothingUninitialised

\* However a message ends, what it leaves in the sink is numbered.
LEMMA EndKeepsSinkInv ==
    ASSUME SinkInv, path # "idle", NEW outcome \in {"ok", "panic"}, NEW bytes,
           Pre => Numbered(bytes), End(outcome, bytes)
    PROVE  SinkInv'
  <1>1. published' \in Seq(Seq(Nat)) /\ NothingUninitialised'
    <2>1. CASE Pre
      BY <2>1, PublishNumbered DEF End, SinkInv
    <2>2. CASE ~ Pre
      BY <2>2 DEF End, SinkInv, SinkTypeOK, NothingUninitialised
    <2> QED BY <2>1, <2>2
  <1>2. SinkTypeOK'
    BY <1>1 DEF End, SinkInv, SinkTypeOK
  <1>3. CursorInv' /\ PerWriteInv'
    BY DEF End, CursorInv, PerWriteInv, Pre
  <1> QED BY <1>1, <1>2, <1>3 DEF SinkInv

LEMMA WrittenFacts ==
    ASSUME SinkInv, Pre
    PROVE  Numbered(Written) /\ Len(Written) = produced /\ produced <= size
  BY DEF SinkInv, SinkTypeOK, CursorInv, Written, Numbered

LEMMA NothingNumbered == Numbered(<<>>)
  BY DEF Numbered

LEMMA StartKeepsSinkInv ==
    ASSUME SinkInv, NEW n \in Sizes, NEW chunk \in Chunks,
           WriteContiguous(n, chunk)
    PROVE  SinkInv'
  <1>1. n \in Nat
    BY SinkAssumption
  <1>2. CASE kind = "perwrite"
    <2>1. published' = Append(published, <<>>)
      BY <1>2 DEF WriteContiguous
    <2>2. /\ published' \in Seq(Seq(Nat)) /\ NothingUninitialised'
          /\ published' # <<>> /\ published'[Len(published')] = <<>>
      BY <2>1, NothingNumbered, PublishNumbered DEF SinkInv
    <2>3. SinkTypeOK'
      BY <1>1, <1>2, <2>2 DEF WriteContiguous, SinkInv, SinkTypeOK
    <2>4. CursorInv' /\ PerWriteInv'
      BY <1>2, <2>2 DEF WriteContiguous, CursorInv, PerWriteInv, Pre
    <2> QED BY <2>2, <2>3, <2>4 DEF SinkInv
  <1>3. CASE kind # "perwrite"
    <2>1. /\ window' = [i \in 1 .. n |-> Uninit]
          /\ path' \in {"window", "scratch"}
          /\ published' = published /\ kind' = "bufmut"
      BY <1>3 DEF WriteContiguous, SinkInv, SinkTypeOK, Kinds
    <2>2. window' \in Seq(Nat) /\ Len(window') = n
      BY <1>1, <2>1 DEF Uninit
    <2>3. SinkTypeOK'
      BY <1>1, <2>1, <2>2 DEF WriteContiguous, SinkInv, SinkTypeOK
    <2>4. CursorInv' /\ PerWriteInv'
      BY <1>1, <2>1, <2>2 DEF WriteContiguous, CursorInv, PerWriteInv, Pre
    <2> QED BY <2>1, <2>3, <2>4 DEF SinkInv, NothingUninitialised
  <1> QED BY <1>2, <1>3

LEMMA PutKeepsSinkInv ==
    ASSUME SinkInv, NEW n \in PutSizes, Put(n)
    PROVE  SinkInv'
  <1>1. n \in Nat
    BY SinkAssumption
  <1>2. CASE ~ Pre
    <2> DEFINE m == Len(published)
               more == [i \in 1 .. n |-> produced + i]
    <2>1. /\ m \in Nat /\ m \in 1 .. m /\ path = "perwrite"
          /\ published[m] \in Seq(Nat) /\ Len(published[m]) = produced
          /\ published' = [published EXCEPT ![m] = @ \o more]
          /\ produced' = produced + n
          /\ UNCHANGED <<kind, debug, path, size, window, cursor, outcomes>>
      <3>1. path = "perwrite"
        BY <1>2 DEF Put, Pre, SinkInv, SinkTypeOK
      <3>2. published \in Seq(Seq(Nat)) /\ published # <<>>
            /\ Len(published[m]) = produced
        BY <3>1 DEF SinkInv, SinkTypeOK, PerWriteInv
      <3>3. m \in Nat /\ m \in 1 .. m /\ published[m] \in Seq(Nat)
        BY <3>2
      <3>4. /\ published' = [published EXCEPT ![m] = @ \o more]
            /\ produced' = produced + n
            /\ UNCHANGED <<kind, debug, path, size, window, cursor, outcomes>>
        BY <1>2 DEF Put
      <3> QED BY <3>1, <3>2, <3>3, <3>4
    <2>2. more \in Seq(Nat) /\ Len(more) = n
      BY <1>1 DEF SinkInv, SinkTypeOK
    <2>3. \A i \in 1 .. n : more[i] = produced + i
      OBVIOUS
    <2> HIDE DEF more
    <2>4. /\ published[m] \o more \in Seq(Nat)
          /\ Len(published[m] \o more) = produced + n
          /\ \A i \in 1 .. produced + n : (published[m] \o more)[i] = i
      <3> DEFINE old == published[m]
                 all == old \o more
      <3>1. /\ old \in Seq(Nat) /\ Len(old) = produced /\ produced \in Nat
            /\ \A i \in 1 .. Len(old) : old[i] = i
        BY <2>1 DEF SinkInv, SinkTypeOK, NothingUninitialised
      <3> HIDE DEF old
      <3>2. /\ all \in Seq(Nat) /\ Len(all) = produced + n
            /\ \A i \in 1 .. produced + n :
                  all[i] = IF i <= produced THEN old[i] ELSE more[i - produced]
        BY <1>1, <2>2, <3>1
      <3> HIDE DEF all
      <3>3. \A i \in 1 .. produced + n : all[i] = i
        <4> SUFFICES ASSUME NEW i \in 1 .. produced + n PROVE all[i] = i
          OBVIOUS
        <4>1. CASE i <= produced
          <5>1. i \in 1 .. Len(old)
            BY <1>1, <3>1, <4>1
          <5> QED BY <3>1, <3>2, <4>1, <5>1
        <4>2. CASE i > produced
          <5>1. i - produced \in 1 .. n /\ produced + (i - produced) = i
            BY <1>1, <3>1, <4>2
          <5> QED BY <2>3, <3>1, <3>2, <4>2, <5>1
        <4> QED BY <1>1, <3>1, <4>1, <4>2
      <3> QED BY <3>2, <3>3 DEF all, old
    <2>5. /\ published' \in Seq(Seq(Nat)) /\ Len(published') = m
          /\ published'[m] = published[m] \o more
          /\ \A k \in 1 .. m : k # m => published'[k] = published[k]
      BY <2>1, <2>4 DEF SinkInv, SinkTypeOK
    <2>6. NothingUninitialised'
      BY <2>4, <2>5 DEF SinkInv, NothingUninitialised
    <2>7. SinkTypeOK'
      <3>1. produced' \in Nat
        BY <1>1, <2>1 DEF SinkInv, SinkTypeOK
      <3> QED BY <2>1, <2>5, <3>1 DEF SinkInv, SinkTypeOK
    <2>8. CursorInv' /\ PerWriteInv'
      <3>1. published' # <<>> /\ Len(published'[Len(published')]) = produced'
        <4>1. published' \in Seq(Seq(Nat)) /\ Len(published') >= 1
          <5> HIDE DEF m
          <5>1. m \in Nat /\ m >= 1
            BY <2>1
          <5> QED BY <2>5, <5>1
        <4>2. published'[Len(published')] = published[m] \o more
          BY <2>5
        <4>3. Len(published[m] \o more) = produced'
          BY <2>1, <2>4
        <4> QED BY <4>1, <4>2, <4>3
      <3>2. path' = "perwrite" /\ kind' = "perwrite"
        BY <2>1 DEF SinkInv, PerWriteInv
      <3> QED BY <3>1, <3>2 DEF CursorInv, PerWriteInv, Pre
    <2> QED BY <2>6, <2>7, <2>8 DEF SinkInv
  <1>3. CASE Pre /\ ~ Fits(n)
    BY <1>3, NothingNumbered, EndKeepsSinkInv DEF Put, Panic
  <1>4. CASE Pre /\ Fits(n)
    <2>1. /\ window' = [i \in 1 .. Len(window) |->
                             IF i \in cursor + 1 .. cursor + n
                               THEN produced + (i - cursor) ELSE window[i]]
          /\ cursor' = cursor + n /\ produced' = produced + n
          /\ UNCHANGED <<kind, debug, published, path, size, outcomes>>
      BY <1>4 DEF Put
    <2>2. /\ cursor = produced /\ cursor + n <= Len(window)
          /\ Len(window) = size
          /\ \A i \in 1 .. cursor : window[i] = i
      BY <1>4 DEF SinkInv, CursorInv, Fits
    <2>3. /\ window' \in Seq(Nat) /\ Len(window') = Len(window)
          /\ \A i \in 1 .. cursor + n : window'[i] = i
      BY <1>1, <2>1, <2>2 DEF SinkInv, SinkTypeOK
    <2>4. SinkTypeOK'
      BY <1>1, <2>1, <2>3 DEF SinkInv, SinkTypeOK
    <2>5. CursorInv' /\ PerWriteInv'
      BY <1>4, <2>1, <2>2, <2>3 DEF SinkInv, CursorInv, PerWriteInv, Pre
    <2> QED BY <2>1, <2>4, <2>5 DEF SinkInv, NothingUninitialised
  <1> QED BY <1>2, <1>3, <1>4

LEMMA FinishKeepsSinkInv ==
    ASSUME SinkInv, Finish \/ Unwind
    PROVE  SinkInv'
  BY WrittenFacts, NothingNumbered, EndKeepsSinkInv DEF Finish, Unwind, Panic

LEMMA StepSinkInv == SinkInv /\ [Next]_vars => SinkInv'
  <1>1. SinkInv /\ UNCHANGED vars => SinkInv'
    BY DEF SinkInv, SinkTypeOK, CursorInv, PerWriteInv, NothingUninitialised, Pre, vars
  <1> QED BY <1>1, StartKeepsSinkInv, PutKeepsSinkInv, FinishKeepsSinkInv DEF Next, Full

LEMMA SpecSinkInv == Spec => []SinkInv
  BY InitSinkInv, StepSinkInv, PTL DEF Spec

-----------------------------------------------------------------------------
\* What was in the space before is never published, whatever sizes are
\* announced, however much write_to puts and wherever it panics.
THEOREM SinkInitialised == Spec => []NothingUninitialised
  <1>1. SinkInv => NothingUninitialised
    BY DEF SinkInv
  <1> QED BY <1>1, SpecSinkInv, PTL

\* The message that ends leaves nothing, or everything that was produced.
LEMMA EndWhole ==
    ASSUME SinkInv, path # "idle", kind = "bufmut",
           NEW outcome \in {"ok", "panic"}, NEW bytes \in Seq(Nat),
           outcome = "panic" => bytes = <<>>,
           outcome = "ok" => Len(bytes) = produced,
           Len(bytes) <= size, End(outcome, bytes)
    PROVE  LET last == published'[Len(published')] IN
           /\ outcomes'[Len(outcomes')] = "panic" => last = <<>>
           /\ outcomes'[Len(outcomes')] = "ok" => Len(last) = produced
           /\ Len(last) <= size
  <1>1. Pre
    BY DEF SinkInv, SinkTypeOK, PerWriteInv, Pre
  <1>2. published'[Len(published')] = bytes
    BY <1>1 DEF End, SinkInv, SinkTypeOK
  <1>3. outcomes'[Len(outcomes')] = outcome
    BY DEF End, SinkInv, SinkTypeOK
  <1> QED BY <1>2, <1>3

\* A message of a BufMut is in the sink whole or not at all.
THEOREM SinkAllOrNothing == Spec => AllOrNothing
  <1> DEFINE Whole ==
        path # "idle" /\ path' = "idle" /\ kind = "bufmut" =>
          LET last == published'[Len(published')] IN
          /\ outcomes'[Len(outcomes')] = "panic" => last = <<>>
          /\ outcomes'[Len(outcomes')] = "ok" => Len(last) = produced
          /\ Len(last) <= size
  <1>1. ASSUME SinkInv, [Next]_vars, ~ UNCHANGED vars PROVE Whole
    <2> SUFFICES ASSUME path # "idle", path' = "idle", kind = "bufmut"
                 PROVE  Whole
      OBVIOUS
    <2>1. Pre
      BY <1>1 DEF SinkInv, SinkTypeOK, PerWriteInv, Pre
    <2>2. CASE Panic
      <3>1. <<>> \in Seq(Nat) /\ Len(<<>>) <= size
        BY <1>1 DEF SinkInv, SinkTypeOK
      <3> QED BY <1>1, <2>2, <3>1, EndWhole DEF Panic
    <2>3. CASE End("ok", Written)
      BY <1>1, <2>1, <2>3, WrittenFacts, EndWhole DEF Numbered
    <2>4. Panic \/ End("ok", Written)
      <3>1. \A n, chunk : ~ WriteContiguous(n, chunk)
        BY DEF WriteContiguous
      <3>2. ASSUME NEW n \in PutSizes, Put(n) PROVE Panic
        BY <2>1, <3>2 DEF Put
      <3> QED BY <1>1, <3>1, <3>2 DEF Next, Finish, Unwind, Full
    <2> QED BY <2>2, <2>3, <2>4
  <1>2. SinkInv /\ [Next]_vars => [Whole]_vars
    BY <1>1
  <1> QED BY <1>2, SpecSinkInv, PTL DEF Spec, AllOrNothing
=============================================================================
