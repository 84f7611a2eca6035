---------------------------- MODULE Varint_proofs ----------------------------
(***************************************************************************)
(* What a varint's bytes are worth and where reading one ends, for any     *)
(* buffer, size of group and longest encoding, and the facts about         *)
(* recursive functions on the naturals that this rests on.                 *)
(***************************************************************************)
EXTENDS Varint, FiniteSetTheorems, TLAPS

(***************************************************************************)
(* Induction and recursion over the naturals, by the least element of a    *)
(* set: the facts about the loops that are recursive functions rest on it. *)
(***************************************************************************)
\* Among the members of a set of naturals there is a least one.
LEMMA Least ==
    ASSUME NEW T \in SUBSET Nat, T # {}
    PROVE  \E m \in T : \A k \in T : m <= k
  <1>1. PICK m \in T : \A k \in T : ~ (<<k, m>> \in OpToRel(<, Nat))
    BY NatLessThanWellFounded, WFMin
  <1>2. \A k \in T : ~ (k < m)
    BY <1>1 DEF OpToRel
  <1> QED BY <1>2

\* Induction: a set of naturals with zero and every successor has them all.
LEMMA Induction ==
    ASSUME NEW S, 0 \in S, \A n \in Nat : n \in S => n + 1 \in S
    PROVE  Nat \subseteq S
  <1> DEFINE T == Nat \ S
  <1> SUFFICES ASSUME T # {} PROVE FALSE
    OBVIOUS
  <1>1. T \subseteq Nat
    OBVIOUS
  <1> HIDE DEF T
  <1>2. PICK m \in T : \A k \in T : m <= k
    BY <1>1, Least
  <1>3. \A k \in T : ~ (k < m)
    BY <1>1, <1>2
  <1> USE DEF T
  <1>4. m # 0 /\ m \in Nat /\ m - 1 \in Nat /\ m - 1 < m
    OBVIOUS
  <1>5. m - 1 \in S
    BY <1>3, <1>4
  <1>6. (m - 1) + 1 \in S
    BY <1>4, <1>5
  <1> QED BY <1>4, <1>6

\* What takes the value before n to the one at n.
Steps(V) == [Nat -> [V -> V]]

\* The first values of the function that starts at a and goes on by step.
Beginning(V, a, step, n, h) ==
    /\ h \in [0 .. n -> V] /\ h[0] = a
    /\ \A i \in 1 .. n : h[i] = step[i][h[i - 1]]

LEMMA BeginningExists ==
    ASSUME NEW V, NEW a \in V, NEW step \in Steps(V)
    PROVE  \A n \in Nat : \E h : Beginning(V, a, step, n, h)
  <1> DEFINE S == {k \in Nat : \E h : Beginning(V, a, step, k, h)}
  <1>1. 0 \in S
    <2>1. Beginning(V, a, step, 0, [i \in 0 .. 0 |-> a])
      BY DEF Beginning
    <2> QED BY <2>1
  <1>2. ASSUME NEW n \in Nat, n \in S PROVE n + 1 \in S
    <2>1. PICK h : Beginning(V, a, step, n, h)
      BY <1>2
    <2> DEFINE m == n + 1
               v == step[m][h[n]]
               more == [i \in 0 .. m |-> IF i = m THEN v ELSE h[i]]
    <2>2. h \in [0 .. n -> V] /\ h[0] = a /\ h[n] \in V /\ v \in V
      BY <2>1 DEF Beginning, Steps
    <2>3. more \in [0 .. m -> V] /\ more[0] = a
      <3> HIDE DEF v
      <3> QED BY <2>2
    <2>4. ASSUME NEW i \in 1 .. m PROVE more[i] = step[i][more[i - 1]]
      <3>1. i - 1 \in 0 .. n /\ i - 1 # m
        OBVIOUS
      <3>2. more[i - 1] = h[i - 1]
        BY <3>1
      <3>3. CASE i = m
        <4>1. more[i] = v /\ i - 1 = n
          BY <3>3
        <4> QED BY <3>2, <3>3, <4>1
      <3>4. CASE i # m
        <4>1. more[i] = h[i] /\ i \in 1 .. n
          BY <3>4
        <4> QED BY <2>1, <3>2, <4>1 DEF Beginning
      <3> QED BY <3>3, <3>4
    <2>5. Beginning(V, a, step, m, more)
      BY <2>3, <2>4 DEF Beginning
    <2> QED BY <2>5
  <1> HIDE DEF S
  <1>3. Nat \subseteq S
    BY <1>1, <1>2, Induction
  <1> QED BY <1>3 DEF S

LEMMA BeginningUnique ==
    ASSUME NEW V, NEW a, NEW step, NEW n \in Nat, NEW g, NEW h,
           Beginning(V, a, step, n, g), Beginning(V, a, step, n + 1, h)
    PROVE  g[n] = h[n]
  <1> DEFINE S == {k \in Nat : k <= n => g[k] = h[k]}
  <1>1. 0 \in S
    BY DEF Beginning
  <1>2. ASSUME NEW k \in Nat, k \in S PROVE k + 1 \in S
    <2> SUFFICES ASSUME k + 1 <= n PROVE g[k + 1] = h[k + 1]
      OBVIOUS
    <2>1. k + 1 \in 1 .. n /\ k + 1 \in 1 .. n + 1 /\ (k + 1) - 1 = k
      OBVIOUS
    <2>2. g[k] = h[k]
      BY <1>2
    <2>3. g[k + 1] = step[k + 1][g[k]] /\ h[k + 1] = step[k + 1][h[k]]
      BY <2>1 DEF Beginning
    <2> QED BY <2>2, <2>3
  <1> HIDE DEF S
  <1>3. Nat \subseteq S
    BY <1>1, <1>2, Induction
  <1> QED BY <1>3 DEF S

\* The function on the naturals with value a at zero and step from each value to
\* the next.
Recursive(V, a, step, g) ==
    /\ g \in [Nat -> V] /\ g[0] = a
    /\ \A n \in Nat : g[n + 1] = step[n + 1][g[n]]

\* A function on the naturals may be defined by its value at zero and a step
\* from each value to the next.
LEMMA Recursion ==
    ASSUME NEW V, NEW a \in V, NEW step \in Steps(V)
    PROVE  \E g : Recursive(V, a, step, g)
  <1> DEFINE P(n, h) == Beginning(V, a, step, n, h)
  <1>1. PICK of : \A n \in Nat : P(n, of[n])
    <2> DEFINE f == [n \in Nat |-> CHOOSE h : P(n, h)]
    <2>1. \A n \in Nat : P(n, f[n])
      BY BeginningExists
    <2> QED BY <2>1
  <1> DEFINE g == [n \in Nat |-> of[n][n]]
  <1>2. g \in [Nat -> V] /\ g[0] = a
    BY <1>1 DEF Beginning
  <1>3. ASSUME NEW n \in Nat PROVE g[n + 1] = step[n + 1][g[n]]
    <2>1. n + 1 \in Nat /\ n + 1 \in 1 .. n + 1 /\ (n + 1) - 1 = n
      OBVIOUS
    <2>2. of[n + 1][n + 1] = step[n + 1][of[n + 1][n]]
      BY <1>1, <2>1 DEF Beginning
    <2>3. of[n][n] = of[n + 1][n]
      <3>1. P(n, of[n]) /\ P(n + 1, of[n + 1])
        BY <1>1, <2>1
      <3> QED BY <3>1, BeginningUnique
    <2> QED BY <2>1, <2>2, <2>3
  <1> HIDE DEF g
  <1>4. Recursive(V, a, step, g)
    BY <1>2, <1>3 DEF Recursive
  <1> QED BY <1>4

LEMMA WeightFacts ==
    /\ Weight \in [Nat -> Nat]
    /\ Weight[0] = 1
    /\ \A n \in Nat : Weight[n + 1] = Group * Weight[n]
  <1>1. PICK step :
            /\ step \in Steps(Nat)
            /\ \A n, x \in Nat : step[n][x] = Group * x
    <2> DEFINE f == [n \in Nat |-> [x \in Nat |-> Group * x]]
    <2>1. f \in [Nat -> [Nat -> Nat]] /\ \A n, x \in Nat : f[n][x] = Group * x
      BY VarintAssumption
    <2> QED BY <2>1 DEF Steps
  <1>2. PICK g \in [Nat -> Nat] :
            g[0] = 1 /\ \A n \in Nat : g[n + 1] = Group * g[n]
    <2>1. PICK g : Recursive(Nat, 1, step, g)
      BY <1>1, Recursion
    <2>2. ASSUME NEW n \in Nat PROVE g[n + 1] = Group * g[n]
      <3>1. n + 1 \in Nat /\ g[n] \in Nat /\ g[n + 1] = step[n + 1][g[n]]
        BY <2>1 DEF Recursive
      <3> QED BY <1>1, <3>1
    <2> QED BY <2>1, <2>2 DEF Recursive
  <1>3. g = [n \in Nat |-> IF n = 0 THEN 1 ELSE Group * g[n - 1]]
    <2>1. ASSUME NEW n \in Nat
          PROVE  g[n] = IF n = 0 THEN 1 ELSE Group * g[n - 1]
      <3>1. CASE n = 0
        BY <1>2, <3>1
      <3>2. CASE n # 0
        <4>1. PICK m \in Nat : n = m + 1
          <5>1. n - 1 \in Nat /\ n = (n - 1) + 1
            BY <3>2
          <5> QED BY <5>1
        <4> QED BY <1>2, <4>1
      <3> QED BY <3>1, <3>2
    <2> QED BY <2>1
  <1>4. Weight = [n \in Nat |-> IF n = 0 THEN 1 ELSE Group * Weight[n - 1]]
    BY <1>3 DEF Weight
  <1>5. Weight[0] = 1 /\ \A n \in Nat : Weight[n + 1] = Group * Weight[n]
    <2>1. \A n \in Nat : Weight[n] = IF n = 0 THEN 1 ELSE Group * Weight[n - 1]
      BY <1>4
    <2>2. \A n \in Nat : n + 1 \in Nat /\ n + 1 # 0 /\ (n + 1) - 1 = n
      OBVIOUS
    <2> QED BY <2>1, <2>2, Zenon
  <1> DEFINE S == {n \in Nat : Weight[n] \in Nat}
  <1>6. Nat \subseteq S
    <2>1. 0 \in S
      BY <1>5
    <2>2. ASSUME NEW n \in Nat, n \in S PROVE n + 1 \in S
      BY <1>5, <2>2, VarintAssumption
    <2> HIDE DEF S
    <2> QED BY <2>1, <2>2, Induction
  <1> QED BY <1>4, <1>5, <1>6

-----------------------------------------------------------------------------
(***************************************************************************)
(* What the reads return.                                                  *)
(***************************************************************************)
\* The sums of the first n groups, none included at first.
SumsOf(d, p, n, s) ==
    /\ s \in [0 .. n -> Nat] /\ s[0] = 0
    /\ \A i \in 1 .. n : s[i] = s[i - 1] + (d[p + i - 1] % Group) * Weight[i - 1]

LEMMA GroupSumDefined ==
    ASSUME NEW d \in Seq(Nat), NEW p \in Nat \ {0}, NEW n \in Nat,
           p + n - 1 <= Len(d)
    PROVE  \E s : SumsOf(d, p, n, s) /\ GroupSum(d, p, n) = s[n]
  <1> DEFINE next(i, x) == x + (d[p + i - 1] % Group) * Weight[i - 1]
  <1>1. ASSUME NEW i \in 1 .. n, NEW x \in Nat PROVE next(i, x) \in Nat
    <2>1. p + i - 1 \in 1 .. Len(d) /\ i - 1 \in Nat
      OBVIOUS
    <2>2. d[p + i - 1] \in Nat /\ Weight[i - 1] \in Nat
      <3>1. \A j \in 1 .. Len(d) : d[j] \in Nat
        OBVIOUS
      <3> QED BY <2>1, <3>1, WeightFacts
    <2>3. d[p + i - 1] % Group \in Nat
      BY <2>2, VarintAssumption
    <2>4. \A a, b \in Nat : x + a * b \in Nat
      OBVIOUS
    <2> QED BY <2>2, <2>3, <2>4
  <1>2. PICK step : /\ step \in Steps(Nat)
                    /\ \A i \in 1 .. n, x \in Nat : step[i][x] = next(i, x)
    <2> DEFINE f == [i \in Nat |-> [x \in Nat |->
                        IF i \in 1 .. n THEN next(i, x) ELSE 0]]
    <2> HIDE DEF next
    <2>1. f \in [Nat -> [Nat -> Nat]]
      BY <1>1
    <2>2. \A i \in 1 .. n, x \in Nat : f[i][x] = next(i, x)
      OBVIOUS
    <2> QED BY <2>1, <2>2 DEF Steps
  <1>3. PICK g : /\ g \in [Nat -> Nat] /\ g[0] = 0
                 /\ \A i \in Nat : g[i + 1] = step[i + 1][g[i]]
    <2>1. PICK g : Recursive(Nat, 0, step, g)
      BY <1>2, Recursion
    <2> QED BY <2>1 DEF Recursive
  <1> DEFINE h == [i \in 0 .. n |-> g[i]]
  <1>4. ASSUME NEW i \in 0 .. n
        PROVE  h[i] = IF i = 0 THEN 0 ELSE next(i, h[i - 1])
    <2>1. CASE i = 0
      BY <1>3, <2>1
    <2>2. CASE i # 0
      <3>1. i - 1 \in Nat /\ i - 1 \in 0 .. n /\ i \in 1 .. n /\ (i - 1) + 1 = i
        BY <2>2
      <3> HIDE DEF next
      <3>2. g[i] = step[i][g[i - 1]] /\ g[i - 1] \in Nat
        BY <1>3, <3>1
      <3>3. g[i] = next(i, g[i - 1])
        BY <1>2, <3>1, <3>2
      <3> QED BY <2>2, <3>1, <3>3
    <2> QED BY <2>1, <2>2
  <1>5. h = [i \in 0 .. n |-> IF i = 0 THEN 0 ELSE next(i, h[i - 1])]
    <2>1. h = [i \in 0 .. n |-> h[i]]
      OBVIOUS
    <2> HIDE DEF h, next
    <2> QED BY <1>4, <2>1
  <1> DEFINE sum == CHOOSE s :
                      s = [i \in 0 .. n |-> IF i = 0 THEN 0 ELSE next(i, s[i - 1])]
  <1>6. sum = [i \in 0 .. n |-> IF i = 0 THEN 0 ELSE next(i, sum[i - 1])]
    <2> HIDE DEF h, next
    <2> QED BY <1>5
  <1>7. GroupSum(d, p, n) = sum[n]
    BY DEF GroupSum
  <1> HIDE DEF sum
  <1>8. sum[0] = 0 /\ \A i \in 1 .. n : sum[i] = next(i, sum[i - 1])
    <2>1. 0 \in 0 .. n /\ \A i \in 1 .. n : i \in 0 .. n /\ i # 0
      OBVIOUS
    <2> HIDE DEF next
    <2> QED BY <1>6, <2>1
  <1> DEFINE S == {i \in Nat : i <= n => sum[i] \in Nat}
  <1>9. Nat \subseteq S
    <2>1. 0 \in S
      BY <1>8
    <2>2. ASSUME NEW i \in Nat, i \in S PROVE i + 1 \in S
      <3> SUFFICES ASSUME i + 1 <= n PROVE sum[i + 1] \in Nat
        OBVIOUS
      <3>1. i + 1 \in 1 .. n /\ (i + 1) - 1 = i
        OBVIOUS
      <3>2. sum[i] \in Nat
        BY <2>2
      <3> HIDE DEF next
      <3>3. sum[i + 1] = next(i + 1, sum[i])
        BY <1>8, <3>1
      <3> QED BY <1>1, <3>1, <3>2, <3>3
    <2> HIDE DEF S
    <2> QED BY <2>1, <2>2, Induction
  <1>10. sum \in [0 .. n -> Nat]
    <2>1. \A i \in 0 .. n : sum[i] \in Nat
      BY <1>9
    <2> HIDE DEF next
    <2> QED BY <1>6, <2>1
  <1>11. SumsOf(d, p, n, sum)
    BY <1>8, <1>10 DEF SumsOf
  <1> QED BY <1>7, <1>11

LEMMA GroupSumType ==
    ASSUME NEW d \in Seq(Nat), NEW p \in Nat \ {0}, NEW n \in Nat,
           p + n - 1 <= Len(d)
    PROVE  GroupSum(d, p, n) \in Nat
  <1>1. PICK s : SumsOf(d, p, n, s) /\ GroupSum(d, p, n) = s[n]
    BY GroupSumDefined
  <1> QED BY <1>1 DEF SumsOf

\* One more group.
LEMMA GroupSumNext ==
    ASSUME NEW d \in Seq(Nat), NEW p \in Nat \ {0}, NEW n \in Nat,
           p + n <= Len(d)
    PROVE  /\ GroupSum(d, p, 0) = 0
           /\ GroupSum(d, p, n + 1)
                = GroupSum(d, p, n) + (d[p + n] % Group) * Weight[n]
  <1>1. /\ p + n - 1 <= Len(d) /\ p + (n + 1) - 1 <= Len(d) /\ n + 1 \in Nat
        /\ p + 0 - 1 <= Len(d) /\ 0 \in Nat
    OBVIOUS
  <1>2. PICK z : SumsOf(d, p, 0, z) /\ GroupSum(d, p, 0) = z[0]
    BY <1>1, GroupSumDefined
  <1>3. PICK s : SumsOf(d, p, n, s) /\ GroupSum(d, p, n) = s[n]
    BY <1>1, GroupSumDefined
  <1>4. PICK t : SumsOf(d, p, n + 1, t) /\ GroupSum(d, p, n + 1) = t[n + 1]
    BY <1>1, GroupSumDefined
  <1> DEFINE S == {k \in Nat : k <= n => s[k] = t[k]}
  <1>5. Nat \subseteq S
    <2>1. 0 \in S
      BY <1>3, <1>4 DEF SumsOf
    <2>2. ASSUME NEW k \in Nat, k \in S PROVE k + 1 \in S
      <3> SUFFICES ASSUME k + 1 <= n PROVE s[k + 1] = t[k + 1]
        OBVIOUS
      <3>1. k + 1 \in 1 .. n /\ k + 1 \in 1 .. n + 1 /\ (k + 1) - 1 = k
        OBVIOUS
      <3>2. s[k] = t[k]
        BY <2>2
      <3> DEFINE more == (d[p + (k + 1) - 1] % Group) * Weight[k]
      <3>3. s[k + 1] = s[k] + more
        BY <1>3, <3>1 DEF SumsOf
      <3>4. t[k + 1] = t[k] + more
        BY <1>4, <3>1 DEF SumsOf
      <3> HIDE DEF more
      <3> QED BY <3>2, <3>3, <3>4
    <2> HIDE DEF S
    <2> QED BY <2>1, <2>2, Induction
  <1>6. s[n] = t[n]
    BY <1>5
  <1>7. t[n + 1] = t[n] + (d[p + n] % Group) * Weight[n]
    <2>1. n + 1 \in 1 .. n + 1 /\ (n + 1) - 1 = n /\ p + (n + 1) - 1 = p + n
      OBVIOUS
    <2>2. t[n + 1] = t[(n + 1) - 1]
                       + (d[p + (n + 1) - 1] % Group) * Weight[(n + 1) - 1]
      BY <1>4, <2>1 DEF SumsOf
    <2> QED BY <2>1, <2>2
  <1>8. GroupSum(d, p, 0) = 0
    BY <1>2 DEF SumsOf
  <1> QED BY <1>3, <1>4, <1>6, <1>7, <1>8

ReadErrors == {"ok", "eof", "varint_too_long"}

\* A read that succeeds ends within the bound.
ReadIn(r, p, bound) ==
    /\ r.v \in Nat /\ r.err \in ReadErrors
    /\ r.err = "ok" => r.next \in (p + 1) .. (bound + 1)

LEMMA ReadVarintFacts ==
    ASSUME NEW d \in Seq(Nat), NEW p \in Nat \ {0}, NEW bound \in Nat,
           bound <= Len(d)
    PROVE  ReadIn(ReadVarint(d, p, bound), p, bound)
  <1> DEFINE stops == Stops(d, p, bound)
  <1>1. CASE stops = {}
    BY <1>1 DEF ReadVarint, ReadErr, ReadErrors, ReadIn
  <1>2. CASE stops # {}
    <2>1. stops \subseteq Nat
      BY VarintAssumption DEF Stops
    <2>2. \E m \in stops : \A k \in stops : m <= k
      BY <1>2, <2>1, Least
    <2>3. PICK n : n = CHOOSE m \in stops : \A k \in stops : m <= k
      OBVIOUS
    <2>4. n \in stops
      BY <2>2, <2>3
    <2>5. n \in Nat /\ n >= 1 /\ p + n - 1 <= bound
      BY <2>4, VarintAssumption DEF Stops
    <2>6. GroupSum(d, p, n) \in Nat
      BY <2>5, GroupSumType
    <2>7. ReadVarint(d, p, bound) =
            IF n = MaxVarintBytes /\ d[p + n - 1] > 1
              THEN ReadErr("varint_too_long")
              ELSE ReadOk(GroupSum(d, p, n), p + n)
      BY <1>2, <2>3 DEF ReadVarint
    <2>8. p + n \in (p + 1) .. (bound + 1)
      BY <2>5
    <2>9. ReadIn(ReadOk(GroupSum(d, p, n), p + n), p, bound)
      BY <2>6, <2>8 DEF ReadOk, ReadErrors, ReadIn
    <2>10. ReadIn(ReadErr("varint_too_long"), p, bound)
      BY DEF ReadErr, ReadErrors, ReadIn
    <2> QED BY <2>7, <2>9, <2>10
  <1> QED BY <1>1, <1>2

\* Where a varint ends, it is read.
LEMMA ReadVarintEnds ==
    ASSUME NEW d, NEW p \in Nat \ {0}, NEW bound \in Nat, NEW n \in Nat \ {0},
           n <= MaxVarintBytes, p + n - 1 <= bound,
           n = MaxVarintBytes \/ d[p + n - 1] < Group,
           \A i \in Nat \ {0} : i < n => ~ (d[p + i - 1] < Group)
    PROVE  ReadVarint(d, p, bound) =
             IF n = MaxVarintBytes /\ d[p + n - 1] > 1
               THEN ReadErr("varint_too_long")
               ELSE ReadOk(GroupSum(d, p, n), p + n)
  <1> DEFINE stops == Stops(d, p, bound)
             least == CHOOSE k \in stops : \A j \in stops : k <= j
  <1>1. n \in stops
    BY VarintAssumption DEF Stops
  <1>2. ASSUME NEW j \in stops PROVE j \in Nat /\ n <= j
    <2>1. j \in Nat \ {0} /\ j <= MaxVarintBytes
          /\ (j = MaxVarintBytes \/ d[p + j - 1] < Group)
      BY VarintAssumption DEF Stops
    <2> QED BY <2>1, VarintAssumption
  <1> HIDE DEF stops
  <1>3. least \in stops /\ \A j \in stops : least <= j
    BY <1>1, <1>2
  <1>4. least = n
    <2> HIDE DEF least
    <2>1. least \in Nat /\ least <= n /\ n <= least
      BY <1>1, <1>2, <1>3
    <2> QED BY <2>1
  <1>5. ReadVarint(d, p, bound) =
          IF least = MaxVarintBytes /\ d[p + least - 1] > 1
            THEN ReadErr("varint_too_long")
            ELSE ReadOk(GroupSum(d, p, least), p + least)
    BY <1>1 DEF ReadVarint, stops
  <1> HIDE DEF least
  <1> QED BY <1>4, <1>5

\* A varint that ends nowhere before the bound is not read.
LEMMA ReadVarintEof ==
    ASSUME NEW d, NEW p \in Nat \ {0}, NEW bound \in Nat,
           \A i \in Nat \ {0} : p + i - 1 <= bound =>
                i < MaxVarintBytes /\ ~ (d[p + i - 1] < Group)
    PROVE  ReadVarint(d, p, bound) = ReadErr("eof")
  <1>1. Stops(d, p, bound) = {}
    <2> SUFFICES ASSUME NEW i \in Stops(d, p, bound) PROVE FALSE
      OBVIOUS
    <2>1. /\ i \in Nat \ {0} /\ p + i - 1 <= bound
          /\ i = MaxVarintBytes \/ d[p + i - 1] < Group
      BY VarintAssumption DEF Stops
    <2>2. i < MaxVarintBytes /\ ~ (d[p + i - 1] < Group)
      BY <2>1
    <2> QED BY <2>1, <2>2, VarintAssumption
  <1> QED BY <1>1 DEF ReadVarint
=============================================================================
