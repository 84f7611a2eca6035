------------------------ MODULE DescriptorPool_proofs ------------------------
(***************************************************************************)
(* What a DescriptorPool promises, proved for any files: the slots of the  *)
(* two walks agree, the tables of a pool describe the same definitions,    *)
(* references respect the imports, and what the passes check one by one    *)
(* holds of the whole pool.                                                *)
(***************************************************************************)
EXTENDS DescriptorPool, Varint_proofs

(***************************************************************************)
(* Sequences and functions.                                                *)
(***************************************************************************)
LEMMA SeqFacts ==
    ASSUME NEW s, IsSeq(s)
    PROVE  /\ Len(s) \in Nat /\ DOMAIN s = 1 .. Len(s)
           /\ \A i \in 1 .. Len(s) : s[i] \in Range(s)
           /\ Range(s) = {s[i] : i \in 1 .. Len(s)}
           /\ (Len(s) = 0) = (s = <<>>)
  BY DEF IsSeq, Range

LEMMA SeqOver ==
    ASSUME NEW T, NEW s \in Seq(T)
    PROVE  IsSeq(s) /\ Range(s) \subseteq T
  <1>1. Len(s) \in Nat /\ DOMAIN s = 1 .. Len(s) /\ s = [i \in 1 .. Len(s) |-> s[i]]
    OBVIOUS
  <1>2. Range(s) \subseteq T
    BY <1>1 DEF Range
  <1>3. \A i \in 1 .. Len(s) : s[i] \in Range(s)
    BY <1>1 DEF Range
  <1>4. s \in [1 .. Len(s) -> Range(s)]
    BY <1>1, <1>3
  <1> QED BY <1>1, <1>2, <1>4 DEF IsSeq

\* A function on 1 .. n is a sequence.
LEMMA SeqMade ==
    ASSUME NEW n \in Nat, NEW s, DOMAIN s = 1 .. n, s = [i \in 1 .. n |-> s[i]]
    PROVE  IsSeq(s) /\ Len(s) = n
  <1>1. \A i \in 1 .. n : s[i] \in Range(s)
    BY DEF Range
  <1>2. s \in [1 .. n -> Range(s)]
    BY <1>1
  <1>3. s \in Seq(Range(s))
    BY <1>2
  <1> QED BY <1>2, <1>3 DEF IsSeq

LEMMA AppendFacts ==
    ASSUME NEW s, IsSeq(s), NEW x
    PROVE  /\ IsSeq(Append(s, x)) /\ Len(Append(s, x)) = Len(s) + 1
           /\ \A i \in 1 .. Len(s) : Append(s, x)[i] = s[i]
           /\ Append(s, x)[Len(s) + 1] = x
           /\ Range(Append(s, x)) = Range(s) \cup {x}
  <1> DEFINE T == Range(s) \cup {x}
             t == Append(s, x)
  <1>1. s \in Seq(T)
    <2>1. s \in Seq(Range(s))
      BY DEF IsSeq
    <2> QED BY <2>1
  <1>2. x \in T
    OBVIOUS
  <1> HIDE DEF T
  <1>3. /\ t \in Seq(T) /\ Len(t) = Len(s) + 1 /\ Len(s) \in Nat
        /\ \A i \in 1 .. Len(s) : t[i] = s[i]
        /\ t[Len(s) + 1] = x
    BY <1>1, <1>2
  <1>4. IsSeq(t)
    BY <1>3, SeqOver
  <1>5. DOMAIN t = 1 .. Len(s) + 1 /\ DOMAIN s = 1 .. Len(s)
    BY <1>1, <1>3
  <1> HIDE DEF t
  <1>6. Range(t) = Range(s) \cup {x}
    <2>1. \A i \in 1 .. Len(s) + 1 : i \in 1 .. Len(s) \/ i = Len(s) + 1
      BY <1>3
    <2>2. \A i \in 1 .. Len(s) : i \in 1 .. Len(s) + 1
      BY <1>3
    <2>3. Len(s) + 1 \in 1 .. Len(s) + 1
      BY <1>3
    <2> QED BY <1>3, <1>5, <2>1, <2>2, <2>3 DEF Range
  <1> QED BY <1>3, <1>4, <1>6 DEF t

LEMMA ConcatFacts ==
    ASSUME NEW s, NEW t, IsSeq(s), IsSeq(t)
    PROVE  /\ IsSeq(s \o t) /\ Len(s \o t) = Len(s) + Len(t)
           /\ \A i \in 1 .. Len(s) : (s \o t)[i] = s[i]
           /\ \A i \in 1 .. Len(t) : (s \o t)[Len(s) + i] = t[i]
           /\ Range(s \o t) = Range(s) \cup Range(t)
  <1> DEFINE T == Range(s) \cup Range(t)
             u == s \o t
  <1>1. s \in Seq(T) /\ t \in Seq(T)
    <2>1. s \in Seq(Range(s)) /\ t \in Seq(Range(t))
      BY DEF IsSeq
    <2> QED BY <2>1
  <1> HIDE DEF T
  <1>2. /\ u \in Seq(T) /\ Len(u) = Len(s) + Len(t)
        /\ Len(s) \in Nat /\ Len(t) \in Nat
        /\ \A i \in 1 .. Len(s) : u[i] = s[i]
        /\ \A i \in 1 .. Len(t) : u[Len(s) + i] = t[i]
    BY <1>1
  <1>3. IsSeq(u)
    BY <1>2, SeqOver
  <1>4. /\ DOMAIN u = 1 .. Len(s) + Len(t)
        /\ DOMAIN s = 1 .. Len(s) /\ DOMAIN t = 1 .. Len(t)
    BY <1>1, <1>2
  <1> HIDE DEF u
  <1>5. Range(u) \subseteq Range(s) \cup Range(t)
    <2> SUFFICES ASSUME NEW i \in 1 .. Len(s) + Len(t)
                 PROVE  u[i] \in Range(s) \cup Range(t)
      BY <1>4 DEF Range
    <2>1. CASE i \in 1 .. Len(s)
      BY <1>2, <1>4, <2>1 DEF Range
    <2>2. CASE i \notin 1 .. Len(s)
      <3>1. i - Len(s) \in 1 .. Len(t) /\ Len(s) + (i - Len(s)) = i
        BY <1>2, <2>2
      <3> QED BY <1>2, <1>4, <3>1 DEF Range
    <2> QED BY <2>1, <2>2
  <1>6. Range(s) \cup Range(t) \subseteq Range(u)
    <2>1. \A i \in 1 .. Len(s) : i \in 1 .. Len(s) + Len(t)
      BY <1>2
    <2>2. \A i \in 1 .. Len(t) : Len(s) + i \in 1 .. Len(s) + Len(t)
      BY <1>2
    <2> QED BY <1>2, <1>4, <2>1, <2>2 DEF Range
  <1> QED BY <1>2, <1>3, <1>5, <1>6 DEF u

LEMMA TailFacts ==
    ASSUME NEW s, IsSeq(s), s # <<>>
    PROVE  /\ IsSeq(Tail(s)) /\ Head(s) = s[1]
           /\ Range(s) = {Head(s)} \cup Range(Tail(s))
  <1> DEFINE t == Tail(s)
  <1>1. s \in Seq(Range(s))
    BY DEF IsSeq
  <1>2. /\ t \in Seq(Range(s)) /\ Len(s) \in Nat \ {0} /\ Len(t) = Len(s) - 1
        /\ Head(s) = s[1] /\ \A i \in 1 .. Len(s) - 1 : t[i] = s[i + 1]
        /\ DOMAIN s = 1 .. Len(s)
    BY <1>1
  <1>3. IsSeq(t) /\ DOMAIN t = 1 .. Len(s) - 1
    <2>1. DOMAIN t = 1 .. Len(t)
      BY <1>2
    <2>2. IsSeq(t)
      BY <1>2, SeqOver
    <2> QED BY <1>2, <2>1, <2>2
  <1> HIDE DEF t
  <1>4. Range(s) \subseteq {s[1]} \cup Range(t)
    <2> SUFFICES ASSUME NEW i \in 1 .. Len(s), i # 1 PROVE s[i] \in Range(t)
      BY <1>2 DEF Range
    <2>1. i - 1 \in 1 .. Len(s) - 1 /\ (i - 1) + 1 = i
      BY <1>2
    <2> QED BY <1>2, <1>3, <2>1 DEF Range
  <1>5. {s[1]} \cup Range(t) \subseteq Range(s)
    <2>1. 1 \in 1 .. Len(s) /\ \A i \in 1 .. Len(s) - 1 : i + 1 \in 1 .. Len(s)
      BY <1>2
    <2> QED BY <1>2, <1>3, <2>1 DEF Range
  <1> QED BY <1>2, <1>3, <1>4, <1>5 DEF t

\* The first error is "ok" only if none of the errors is another.
LEMMA FirstOk ==
    ASSUME NEW n \in Nat, NEW errs, DOMAIN errs = 1 .. n, First(errs) = "ok"
    PROVE  \A i \in 1 .. n : errs[i] = "ok"
  <1> SUFFICES ASSUME ~ \A i \in 1 .. n : errs[i] = "ok" PROVE FALSE
    OBVIOUS
  <1> DEFINE T == {i \in 1 .. n : errs[i] # "ok"}
  <1>1. T # {} /\ T \in SUBSET Nat
    OBVIOUS
  <1> HIDE DEF T
  <1>2. PICK m \in T : \A k \in T : m <= k
    BY <1>1, Least
  <1> USE DEF T
  <1>3. \A j \in 1 .. m - 1 : errs[j] = "ok"
    BY <1>2
  <1>4. m \in DOMAIN errs /\ errs[m] # "ok" /\ \A j \in 1 .. m - 1 : errs[j] = "ok"
    BY <1>2, <1>3
  <1> HIDE DEF T
  <1> DEFINE c == CHOOSE i \in DOMAIN errs :
                 errs[i] # "ok" /\ \A j \in 1 .. i - 1 : errs[j] = "ok"
  <1>5. c \in DOMAIN errs /\ errs[c] # "ok"
    BY <1>4
  <1>6. First(errs) = errs[c]
    BY DEF First
  <1> QED BY <1>5, <1>6

LEMMA FirstOf2 ==
    ASSUME NEW a, NEW b, First(<<a, b>>) = "ok"
    PROVE  a = "ok" /\ b = "ok"
  <1>1. DOMAIN <<a, b>> = 1 .. 2
    OBVIOUS
  <1>2. \A i \in 1 .. 2 : <<a, b>>[i] = "ok"
    BY <1>1, FirstOk
  <1>3. <<a, b>>[1] = "ok" /\ <<a, b>>[2] = "ok"
    BY <1>2
  <1> QED BY <1>3

LEMMA FirstOf4 ==
    ASSUME NEW a, NEW b, NEW c, NEW d, First(<<a, b, c, d>>) = "ok"
    PROVE  a = "ok" /\ b = "ok" /\ c = "ok" /\ d = "ok"
  <1> DEFINE s == <<a, b, c, d>>
  <1>1. DOMAIN s = 1 .. 4
    OBVIOUS
  <1>2. s[1] = a /\ s[2] = b /\ s[3] = c /\ s[4] = d
    OBVIOUS
  <1> HIDE DEF s
  <1>3. \A i \in 1 .. 4 : s[i] = "ok"
    BY <1>1, FirstOk DEF s
  <1> QED BY <1>2, <1>3

LEMMA FirstOf5 ==
    ASSUME NEW a, NEW b, NEW c, NEW d, NEW e, First(<<a, b, c, d, e>>) = "ok"
    PROVE  a = "ok" /\ b = "ok" /\ c = "ok" /\ d = "ok" /\ e = "ok"
  <1> DEFINE s == <<a, b, c, d, e>>
  <1>1. DOMAIN s = 1 .. 5
    OBVIOUS
  <1>2. s[1] = a /\ s[2] = b /\ s[3] = c /\ s[4] = d /\ s[5] = e
    OBVIOUS
  <1> HIDE DEF s
  <1>3. \A i \in 1 .. 5 : s[i] = "ok"
    BY <1>1, FirstOk DEF s
  <1> QED BY <1>2, <1>3

\* A sequence of sequences in a row has what they have.
LEMMA FlattenFacts ==
    ASSUME NEW n \in Nat, NEW s, DOMAIN s = 1 .. n, s = [i \in 1 .. n |-> s[i]],
           \A i \in 1 .. n : IsSeq(s[i])
    PROVE  /\ IsSeq(FlattenSeq(s))
           /\ Range(FlattenSeq(s)) = UNION {Range(s[i]) : i \in 1 .. n}
  <1> DEFINE T == UNION {Range(s[i]) : i \in 1 .. n}
             V == Seq(T)
  <1>0. IsSeq(s) /\ Len(s) = n
    BY SeqMade
  <1>1. CASE n = 0
    <2>1. s = <<>>
      BY <1>0, <1>1, SeqFacts
    <2>2. FlattenSeq(s) = <<>>
      BY <1>0, <1>1, <2>1 DEF FlattenSeq
    <2>3. IsSeq(<<>>) /\ Range(<<>>) = {}
      <3>1. <<>> \in Seq({})
        OBVIOUS
      <3>2. DOMAIN <<>> = {}
        OBVIOUS
      <3>3. Range(<<>>) = {}
        BY <3>2 DEF Range
      <3> QED BY <3>1, <3>3 DEF IsSeq
    <2>4. T = {}
      <3>1. ~ \E i : i \in 1 .. n
        BY <1>1
      <3> QED BY <3>1
    <2> QED BY <2>2, <2>3, <2>4
  <1>2. CASE n # 0
    <2>1. \A i \in 1 .. n : s[i] \in V
      <3> SUFFICES ASSUME NEW i \in 1 .. n PROVE s[i] \in Seq(T)
        OBVIOUS
      <3>1. s[i] \in Seq(Range(s[i])) /\ Range(s[i]) \subseteq T
        BY DEF IsSeq
      <3> HIDE DEF T
      <3> QED BY <3>1
    <2> HIDE DEF T
    <2>2. \A x \in V : \A i \in 1 .. n : x \o s[i] \in V
      BY <2>1
    <2>3. <<>> \in V
      OBVIOUS
    <2> DEFINE step == [i \in Nat |-> [x \in V |->
                           IF i \in 1 .. n THEN x \o s[i] ELSE x]]
    <2>4. step \in Steps(V)
      <3> HIDE DEF V
      <3> QED BY <2>2 DEF Steps
    <2>5. PICK g : Recursive(V, <<>>, step, g)
      <3> HIDE DEF V, step
      <3> QED BY <2>3, <2>4, Recursion
    <2>6. /\ g[0] = <<>> /\ \A i \in Nat : g[i] \in V
          /\ \A i \in 1 .. n : g[i] = g[i - 1] \o s[i]
      <3> HIDE DEF V
      <3>1. g \in [Nat -> V] /\ g[0] = <<>>
        BY <2>5 DEF Recursive
      <3>2. ASSUME NEW i \in 1 .. n PROVE g[i] = g[i - 1] \o s[i]
        <4>1. i - 1 \in Nat /\ (i - 1) + 1 = i /\ i \in Nat
          OBVIOUS
        <4>2. g[i] = step[i][g[i - 1]] /\ g[i - 1] \in V
          <5> HIDE DEF step
          <5> QED BY <2>5, <4>1 DEF Recursive
        <4> QED BY <4>1, <4>2
      <3> QED BY <3>1, <3>2
    <2> DEFINE h == [i \in 1 .. n |-> g[i]]
               flat == CHOOSE f : f = [i \in 1 .. n |->
                                         IF i = 1 THEN s[i] ELSE f[i - 1] \o s[i]]
    <2>7. h = [i \in 1 .. n |-> IF i = 1 THEN s[i] ELSE h[i - 1] \o s[i]]
      <3>1. ASSUME NEW i \in 1 .. n
            PROVE  h[i] = IF i = 1 THEN s[i] ELSE h[i - 1] \o s[i]
        <4>1. CASE i = 1
          <5>1. 1 \in 1 .. n /\ 1 - 1 = 0
            BY <4>1
          <5>2. g[1] = g[0] \o s[1]
            BY <2>6, <5>1
          <5>3. s[1] \in V
            BY <2>1, <5>1
          <5>4. <<>> \o s[1] = s[1]
            BY <5>3
          <5> QED BY <2>6, <4>1, <5>2, <5>4
        <4>2. CASE i # 1
          <5>1. i - 1 \in 1 .. n
            BY <4>2
          <5> QED BY <2>6, <4>2, <5>1
        <4> QED BY <4>1, <4>2
      <3>2. h = [i \in 1 .. n |-> h[i]]
        OBVIOUS
      <3> HIDE DEF h
      <3> QED BY <3>1, <3>2
    <2>8. flat = [i \in 1 .. n |-> IF i = 1 THEN s[i] ELSE flat[i - 1] \o s[i]]
      <3> HIDE DEF h
      <3> QED BY <2>7
    <2>9. FlattenSeq(s) = flat[n]
      BY <1>0, <1>2 DEF FlattenSeq
    <2> HIDE DEF flat, h
    <2>10. /\ flat[1] = s[1]
           /\ \A i \in 1 .. n : i # 1 => flat[i] = flat[i - 1] \o s[i]
      <3>1. 1 \in 1 .. n
        BY <1>2
      <3> QED BY <2>8, <3>1
    <2> DEFINE U(i) == UNION {Range(s[j]) : j \in 1 .. i}
               S == {i \in Nat : i \in 1 .. n => IsSeq(flat[i]) /\ Range(flat[i]) = U(i)}
    <2>11. Nat \subseteq S
      <3>1. 0 \in S
        OBVIOUS
      <3>2. ASSUME NEW i \in Nat, i \in S PROVE i + 1 \in S
        <4> SUFFICES ASSUME i + 1 \in 1 .. n
                     PROVE  IsSeq(flat[i + 1]) /\ Range(flat[i + 1]) = U(i + 1)
          OBVIOUS
        <4>1. (i + 1) - 1 = i
          OBVIOUS
        <4>2. CASE i = 0
          <5>1. \A j : j \in 1 .. i + 1 <=> j = 1
            BY <4>2
          <5> QED BY <2>10, <4>2, <5>1
        <4>3. CASE i # 0
          <5>1. i \in 1 .. n /\ i + 1 # 1
            BY <4>3
          <5>2. IsSeq(flat[i]) /\ Range(flat[i]) = U(i)
            BY <3>2, <5>1
          <5>3. flat[i + 1] = flat[i] \o s[i + 1] /\ IsSeq(s[i + 1])
            BY <2>10, <4>1, <5>1
          <5>4. /\ IsSeq(flat[i + 1])
                /\ Range(flat[i + 1]) = U(i) \cup Range(s[i + 1])
            <6> HIDE DEF U
            <6> QED BY <5>2, <5>3, ConcatFacts
          <5>5. U(i + 1) = U(i) \cup Range(s[i + 1])
            <6>1. \A j : j \in 1 .. i + 1 <=> (j \in 1 .. i \/ j = i + 1)
              OBVIOUS
            <6> QED BY <6>1
          <5> QED BY <5>4, <5>5
        <4> QED BY <4>2, <4>3
      <3> HIDE DEF S
      <3> QED BY <3>1, <3>2, Induction
    <2>12. n \in S /\ n \in 1 .. n
      <3> HIDE DEF S
      <3> QED BY <1>2, <2>11
    <2> QED BY <2>9, <2>12
  <1> QED BY <1>1, <1>2

(***************************************************************************)
(* The files of a call and what they see.                                  *)
(***************************************************************************)
LEMMA NewFilesFacts ==
    ASSUME NEW P, NEW set, IsSeq(set)
    PROVE  NewFiles(P, set) \in Seq(Range(set))
  <1> DEFINE V == Seq(Range(set))
             next(i, x) == IF i <= Len(set) /\ IsNew(P, set[i])
                             THEN Append(x, set[i]) ELSE x
             step == [i \in Nat |-> [x \in V |-> IF i = 0 THEN x ELSE next(i, x)]]
  <1>1. Len(set) \in Nat /\ <<>> \in V
        /\ \A i \in 1 .. Len(set) : set[i] \in Range(set)
    BY SeqFacts
  <1>2. \A i \in Nat \ {0}, x \in V : next(i, x) \in V
    <2> SUFFICES ASSUME NEW i \in Nat \ {0}, NEW x \in V PROVE next(i, x) \in V
      OBVIOUS
    <2>1. CASE i <= Len(set) /\ IsNew(P, set[i])
      <3>1. set[i] \in Range(set)
        BY <1>1, <2>1
      <3>2. Append(x, set[i]) \in V
        BY <3>1
      <3> QED BY <2>1, <3>2
    <2>2. CASE ~ (i <= Len(set) /\ IsNew(P, set[i]))
      BY <2>2
    <2> QED BY <2>1, <2>2
  <1> HIDE DEF V, next
  <1>3. step \in Steps(V)
    BY <1>2 DEF Steps
  <1>4. PICK g : Recursive(V, <<>>, step, g)
    <2> HIDE DEF step
    <2> QED BY <1>1, <1>3, Recursion
  <1> DEFINE new == CHOOSE f : f = [i \in Nat |->
                       IF i = 0 THEN <<>> ELSE next(i, f[i - 1])]
  <1>5. /\ g \in [Nat -> V] /\ g[0] = <<>>
        /\ \A i \in Nat : g[i + 1] = step[i + 1][g[i]]
    <2> HIDE DEF step
    <2> QED BY <1>4 DEF Recursive
  <1>6. g = [i \in Nat |-> IF i = 0 THEN <<>> ELSE next(i, g[i - 1])]
    <2>1. ASSUME NEW i \in Nat, i # 0 PROVE g[i] = next(i, g[i - 1])
      <3>1. i - 1 \in Nat /\ (i - 1) + 1 = i
        BY <2>1
      <3>2. g[i - 1] \in V /\ g[i] = step[i][g[i - 1]]
        <4> HIDE DEF step
        <4> QED BY <1>5, <3>1
      <3> QED BY <2>1, <3>2
    <2>2. g = [i \in Nat |-> g[i]]
      BY <1>5
    <2> HIDE DEF step
    <2> QED BY <1>5, <2>1, <2>2
  <1>7. new = [i \in Nat |-> IF i = 0 THEN <<>> ELSE next(i, new[i - 1])]
    BY <1>6
  <1>8. NewFiles(P, set) = new[Len(set)]
    BY DEF NewFiles, next
  <1> HIDE DEF new, step
  <1> DEFINE S == {i \in Nat : new[i] \in V}
  <1>9. Nat \subseteq S
    <2>1. 0 \in S
      BY <1>1, <1>7
    <2>2. ASSUME NEW i \in Nat, i \in S PROVE i + 1 \in S
      <3>1. i + 1 \in Nat \ {0} /\ (i + 1) - 1 = i
        OBVIOUS
      <3>2. new[i + 1] = next(i + 1, new[i])
        BY <1>7, <3>1
      <3> QED BY <1>2, <2>2, <3>1, <3>2
    <2> HIDE DEF S
    <2> QED BY <2>1, <2>2, Induction
  <1> QED BY <1>1, <1>8, <1>9 DEF V

\* The staged pool with the files that it is to have.
Whole == [staged EXCEPT !.files = @ \o news]

\* What a file sees, all sets with its imports and their public imports have.
LEMMA VisibleClosed ==
    ASSUME NEW a, NEW b \in VisibleFiles(a), b # a, NEW S,
           Imports(a) \subseteq S, \A i \in S : Reexports(i) \subseteq S,
           Base \in Nat, Len(news) \in Nat
    PROVE  b \in S
  <1> DEFINE V == SUBSET Range(staged.fileByName)
             next(seen) == seen \cup UNION {Reexports(j) : j \in seen \ {a}}
             step == [i \in Nat |-> [x \in V |-> next(x)]]
             n == Base + Len(news)
  <1>1. Imports(a) \in V /\ \A x \in V : next(x) \in V
    BY DEF Imports, Reexports, Known, Range
  <1> HIDE DEF V
  <1>2. step \in Steps(V)
    <2> HIDE DEF next
    <2> QED BY <1>1 DEF Steps
  <1>3. PICK g : Recursive(V, Imports(a), step, g)
    <2> HIDE DEF step
    <2> QED BY <1>1, <1>2, Recursion
  <1> DEFINE grow == CHOOSE f : f = [i \in Nat |->
                       IF i = 0 THEN Imports(a) ELSE next(f[i - 1])]
  <1>5. /\ g \in [Nat -> V] /\ g[0] = Imports(a)
        /\ \A i \in Nat : g[i + 1] = step[i + 1][g[i]]
    <2> HIDE DEF step
    <2> QED BY <1>3 DEF Recursive
  <1> HIDE DEF next
  <1>6. g = [i \in Nat |-> IF i = 0 THEN Imports(a) ELSE next(g[i - 1])]
    <2>1. ASSUME NEW i \in Nat, i # 0 PROVE g[i] = next(g[i - 1])
      <3>1. i - 1 \in Nat /\ (i - 1) + 1 = i
        BY <2>1
      <3>2. g[i - 1] \in V /\ g[i] = step[i][g[i - 1]]
        <4> HIDE DEF step
        <4> QED BY <1>5, <3>1
      <3> QED BY <2>1, <3>2
    <2>2. g = [i \in Nat |-> g[i]]
      BY <1>5
    <2> HIDE DEF step
    <2> QED BY <1>5, <2>1, <2>2
  <1>7. grow = [i \in Nat |-> IF i = 0 THEN Imports(a) ELSE next(grow[i - 1])]
    BY <1>6
  <1>8. VisibleFiles(a) = {a} \cup grow[n]
    BY DEF VisibleFiles, next
  <1> HIDE DEF grow, step
  <1> DEFINE T == {i \in Nat : grow[i] \subseteq S}
  <1>9. Nat \subseteq T
    <2>1. 0 \in T
      BY <1>7
    <2>2. ASSUME NEW i \in Nat, i \in T PROVE i + 1 \in T
      <3>1. i + 1 \in Nat \ {0} /\ (i + 1) - 1 = i
        OBVIOUS
      <3>2. grow[i + 1] = next(grow[i])
        BY <1>7, <3>1
      <3>3. next(grow[i]) \subseteq S
        BY <2>2 DEF next
      <3> QED BY <3>2, <3>3
    <2> HIDE DEF T
    <2> QED BY <2>1, <2>2, Induction
  <1>10. n \in T
    <2> HIDE DEF T
    <2> QED BY <1>9
  <1> QED BY <1>8, <1>10

LEMMA VisibleSees ==
    ASSUME {"files", "fileByName"} \subseteq DOMAIN staged,
           IsSeq(staged.files), IsSeq(news),
           NEW a \in 1 .. Len(staged.files) + Len(news), NEW b \in VisibleFiles(a)
    PROVE  MaySee(Whole, a, b)
  <1>1. /\ Whole.files = staged.files \o news
        /\ Whole.fileByName = staged.fileByName
    BY DEF Whole
  <1>2. Len(staged.files) \in Nat /\ Len(news) \in Nat
    BY SeqFacts
  <1>3. DOMAIN Whole.files = 1 .. Len(staged.files) + Len(news)
    <2>1. IsSeq(Whole.files) /\ Len(Whole.files) = Len(staged.files) + Len(news)
      BY <1>1, ConcatFacts
    <2> QED BY <2>1, SeqFacts
  <1>4. \A i \in 1 .. Len(staged.files) + Len(news) : Whole.files[i] = FileAt(i)
    <2> SUFFICES ASSUME NEW i \in 1 .. Len(staged.files) + Len(news)
                 PROVE  Whole.files[i] = FileAt(i)
      OBVIOUS
    <2>1. CASE i <= Len(staged.files)
      <3>1. i \in 1 .. Len(staged.files) /\ ~ (i > Len(staged.files))
        BY <1>2, <2>1
      <3>2. (staged.files \o news)[i] = staged.files[i]
        BY <3>1, ConcatFacts
      <3> QED BY <1>1, <3>1, <3>2 DEF FileAt, Base
    <2>2. CASE ~ (i <= Len(staged.files))
      <3>1. i - Len(staged.files) \in 1 .. Len(news) /\ i > Len(staged.files)
            /\ Len(staged.files) + (i - Len(staged.files)) = i
        BY <1>2, <2>2
      <3>2. (staged.files \o news)[i] = news[i - Len(staged.files)]
        BY <3>1, ConcatFacts
      <3> QED BY <1>1, <3>1, <3>2 DEF FileAt, Base
    <2> QED BY <2>1, <2>2
  <1> SUFFICES ASSUME b # a, NEW S \in SUBSET DOMAIN Whole.files,
                      Known(Whole, Range(Whole.files[a].deps)) \subseteq S,
                      \A i \in S : Public(Whole, i) \subseteq S
               PROVE  b \in S
    BY DEF MaySee
  <1>5. Imports(a) \subseteq S
    BY <1>1, <1>4 DEF Imports, Known
  <1>6. \A i \in S : Reexports(i) \subseteq S
    <2> SUFFICES ASSUME NEW i \in S PROVE Reexports(i) \subseteq S
      OBVIOUS
    <2>1. Whole.files[i] = FileAt(i) /\ Public(Whole, i) \subseteq S
      BY <1>3, <1>4
    <2>2. Public(Whole, i) = Reexports(i)
      BY <1>1, <2>1 DEF Public, Reexports, Known
    <2> QED BY <2>1, <2>2
  <1> QED BY <1>2, <1>5, <1>6, VisibleClosed DEF Base

(***************************************************************************)
(* Features and items.                                                     *)
(***************************************************************************)
FeatsOK(feats) == "enum" \in DOMAIN feats /\ feats.enum \in {"open", "closed"}

LEMMA MergeFeats ==
    ASSUME NEW parent, FeatsOK(parent), NEW override, Overrides(override)
    PROVE  FeatsOK(Merge(parent, override))
  BY DEF FeatsOK, Overrides, Merge

LEMMA ForFileFeats ==
    ASSUME NEW file, Overrides(file.feats)
    PROVE  FeatsOK(ForFile(file))
  <1>1. FeatsOK(Proto2Defaults) /\ FeatsOK(Proto3Defaults) /\ FeatsOK(Edition2023)
    BY DEF FeatsOK, Proto2Defaults, Proto3Defaults, Edition2023
  <1> DEFINE like == IF file.syntax = "editions" THEN file.edition ELSE file.syntax
             base == CASE like \in {Absent, "proto2", "legacy"} -> Proto2Defaults
                       [] like = "proto3"                  -> Proto3Defaults
                       [] OTHER                            -> Edition2023
  <1>2. base \in {Proto2Defaults, Proto3Defaults, Edition2023}
    <2> HIDE DEF like
    <2>1. like = "proto3" => like \notin {Absent, "proto2", "legacy"}
      BY DEF Absent
    <2> QED BY <2>1
  <1>3. ForFile(file) = Merge(base, file.feats)
    BY DEF ForFile
  <1> HIDE DEF base
  <1>4. FeatsOK(base)
    BY <1>1, <1>2
  <1> QED BY <1>3, <1>4, MergeFeats

ItemOf(k, d, parent, file, feats) ==
    [k |-> k, d |-> d, parent |-> parent, file |-> file, feats |-> feats]

LEMMA ItemsFacts ==
    ASSUME NEW k, NEW ds, IsSeq(ds), NEW parent, NEW file, NEW feats
    PROVE  /\ IsSeq(Items(k, ds, parent, file, feats))
           /\ Range(Items(k, ds, parent, file, feats))
                = {ItemOf(k, d, parent, file, feats) : d \in Range(ds)}
  <1> DEFINE s == Items(k, ds, parent, file, feats)
  <1>1. Len(ds) \in Nat /\ DOMAIN ds = 1 .. Len(ds)
    BY SeqFacts
  <1>2. s = [i \in 1 .. Len(ds) |-> ItemOf(k, ds[i], parent, file, feats)]
    BY <1>1 DEF Items, ItemOf
  <1> HIDE DEF s
  <1>3. DOMAIN s = 1 .. Len(ds) /\ s = [i \in 1 .. Len(ds) |-> s[i]]
    BY <1>2
  <1>4. IsSeq(s)
    BY <1>1, <1>3, SeqMade
  <1>5. Range(s) = {ItemOf(k, d, parent, file, feats) : d \in Range(ds)}
    BY <1>1, <1>2 DEF Range
  <1> QED BY <1>4, <1>5 DEF s

\* What the visit of an item puts in front of the worklist, in every pass.
Expand(item) ==
    CASE item.k = "message" -> NestedTypes(item)
      [] item.k = "nested"  ->
            Items("extension", item.d.extensions, Fqn(item), item.file,
                  ItemFeats(item))
              \o Items("nested", item.d.nested, Fqn(item), item.file,
                       ItemFeats(item))
      [] OTHER -> <<>>

\* The numbers of the new files.
NewNumbers == Len(pool.files) + 1 .. Len(pool.files) + Len(news)

Kinds == {"message", "enum", "service", "extension", "nested"}
ItemOK(item) ==
    /\ item.k \in Kinds /\ FeatsOK(item.feats)
    /\ item.k \in {"message", "nested"} => item.d \in MessageDefs
    /\ item.k = "enum" => Overrides(item.d.feats) /\ IsSeq(item.d.values)
    /\ item.k = "service" => IsSeq(item.d.methods)
    /\ item.k = "extension" => item.d.number \in Int

LEMMA ExpandFacts ==
    ASSUME NEW item, ItemOK(item)
    PROVE  /\ IsSeq(Expand(item))
           /\ \A x \in Range(Expand(item)) :
                /\ ItemOK(x) /\ x.file = item.file
                /\ item.k = "message" => x.k \in {"message", "enum"}
                /\ item.k = "nested" => x.k \in {"extension", "nested"}
           /\ item.k \notin {"message", "nested"} => Expand(item) = <<>>
  <1> DEFINE fqn == Fqn(item)
             feats == ItemFeats(item)
             file == item.file
  <1>e. IsSeq(<<>>) /\ Range(<<>>) = {}
    <2>1. <<>> \in Seq({}) /\ DOMAIN <<>> = {}
      OBVIOUS
    <2> QED BY <2>1 DEF IsSeq, Range
  <1>1. CASE item.k \in {"message", "nested"}
    <2> DEFINE d == item.d
    <2>1. /\ Encloses(d) /\ d \in MessageDefs /\ d.nested \in Seq(MessageDefs)
      BY <1>1, FilesAssumption DEF ItemOK
    <2> HIDE DEF d
    <2>2. /\ IsSeq(d.nested) /\ Range(d.nested) \subseteq MessageDefs
          /\ IsSeq(d.enums) /\ IsSeq(d.extensions) /\ Overrides(d.feats)
          /\ \A enum \in Range(d.enums) : Overrides(enum.feats) /\ IsSeq(enum.values)
          /\ \A f \in Range(d.extensions) : f.number \in Int
      BY <2>1, SeqOver DEF Encloses
    <2>3. FeatsOK(feats)
      BY <2>2, MergeFeats DEF ItemFeats, ItemOK, d
    <2> HIDE DEF feats, fqn, file
    <2> DEFINE M == Items("message", d.nested, fqn, file, feats)
               E == Items("enum", d.enums, fqn, file, feats)
               X == Items("extension", d.extensions, fqn, file, feats)
               N == Items("nested", d.nested, fqn, file, feats)
    <2>4. /\ IsSeq(M) /\ Range(M) = {ItemOf("message", x, fqn, file, feats) : x \in Range(d.nested)}
          /\ IsSeq(E) /\ Range(E) = {ItemOf("enum", x, fqn, file, feats) : x \in Range(d.enums)}
          /\ IsSeq(X) /\ Range(X) = {ItemOf("extension", x, fqn, file, feats) : x \in Range(d.extensions)}
          /\ IsSeq(N) /\ Range(N) = {ItemOf("nested", x, fqn, file, feats) : x \in Range(d.nested)}
      <3>1. IsSeq(M) /\ Range(M) = {ItemOf("message", x, fqn, file, feats) : x \in Range(d.nested)}
        BY <2>2, ItemsFacts
      <3>2. IsSeq(E) /\ Range(E) = {ItemOf("enum", x, fqn, file, feats) : x \in Range(d.enums)}
        BY <2>2, ItemsFacts
      <3>3. IsSeq(X) /\ Range(X) = {ItemOf("extension", x, fqn, file, feats) : x \in Range(d.extensions)}
        BY <2>2, ItemsFacts
      <3>4. IsSeq(N) /\ Range(N) = {ItemOf("nested", x, fqn, file, feats) : x \in Range(d.nested)}
        BY <2>2, ItemsFacts
      <3> QED BY <3>1, <3>2, <3>3, <3>4
    <2>5. Expand(item) = IF item.k = "message" THEN M \o E ELSE X \o N
      BY <1>1 DEF Expand, NestedTypes, d, fqn, file, feats
    <2> HIDE DEF M, E, X, N
    <2>6. /\ IsSeq(M \o E) /\ Range(M \o E) = Range(M) \cup Range(E)
          /\ IsSeq(X \o N) /\ Range(X \o N) = Range(X) \cup Range(N)
      BY <2>4, ConcatFacts
    <2>7. /\ \A x \in Range(M) : ItemOK(x) /\ x.file = file /\ x.k = "message"
          /\ \A x \in Range(E) : ItemOK(x) /\ x.file = file /\ x.k = "enum"
          /\ \A x \in Range(X) : ItemOK(x) /\ x.file = file /\ x.k = "extension"
          /\ \A x \in Range(N) : ItemOK(x) /\ x.file = file /\ x.k = "nested"
      BY <2>2, <2>3, <2>4 DEF ItemOK, ItemOf, Kinds
    <2>8. CASE item.k = "message"
      BY <2>5, <2>6, <2>7, <2>8 DEF file
    <2>9. CASE item.k = "nested"
      BY <2>5, <2>6, <2>7, <2>9 DEF file
    <2> QED BY <1>1, <2>8, <2>9
  <1>2. CASE item.k \notin {"message", "nested"}
    BY <1>2, <1>e DEF Expand
  <1> QED BY <1>1, <1>2

\* A message as the walk over services and extensions has it, and back.
AsNested(item) == ItemOf("nested", item.d, item.parent, item.file, item.feats)
AsMessage(item) == ItemOf("message", item.d, item.parent, item.file, item.feats)
Messages(items) == {x \in items : x.k = "message"}

NestedOf(file, i) ==
    Items("nested", file.messages, file.package, i, ForFile(file))

LEMMA FileItems ==
    ASSUME scenario \in Scenarios, NEW file \in scenario, NEW i
    PROVE  /\ IsSeq(Types(file, i)) /\ IsSeq(Declarations(file, i))
           /\ IsSeq(NestedOf(file, i))
           /\ Range(NestedOf(file, i)) = {AsNested(x) : x \in Messages(Range(Types(file, i)))}
           /\ \A x \in Range(Types(file, i)) :
                /\ ItemOK(x) /\ x.file = i /\ x.k \in {"message", "enum"}
                /\ x.k = "message" => AsMessage(AsNested(x)) = x
           /\ \A x \in Range(Declarations(file, i)) :
                ItemOK(x) /\ x.file = i /\ x.k \in {"service", "extension"}
  <1> DEFINE feats == ForFile(file)
             pkg == file.package
             M == Items("message", file.messages, pkg, i, feats)
             E == Items("enum", file.enums, pkg, i, feats)
             S == Items("service", file.services, pkg, i, feats)
             X == Items("extension", file.extensions, pkg, i, feats)
             N == Items("nested", file.messages, pkg, i, feats)
  <1>1. /\ IsSeq(file.messages) /\ Range(file.messages) \subseteq MessageDefs
        /\ IsSeq(file.enums) /\ IsSeq(file.extensions) /\ IsSeq(file.services)
        /\ Overrides(file.feats)
        /\ \A enum \in Range(file.enums) : Overrides(enum.feats) /\ IsSeq(enum.values)
        /\ \A svc \in Range(file.services) : IsSeq(svc.methods)
        /\ \A f \in Range(file.extensions) : f.number \in Int
    <2>1. /\ Encloses(file) /\ file.messages \in Seq(MessageDefs)
          /\ IsSeq(file.services) /\ \A svc \in Range(file.services) : IsSeq(svc.methods)
      BY FilesAssumption
    <2> QED BY <2>1, SeqOver DEF Encloses
  <1>2. FeatsOK(feats)
    BY <1>1, ForFileFeats
  <1>3. /\ Types(file, i) = M \o E /\ Declarations(file, i) = S \o X
        /\ NestedOf(file, i) = N
    BY DEF Types, Declarations, NestedOf
  <1> HIDE DEF feats, pkg
  <1>4. /\ IsSeq(M) /\ Range(M) = {ItemOf("message", d, pkg, i, feats) : d \in Range(file.messages)}
        /\ IsSeq(E) /\ Range(E) = {ItemOf("enum", d, pkg, i, feats) : d \in Range(file.enums)}
        /\ IsSeq(S) /\ Range(S) = {ItemOf("service", d, pkg, i, feats) : d \in Range(file.services)}
        /\ IsSeq(X) /\ Range(X) = {ItemOf("extension", d, pkg, i, feats) : d \in Range(file.extensions)}
        /\ IsSeq(N) /\ Range(N) = {ItemOf("nested", d, pkg, i, feats) : d \in Range(file.messages)}
    <2>1. IsSeq(M) /\ Range(M) = {ItemOf("message", d, pkg, i, feats) : d \in Range(file.messages)}
      BY <1>1, ItemsFacts, SMTT(30)
    <2>2. IsSeq(E) /\ Range(E) = {ItemOf("enum", d, pkg, i, feats) : d \in Range(file.enums)}
      BY <1>1, ItemsFacts, SMTT(30)
    <2>3. IsSeq(S) /\ Range(S) = {ItemOf("service", d, pkg, i, feats) : d \in Range(file.services)}
      BY <1>1, ItemsFacts, SMTT(30)
    <2>4. IsSeq(X) /\ Range(X) = {ItemOf("extension", d, pkg, i, feats) : d \in Range(file.extensions)}
      BY <1>1, ItemsFacts, SMTT(30)
    <2>5. IsSeq(N) /\ Range(N) = {ItemOf("nested", d, pkg, i, feats) : d \in Range(file.messages)}
      BY <1>1, ItemsFacts, SMTT(30)
    <2> QED BY <2>1, <2>2, <2>3, <2>4, <2>5
  <1> HIDE DEF M, E, S, X, N
  <1>5. /\ IsSeq(M \o E) /\ Range(M \o E) = Range(M) \cup Range(E)
        /\ IsSeq(S \o X) /\ Range(S \o X) = Range(S) \cup Range(X)
    BY <1>4, ConcatFacts
  <1>6. /\ \A x \in Range(M) : ItemOK(x) /\ x.file = i /\ x.k = "message"
        /\ \A x \in Range(E) : ItemOK(x) /\ x.file = i /\ x.k = "enum"
        /\ \A x \in Range(S) : ItemOK(x) /\ x.file = i /\ x.k = "service"
        /\ \A x \in Range(X) : ItemOK(x) /\ x.file = i /\ x.k = "extension"
    BY <1>1, <1>2, <1>4 DEF ItemOK, ItemOf, Kinds
  <1>7. \A x \in Range(M) : AsMessage(AsNested(x)) = x
    BY <1>4 DEF AsMessage, AsNested, ItemOf
  <1>8. Messages(Range(M \o E)) = Range(M)
    BY <1>5, <1>6 DEF Messages
  <1>9. Range(N) = {AsNested(x) : x \in Range(M)}
    <2>1. \A d : AsNested(ItemOf("message", d, pkg, i, feats)) = ItemOf("nested", d, pkg, i, feats)
      BY DEF AsNested, ItemOf
    <2> QED BY <1>4, <2>1
  <1>10. \A x \in Range(M \o E) : x.k = "message" => x \in Range(M)
    BY <1>5, <1>6
  <1> QED BY <1>3, <1>4, <1>5, <1>6, <1>7, <1>8, <1>9, <1>10

Decls(files) ==
    UNION {Range(Declarations(files[i], Len(pool.files) + i)) : i \in DOMAIN files}

\* What the passes begin with.
LEMMA RootFacts ==
    ASSUME scenario \in Scenarios, NEW files \in Seq(scenario), Len(pool.files) \in Nat
    PROVE  /\ IsSeq(AllTypes(files)) /\ IsSeq(AllServices(files))
           /\ IsSeq(AllDefinitions(files))
           /\ Range(AllDefinitions(files)) = Range(AllTypes(files)) \cup Decls(files)
           /\ Range(AllServices(files))
                = Decls(files) \cup {AsNested(x) : x \in Messages(Range(AllTypes(files)))}
           /\ \A x \in Range(AllTypes(files)) :
                /\ ItemOK(x) /\ x.k \in {"message", "enum"}
                /\ x.file \in Len(pool.files) + 1 .. Len(pool.files) + Len(files)
                /\ x.k = "message" => AsMessage(AsNested(x)) = x
           /\ \A x \in Decls(files) :
                /\ ItemOK(x) /\ x.k \in {"service", "extension"}
                /\ x.file \in Len(pool.files) + 1 .. Len(pool.files) + Len(files)
  <1> DEFINE n == Len(files)
             b == Len(pool.files)
             T(i) == Types(files[i], b + i)
             D(i) == Declarations(files[i], b + i)
             N(i) == NestedOf(files[i], b + i)
             ts == [i \in 1 .. n |-> T(i)]
             ss == [i \in 1 .. n |-> D(i) \o N(i)]
             ds == [i \in 1 .. n |-> T(i) \o D(i)]
  <1>1. n \in Nat /\ DOMAIN files = 1 .. n /\ \A i \in 1 .. n : files[i] \in scenario
    OBVIOUS
  <1>2. \A i \in 1 .. n : b + i \in b + 1 .. b + n
    BY <1>1
  <1>3. \A i \in 1 .. n :
           /\ IsSeq(T(i)) /\ IsSeq(D(i)) /\ IsSeq(N(i))
           /\ Range(N(i)) = {AsNested(x) : x \in Messages(Range(T(i)))}
           /\ \A x \in Range(T(i)) :
                /\ ItemOK(x) /\ x.file = b + i /\ x.k \in {"message", "enum"}
                /\ x.k = "message" => AsMessage(AsNested(x)) = x
           /\ \A x \in Range(D(i)) :
                ItemOK(x) /\ x.file = b + i /\ x.k \in {"service", "extension"}
    <2> SUFFICES ASSUME NEW i \in 1 .. n
                 PROVE
           /\ IsSeq(T(i)) /\ IsSeq(D(i)) /\ IsSeq(N(i))
           /\ Range(N(i)) = {AsNested(x) : x \in Messages(Range(T(i)))}
           /\ \A x \in Range(T(i)) :
                /\ ItemOK(x) /\ x.file = b + i /\ x.k \in {"message", "enum"}
                /\ x.k = "message" => AsMessage(AsNested(x)) = x
           /\ \A x \in Range(D(i)) :
                ItemOK(x) /\ x.file = b + i /\ x.k \in {"service", "extension"}
      OBVIOUS
    <2>1. files[i] \in scenario
      BY <1>1
    <2> QED BY <2>1, FileItems
  <1>4. /\ AllTypes(files) = FlattenSeq(ts)
        /\ AllServices(files) = FlattenSeq(ss)
        /\ AllDefinitions(files) = FlattenSeq(ds)
    BY <1>1 DEF AllTypes, AllServices, AllDefinitions, NestedOf
  <1>5. Decls(files) = UNION {Range(D(i)) : i \in 1 .. n}
    BY <1>1 DEF Decls
  <1> HIDE DEF T, D, N, n, b
  <1>6. \A i \in 1 .. n :
           /\ IsSeq(D(i) \o N(i)) /\ Range(D(i) \o N(i)) = Range(D(i)) \cup Range(N(i))
           /\ IsSeq(T(i) \o D(i)) /\ Range(T(i) \o D(i)) = Range(T(i)) \cup Range(D(i))
    BY <1>3, ConcatFacts
  <1>7. /\ DOMAIN ts = 1 .. n /\ ts = [i \in 1 .. n |-> ts[i]]
        /\ \A i \in 1 .. n : ts[i] = T(i) /\ IsSeq(ts[i])
        /\ DOMAIN ss = 1 .. n /\ ss = [i \in 1 .. n |-> ss[i]]
        /\ \A i \in 1 .. n : ss[i] = D(i) \o N(i) /\ IsSeq(ss[i])
        /\ DOMAIN ds = 1 .. n /\ ds = [i \in 1 .. n |-> ds[i]]
        /\ \A i \in 1 .. n : ds[i] = T(i) \o D(i) /\ IsSeq(ds[i])
    BY <1>3, <1>6
  <1> HIDE DEF ts, ss, ds
  <1>8. /\ IsSeq(FlattenSeq(ts)) /\ Range(FlattenSeq(ts)) = UNION {Range(ts[i]) : i \in 1 .. n}
        /\ IsSeq(FlattenSeq(ss)) /\ Range(FlattenSeq(ss)) = UNION {Range(ss[i]) : i \in 1 .. n}
        /\ IsSeq(FlattenSeq(ds)) /\ Range(FlattenSeq(ds)) = UNION {Range(ds[i]) : i \in 1 .. n}
    BY <1>1, <1>7, FlattenFacts
  <1>9. /\ Range(FlattenSeq(ts)) = UNION {Range(T(i)) : i \in 1 .. n}
        /\ Range(FlattenSeq(ss)) = UNION {Range(D(i)) \cup Range(N(i)) : i \in 1 .. n}
        /\ Range(FlattenSeq(ds)) = UNION {Range(T(i)) \cup Range(D(i)) : i \in 1 .. n}
    <2>1. \A i \in 1 .. n : /\ Range(ts[i]) = Range(T(i))
                            /\ Range(ss[i]) = Range(D(i)) \cup Range(N(i))
                            /\ Range(ds[i]) = Range(T(i)) \cup Range(D(i))
      BY <1>6, <1>7
    <2>2. {Range(ts[i]) : i \in 1 .. n} = {Range(T(i)) : i \in 1 .. n}
      BY <2>1
    <2>3. {Range(ss[i]) : i \in 1 .. n} = {Range(D(i)) \cup Range(N(i)) : i \in 1 .. n}
      BY <2>1
    <2>4. {Range(ds[i]) : i \in 1 .. n} = {Range(T(i)) \cup Range(D(i)) : i \in 1 .. n}
      BY <2>1
    <2> QED BY <1>8, <2>2, <2>3, <2>4
  <1>10. Range(AllDefinitions(files)) = Range(AllTypes(files)) \cup Decls(files)
    BY <1>4, <1>5, <1>9
  <1>11. Range(AllServices(files))
           = Decls(files) \cup {AsNested(x) : x \in Messages(Range(AllTypes(files)))}
    <2>1. {AsNested(x) : x \in Messages(UNION {Range(T(i)) : i \in 1 .. n})}
            = UNION {{AsNested(x) : x \in Messages(Range(T(i)))} : i \in 1 .. n}
      BY DEF Messages
    <2>2. UNION {Range(N(i)) : i \in 1 .. n}
            = UNION {{AsNested(x) : x \in Messages(Range(T(i)))} : i \in 1 .. n}
      BY <1>3
    <2>3. Range(AllTypes(files)) = UNION {Range(T(i)) : i \in 1 .. n}
      BY <1>4, <1>9
    <2>4. Range(AllServices(files))
            = Decls(files) \cup UNION {Range(N(i)) : i \in 1 .. n}
      BY <1>4, <1>5, <1>9
    <2> QED BY <2>1, <2>2, <2>3, <2>4
  <1>12. \A x \in Range(AllTypes(files)) :
                /\ ItemOK(x) /\ x.k \in {"message", "enum"}
                /\ x.file \in b + 1 .. b + n
                /\ x.k = "message" => AsMessage(AsNested(x)) = x
    BY <1>2, <1>3, <1>4, <1>9
  <1>13. \A x \in Decls(files) :
                /\ ItemOK(x) /\ x.k \in {"service", "extension"}
                /\ x.file \in b + 1 .. b + n
    BY <1>2, <1>3, <1>5
  <1> QED BY <1>4, <1>8, <1>10, <1>11, <1>12, <1>13 DEF b, n

(***************************************************************************)
(* What each operation changes of a pool.                                  *)
(***************************************************************************)
PoolFields ==
    {"files", "messages", "enums", "services", "extensions", "byName", "symbols",
     "serviceByName", "extensionByName", "extensionByExtendee", "fileByName",
     "symbolFile", "messageFile", "enumFile"}
MessageFields == {"fullName", "fields", "oneofs", "ranges", "options"}
FieldFields ==
    {"name", "json", "number", "card", "kind", "presence", "packed",
     "delimited", "oneof", "enumType"}
MessageShape(m) ==
    /\ DOMAIN m = MessageFields /\ IsSeq(m.fields)
    /\ \A i \in 1 .. Len(m.fields) : DOMAIN m.fields[i] = FieldFields
ExtensionShape(x) ==
    /\ DOMAIN x = {"fullName", "field", "extendee"}
    /\ DOMAIN x.field = FieldFields

Shape(P) ==
    /\ DOMAIN P = PoolFields
    /\ IsSeq(P.files) /\ IsSeq(P.messages) /\ IsSeq(P.enums)
    /\ IsSeq(P.services) /\ IsSeq(P.extensions)
    /\ IsSeq(P.messageFile) /\ Len(P.messageFile) = Len(P.messages)
    /\ IsSeq(P.enumFile) /\ Len(P.enumFile) = Len(P.enums)
    /\ \A i \in 1 .. Len(P.messages) : MessageShape(P.messages[i])
    /\ \A i \in 1 .. Len(P.extensions) : ExtensionShape(P.extensions[i])

\* The fields of a pool that no operation on definitions touches, and those
\* that only some do.
SameFiles(P, Q) ==
    /\ Q.files = P.files /\ Q.fileByName = P.fileByName
    /\ Q.symbolFile = P.symbolFile
SameTypes(P, Q) ==
    /\ Q.messages = P.messages /\ Q.messageFile = P.messageFile
    /\ Q.enums = P.enums /\ Q.enumFile = P.enumFile /\ Q.byName = P.byName
SameServices(P, Q) ==
    Q.services = P.services /\ Q.serviceByName = P.serviceByName
SameExtensions(P, Q) ==
    /\ Q.extensions = P.extensions /\ Q.extensionByName = P.extensionByName
    /\ Q.extensionByExtendee = P.extensionByExtendee

LEMMA ShapeLens ==
    ASSUME NEW P, Shape(P)
    PROVE  /\ Len(P.files) \in Nat /\ DOMAIN P.files = 1 .. Len(P.files)
           /\ Len(P.messages) \in Nat /\ DOMAIN P.messages = 1 .. Len(P.messages)
           /\ Len(P.enums) \in Nat /\ DOMAIN P.enums = 1 .. Len(P.enums)
           /\ Len(P.services) \in Nat /\ DOMAIN P.services = 1 .. Len(P.services)
           /\ Len(P.extensions) \in Nat
           /\ DOMAIN P.extensions = 1 .. Len(P.extensions)
  BY SeqFacts DEF Shape

\* A sequence with other values.
LEMMA ReplacedFacts ==
    ASSUME NEW s, IsSeq(s), NEW t, DOMAIN t = DOMAIN s, t = [j \in DOMAIN t |-> t[j]]
    PROVE  IsSeq(t) /\ Len(t) = Len(s)
  <1>1. Len(s) \in Nat /\ DOMAIN s = 1 .. Len(s)
    BY SeqFacts
  <1> QED BY <1>1, SeqMade

LEMMA WithSymbolsFacts ==
    ASSUME NEW P, Shape(P), NEW names, NEW kind
    PROVE  LET Q == WithSymbols(P, names, kind) IN
           /\ Shape(Q) /\ SameFiles(P, Q) /\ SameTypes(P, Q)
           /\ SameServices(P, Q) /\ SameExtensions(P, Q)
           /\ DOMAIN Q.symbols = DOMAIN P.symbols \cup names
  <1> DEFINE Q == WithSymbols(P, names, kind)
  <1>1. DOMAIN Q = PoolFields
    BY DEF WithSymbols, Shape
  <1>2. /\ SameFiles(P, Q) /\ SameTypes(P, Q)
        /\ SameServices(P, Q) /\ SameExtensions(P, Q)
    BY DEF WithSymbols, Shape, PoolFields, SameFiles, SameTypes, SameServices,
           SameExtensions
  <1>3. DOMAIN Q.symbols = DOMAIN P.symbols \cup names
    BY DEF WithSymbols, Shape, PoolFields
  <1> HIDE DEF Q
  <1>4. Shape(Q)
    BY <1>1, <1>2 DEF Shape, SameFiles, SameTypes, SameServices, SameExtensions
  <1> QED BY <1>2, <1>3, <1>4 DEF Q

MessageAdded(P, Q, fqn, msg, file) ==
    /\ Shape(Q) /\ SameFiles(P, Q)
    /\ SameServices(P, Q) /\ SameExtensions(P, Q)
    /\ DOMAIN Q.symbols = DOMAIN P.symbols \cup {fqn}
    /\ Q.byName = Put(P.byName, fqn,
                      [k |-> "message", i |-> Len(P.messages) + 1])
    /\ Q.messages = Append(P.messages, Placeholder(fqn, msg))
    /\ Q.messageFile = Append(P.messageFile, file)
    /\ Q.enums = P.enums /\ Q.enumFile = P.enumFile

LEMMA RegisteredMessageFacts ==
    ASSUME NEW P, Shape(P), NEW fqn, NEW msg, NEW file
    PROVE  MessageAdded(P, RegisteredMessage(P, fqn, msg, file), fqn, msg, file)
  <1> DEFINE W == WithSymbols(P, {fqn}, "message")
             Q == RegisteredMessage(P, fqn, msg, file)
             p == Placeholder(fqn, msg)
  <1>1. /\ Shape(W) /\ SameFiles(P, W) /\ SameTypes(P, W)
        /\ SameServices(P, W) /\ SameExtensions(P, W)
        /\ DOMAIN W.symbols = DOMAIN P.symbols \cup {fqn}
    BY WithSymbolsFacts
  <1>2. Q = [W EXCEPT
        !.byName = Put(@, fqn, [k |-> "message", i |-> Len(P.messages) + 1]),
        !.messages = Append(@, p),
        !.messageFile = Append(@, file)]
    BY DEF RegisteredMessage, WithSymbol
  <1> HIDE DEF Q, W, p
  <1>3. DOMAIN W = PoolFields /\ DOMAIN Q = PoolFields
    BY <1>1, <1>2 DEF Shape
  <1>4. /\ SameFiles(W, Q) /\ SameServices(W, Q) /\ SameExtensions(W, Q)
        /\ Q.symbols = W.symbols
        /\ Q.enums = W.enums /\ Q.enumFile = W.enumFile
        /\ Q.byName = Put(W.byName, fqn, [k |-> "message", i |-> Len(P.messages) + 1])
        /\ Q.messages = Append(W.messages, p)
        /\ Q.messageFile = Append(W.messageFile, file)
    BY <1>2, <1>3 DEF PoolFields, SameFiles, SameServices, SameExtensions
  <1>5. /\ SameFiles(P, Q) /\ SameServices(P, Q) /\ SameExtensions(P, Q)
        /\ Q.enums = P.enums /\ Q.enumFile = P.enumFile
        /\ Q.byName = Put(P.byName, fqn, [k |-> "message", i |-> Len(P.messages) + 1])
        /\ Q.messages = Append(P.messages, p)
        /\ Q.messageFile = Append(P.messageFile, file)
    BY <1>1, <1>4 DEF SameFiles, SameServices, SameExtensions, SameTypes
  <1>6. MessageShape(p)
    <2>1. IsSeq(<<>>) /\ Len(<<>>) = 0
      <3>1. <<>> \in Seq({}) /\ DOMAIN <<>> = {}
        OBVIOUS
      <3> QED BY <3>1 DEF IsSeq, Range
    <2> QED BY <2>1 DEF MessageShape, Placeholder, MessageFields, p
  <1>7. /\ IsSeq(Q.messages) /\ Len(Q.messages) = Len(P.messages) + 1
        /\ IsSeq(Q.messageFile) /\ Len(Q.messageFile) = Len(P.messageFile) + 1
        /\ \A i \in 1 .. Len(P.messages) : Q.messages[i] = P.messages[i]
        /\ Q.messages[Len(P.messages) + 1] = p
    BY <1>5, AppendFacts DEF Shape
  <1>8. \A i \in 1 .. Len(Q.messages) : MessageShape(Q.messages[i])
    <2>1. Len(P.messages) \in Nat
      BY ShapeLens
    <2>2. \A i \in 1 .. Len(P.messages) + 1 :
             i \in 1 .. Len(P.messages) \/ i = Len(P.messages) + 1
      BY <2>1
    <2> QED BY <1>6, <1>7, <2>2 DEF Shape
  <1>9. Shape(Q)
    BY <1>3, <1>5, <1>7, <1>8 DEF Shape, SameFiles, SameServices, SameExtensions
  <1> QED BY <1>1, <1>4, <1>5, <1>9 DEF Q, p, MessageAdded

EnumAdded(P, Q, fqn, file) ==
    /\ Shape(Q) /\ SameFiles(P, Q)
    /\ SameServices(P, Q) /\ SameExtensions(P, Q)
    /\ DOMAIN Q.symbols = DOMAIN P.symbols \cup {fqn}
    /\ Q.byName = Put(P.byName, fqn,
                      [k |-> "enum", i |-> Len(P.enums) + 1])
    /\ Q.enums = Append(P.enums,
          [fullName |-> fqn, values |-> <<>>, type |-> "open"])
    /\ Q.enumFile = Append(P.enumFile, file)
    /\ Q.messages = P.messages /\ Q.messageFile = P.messageFile

LEMMA RegisteredEnumFacts ==
    ASSUME NEW P, Shape(P), NEW fqn, NEW file
    PROVE  EnumAdded(P, RegisteredEnum(P, fqn, file), fqn, file)
  <1> DEFINE W == WithSymbols(P, {fqn}, "enum")
             Q == RegisteredEnum(P, fqn, file)
             p == [fullName |-> fqn, values |-> <<>>, type |-> "open"]
  <1>1. /\ Shape(W) /\ SameFiles(P, W) /\ SameTypes(P, W)
        /\ SameServices(P, W) /\ SameExtensions(P, W)
        /\ DOMAIN W.symbols = DOMAIN P.symbols \cup {fqn}
    BY WithSymbolsFacts
  <1>2. Q = [W EXCEPT
        !.byName = Put(@, fqn, [k |-> "enum", i |-> Len(P.enums) + 1]),
        !.enums = Append(@, p),
        !.enumFile = Append(@, file)]
    BY DEF RegisteredEnum, WithSymbol
  <1> HIDE DEF Q, W, p
  <1>3. DOMAIN W = PoolFields /\ DOMAIN Q = PoolFields
    BY <1>1, <1>2 DEF Shape
  <1>4. /\ SameFiles(W, Q) /\ SameServices(W, Q) /\ SameExtensions(W, Q)
        /\ Q.symbols = W.symbols
        /\ Q.messages = W.messages /\ Q.messageFile = W.messageFile
        /\ Q.byName = Put(W.byName, fqn, [k |-> "enum", i |-> Len(P.enums) + 1])
        /\ Q.enums = Append(W.enums, p)
        /\ Q.enumFile = Append(W.enumFile, file)
    BY <1>2, <1>3 DEF PoolFields, SameFiles, SameServices, SameExtensions
  <1>5. /\ SameFiles(P, Q) /\ SameServices(P, Q) /\ SameExtensions(P, Q)
        /\ Q.messages = P.messages /\ Q.messageFile = P.messageFile
        /\ Q.byName = Put(P.byName, fqn, [k |-> "enum", i |-> Len(P.enums) + 1])
        /\ Q.enums = Append(P.enums, p)
        /\ Q.enumFile = Append(P.enumFile, file)
    BY <1>1, <1>4 DEF SameFiles, SameServices, SameExtensions, SameTypes
  <1>7. /\ IsSeq(Q.enums) /\ Len(Q.enums) = Len(P.enums) + 1
        /\ IsSeq(Q.enumFile) /\ Len(Q.enumFile) = Len(P.enumFile) + 1
    BY <1>5, AppendFacts DEF Shape
  <1>9. Shape(Q)
    BY <1>3, <1>5, <1>7 DEF Shape, SameFiles, SameServices, SameExtensions
  <1> QED BY <1>1, <1>4, <1>5, <1>9 DEF Q, p, EnumAdded

MessagePut(P, Q, fqn, msg, fields, next) ==
    LET m == [fullName |-> fqn, fields |-> fields, oneofs |-> msg.oneofs,
              ranges |-> msg.ranges, options |-> P.messages[next].options]
    IN
    /\ Shape(Q) /\ SameFiles(P, Q)
    /\ SameServices(P, Q) /\ SameExtensions(P, Q)
    /\ DOMAIN Q.symbols = DOMAIN P.symbols \cup OneofSymbols(fqn, msg)
                            \cup Inside(fqn, msg.fields)
    /\ Len(Q.messages) = Len(P.messages)
    /\ \A i \in 1 .. Len(P.messages) :
         Q.messages[i] = IF i = next THEN m ELSE P.messages[i]
    /\ Q.byName = P.byName /\ Q.messageFile = P.messageFile
    /\ Q.enums = P.enums /\ Q.enumFile = P.enumFile

LEMMA WithMessageFacts ==
    ASSUME NEW P, Shape(P), NEW fqn, NEW msg, NEW fields, NEW next,
           IsSeq(fields), \A i \in 1 .. Len(fields) : DOMAIN fields[i] = FieldFields
    PROVE  MessagePut(P, WithMessage(P, fqn, msg, fields, next), fqn, msg, fields, next)
  <1> DEFINE U == WithSymbols(P, OneofSymbols(fqn, msg), "oneof")
             W == WithSymbols(U, Inside(fqn, msg.fields), "field")
             Q == WithMessage(P, fqn, msg, fields, next)
             m == [fullName |-> fqn, fields |-> fields, oneofs |-> msg.oneofs,
                   ranges |-> msg.ranges, options |-> P.messages[next].options]
  <1>1. /\ Shape(U) /\ SameFiles(P, U) /\ SameTypes(P, U)
        /\ SameServices(P, U) /\ SameExtensions(P, U)
        /\ DOMAIN U.symbols = DOMAIN P.symbols \cup OneofSymbols(fqn, msg)
    BY WithSymbolsFacts
  <1> HIDE DEF U
  <1>2. /\ Shape(W) /\ SameFiles(U, W) /\ SameTypes(U, W)
        /\ SameServices(U, W) /\ SameExtensions(U, W)
        /\ DOMAIN W.symbols = DOMAIN U.symbols \cup Inside(fqn, msg.fields)
    BY <1>1, WithSymbolsFacts
  <1>3. Q = [W EXCEPT !.messages[next] = m]
    BY DEF WithMessage, U
  <1> HIDE DEF Q, W, m
  <1>4. DOMAIN W = PoolFields /\ DOMAIN Q = PoolFields
    BY <1>2, <1>3 DEF Shape
  <1>5. /\ SameFiles(W, Q) /\ SameServices(W, Q) /\ SameExtensions(W, Q)
        /\ Q.symbols = W.symbols /\ Q.messageFile = W.messageFile
        /\ Q.enums = W.enums /\ Q.enumFile = W.enumFile /\ Q.byName = W.byName
        /\ Q.messages = [W.messages EXCEPT ![next] = m]
    BY <1>3, <1>4 DEF PoolFields, SameFiles, SameServices, SameExtensions
  <1>6. /\ SameFiles(P, Q) /\ SameServices(P, Q) /\ SameExtensions(P, Q)
        /\ Q.messageFile = P.messageFile
        /\ Q.enums = P.enums /\ Q.enumFile = P.enumFile /\ Q.byName = P.byName
        /\ Q.messages = [P.messages EXCEPT ![next] = m]
        /\ DOMAIN Q.symbols = DOMAIN P.symbols \cup OneofSymbols(fqn, msg)
                                   \cup Inside(fqn, msg.fields)
    BY <1>1, <1>2, <1>5 DEF SameFiles, SameServices, SameExtensions, SameTypes
  <1>7. MessageShape(m)
    BY DEF MessageShape, MessageFields, m
  <1>8. /\ IsSeq(Q.messages) /\ Len(Q.messages) = Len(P.messages)
        /\ \A i \in 1 .. Len(P.messages) :
                Q.messages[i] = IF i = next THEN m ELSE P.messages[i]
    <2>1. IsSeq(P.messages)
      BY DEF Shape
    <2>2. Q.messages = [P.messages EXCEPT ![next] = m]
      BY <1>6
    <2> DEFINE old == P.messages
               new == Q.messages
    <2>3. /\ IsSeq(old) /\ DOMAIN old = 1 .. Len(old)
          /\ new = [old EXCEPT ![next] = m]
      BY <2>1, <2>2, SeqFacts
    <2> HIDE DEF old, new
    <2>4. /\ DOMAIN new = DOMAIN old /\ new = [i \in DOMAIN new |-> new[i]]
          /\ \A i \in 1 .. Len(old) : new[i] = IF i = next THEN m ELSE old[i]
      BY <2>3
    <2>5. IsSeq(new) /\ Len(new) = Len(old)
      BY <2>3, <2>4, ReplacedFacts
    <2> QED BY <2>4, <2>5 DEF old, new
  <1>9. Shape(Q)
    BY <1>4, <1>6, <1>7, <1>8 DEF Shape, SameFiles, SameServices, SameExtensions
  <1> QED BY <1>6, <1>8, <1>9 DEF Q, m, MessagePut

EnumPut(P, Q, parent, enum, feats) ==
    LET fqn == Append(parent, enum.name)
        e == [fullName |-> fqn, values |-> enum.values, type |-> feats.enum]
    IN
    /\ Shape(Q) /\ SameFiles(P, Q)
    /\ SameServices(P, Q) /\ SameExtensions(P, Q)
    /\ DOMAIN Q.symbols = DOMAIN P.symbols \cup Inside(parent, enum.values)
    /\ Len(Q.enums) = Len(P.enums)
    /\ \A i \in 1 .. Len(P.enums) :
         Q.enums[i] = IF i = P.byName[fqn].i THEN e ELSE P.enums[i]
    /\ Q.byName = P.byName /\ Q.enumFile = P.enumFile
    /\ Q.messages = P.messages /\ Q.messageFile = P.messageFile

LEMMA LinkEnumFacts ==
    ASSUME NEW P, Shape(P), NEW parent, NEW enum, NEW feats
    PROVE  EnumPut(P, LinkEnum(P, parent, enum, feats).P, parent, enum, feats)
  <1> DEFINE W == WithSymbols(P, Inside(parent, enum.values), "value")
             Q == LinkEnum(P, parent, enum, feats).P
             fqn == Append(parent, enum.name)
             next == P.byName[fqn].i
             e == [fullName |-> fqn, values |-> enum.values, type |-> feats.enum]
  <1>2. /\ Shape(W) /\ SameFiles(P, W) /\ SameTypes(P, W)
        /\ SameServices(P, W) /\ SameExtensions(P, W)
        /\ DOMAIN W.symbols = DOMAIN P.symbols \cup Inside(parent, enum.values)
    BY WithSymbolsFacts
  <1>3. Q = [W EXCEPT !.enums[next] = e]
    BY DEF LinkEnum
  <1> HIDE DEF Q, W, e, next
  <1>4. DOMAIN W = PoolFields /\ DOMAIN Q = PoolFields
    BY <1>2, <1>3 DEF Shape
  <1>5. /\ SameFiles(W, Q) /\ SameServices(W, Q) /\ SameExtensions(W, Q)
        /\ Q.symbols = W.symbols /\ Q.messageFile = W.messageFile
        /\ Q.messages = W.messages /\ Q.enumFile = W.enumFile /\ Q.byName = W.byName
        /\ Q.enums = [W.enums EXCEPT ![next] = e]
    BY <1>3, <1>4 DEF PoolFields, SameFiles, SameServices, SameExtensions
  <1>6. /\ SameFiles(P, Q) /\ SameServices(P, Q) /\ SameExtensions(P, Q)
        /\ Q.messageFile = P.messageFile
        /\ Q.messages = P.messages /\ Q.enumFile = P.enumFile /\ Q.byName = P.byName
        /\ Q.enums = [P.enums EXCEPT ![next] = e]
        /\ DOMAIN Q.symbols = DOMAIN P.symbols \cup Inside(parent, enum.values)
    BY <1>2, <1>5 DEF SameFiles, SameServices, SameExtensions, SameTypes
  <1>8. /\ IsSeq(Q.enums) /\ Len(Q.enums) = Len(P.enums)
        /\ \A i \in 1 .. Len(P.enums) :
                Q.enums[i] = IF i = next THEN e ELSE P.enums[i]
    <2>1. IsSeq(P.enums)
      BY DEF Shape
    <2> DEFINE old == P.enums
               new == Q.enums
    <2>2. /\ IsSeq(old) /\ DOMAIN old = 1 .. Len(old)
          /\ new = [old EXCEPT ![next] = e]
      BY <1>6, <2>1, SeqFacts
    <2> HIDE DEF old, new
    <2>3. /\ DOMAIN new = DOMAIN old /\ new = [i \in DOMAIN new |-> new[i]]
          /\ \A i \in 1 .. Len(old) : new[i] = IF i = next THEN e ELSE old[i]
      BY <2>2
    <2>4. IsSeq(new) /\ Len(new) = Len(old)
      BY <2>2, <2>3, ReplacedFacts
    <2> QED BY <2>3, <2>4 DEF old, new
  <1>9. Shape(Q)
    BY <1>4, <1>6, <1>8 DEF Shape, SameFiles, SameServices, SameExtensions
  <1> QED BY <1>6, <1>8, <1>9 DEF Q, e, next, EnumPut

ServiceAdded(P, Q, parent, svc) ==
    LET fqn == Append(parent, svc.name)
    IN
    /\ Shape(Q) /\ SameFiles(P, Q) /\ SameTypes(P, Q) /\ SameExtensions(P, Q)
    /\ DOMAIN Q.symbols = DOMAIN P.symbols \cup Inside(fqn, svc.methods) \cup {fqn}
    /\ Q.serviceByName = Put(P.serviceByName, fqn, Len(P.services) + 1)
    /\ Q.services = Append(P.services, [fullName |-> fqn,
          methods |-> [i \in DOMAIN svc.methods |->
                          LinkedMethod(P, svc.methods[i])]])

LEMMA LinkServiceFacts ==
    ASSUME NEW P, Shape(P), NEW scope, NEW parent, NEW svc
    PROVE  ServiceAdded(P, LinkService(P, scope, parent, svc).P, parent, svc)
  <1> DEFINE fqn == Append(parent, svc.name)
             U == WithSymbols(P, Inside(fqn, svc.methods), "method")
             W == WithSymbols(U, {fqn}, "service")
             Q == LinkService(P, scope, parent, svc).P
             s == [fullName |-> fqn, methods |-> [i \in DOMAIN svc.methods |->
                                                    LinkedMethod(P, svc.methods[i])]]
  <1>1. /\ Shape(U) /\ SameFiles(P, U) /\ SameTypes(P, U)
        /\ SameServices(P, U) /\ SameExtensions(P, U)
        /\ DOMAIN U.symbols = DOMAIN P.symbols \cup Inside(fqn, svc.methods)
    BY WithSymbolsFacts
  <1> HIDE DEF U
  <1>2. /\ Shape(W) /\ SameFiles(U, W) /\ SameTypes(U, W)
        /\ SameServices(U, W) /\ SameExtensions(U, W)
        /\ DOMAIN W.symbols = DOMAIN U.symbols \cup {fqn}
    BY <1>1, WithSymbolsFacts
  <1>3. Q = [W EXCEPT !.serviceByName = Put(@, fqn, Len(P.services) + 1),
                      !.services = Append(@, s)]
    BY DEF LinkService, WithSymbol, U
  <1> HIDE DEF Q, W, s
  <1>4. DOMAIN W = PoolFields /\ DOMAIN Q = PoolFields
    BY <1>2, <1>3 DEF Shape
  <1>5. /\ SameFiles(W, Q) /\ SameTypes(W, Q) /\ SameExtensions(W, Q)
        /\ Q.symbols = W.symbols
        /\ Q.serviceByName = Put(W.serviceByName, fqn, Len(P.services) + 1)
        /\ Q.services = Append(W.services, s)
    BY <1>3, <1>4 DEF PoolFields, SameFiles, SameTypes, SameExtensions
  <1>6. /\ SameFiles(P, Q) /\ SameTypes(P, Q) /\ SameExtensions(P, Q)
        /\ Q.serviceByName = Put(P.serviceByName, fqn, Len(P.services) + 1)
        /\ Q.services = Append(P.services, s)
        /\ DOMAIN Q.symbols = DOMAIN P.symbols \cup Inside(fqn, svc.methods) \cup {fqn}
    BY <1>1, <1>2, <1>5 DEF SameFiles, SameServices, SameExtensions, SameTypes
  <1>8. IsSeq(Q.services)
    BY <1>6, AppendFacts DEF Shape
  <1>9. Shape(Q)
    BY <1>4, <1>6, <1>8 DEF Shape, SameFiles, SameTypes, SameExtensions
  <1> QED BY <1>6, <1>9 DEF Q, s, ServiceAdded

LEMMA WithExtensionFacts ==
    ASSUME NEW P, Shape(P), NEW scope, NEW fqn, NEW extendee, NEW linkedField,
           DOMAIN linkedField.fd = FieldFields
    PROVE  LET Q == WithExtension(P, scope, fqn, extendee, linkedField).P
               fd == [linkedField.fd EXCEPT !.oneof = 0]
               idx == Len(P.extensions) + 1
           IN
           /\ Shape(Q) /\ SameFiles(P, Q) /\ SameTypes(P, Q) /\ SameServices(P, Q)
           /\ Q.symbols = P.symbols
           /\ Q.extensionByName = Put(P.extensionByName, fqn, idx)
           /\ Q.extensionByExtendee
                = Put(P.extensionByExtendee, <<extendee, fd.number>>, idx)
           /\ Q.extensions = Append(P.extensions,
                [fullName |-> fqn, field |-> fd, extendee |-> extendee])
  <1> DEFINE Q == WithExtension(P, scope, fqn, extendee, linkedField).P
             fd == [linkedField.fd EXCEPT !.oneof = 0]
             idx == Len(P.extensions) + 1
             x == [fullName |-> fqn, field |-> fd, extendee |-> extendee]
             key == <<extendee, fd.number>>
  <1>3. Q = [P EXCEPT !.extensionByName = Put(@, fqn, idx),
                      !.extensionByExtendee = Put(@, key, idx),
                      !.extensions = Append(@, x)]
    BY DEF WithExtension
  <1>7. DOMAIN fd = FieldFields
    OBVIOUS
  <1> HIDE DEF Q, idx, fd
  <1>8. ExtensionShape(x)
    BY <1>7 DEF ExtensionShape
  <1> HIDE DEF x, key
  <1>4. DOMAIN P = PoolFields /\ DOMAIN Q = PoolFields
    BY <1>3 DEF Shape
  <1>5. /\ SameFiles(P, Q) /\ SameTypes(P, Q) /\ SameServices(P, Q)
        /\ Q.symbols = P.symbols
        /\ Q.extensionByName = Put(P.extensionByName, fqn, idx)
        /\ Q.extensionByExtendee = Put(P.extensionByExtendee, key, idx)
        /\ Q.extensions = Append(P.extensions, x)
    BY <1>3, <1>4 DEF PoolFields, SameFiles, SameTypes, SameServices
  <1>6. /\ IsSeq(Q.extensions) /\ Len(Q.extensions) = Len(P.extensions) + 1
        /\ \A i \in 1 .. Len(P.extensions) : Q.extensions[i] = P.extensions[i]
        /\ Q.extensions[Len(P.extensions) + 1] = x
    BY <1>5, AppendFacts DEF Shape
  <1>10. \A i \in 1 .. Len(Q.extensions) : ExtensionShape(Q.extensions[i])
    <2>1. Len(P.extensions) \in Nat
      BY ShapeLens
    <2>2. \A i \in 1 .. Len(P.extensions) + 1 :
             i \in 1 .. Len(P.extensions) \/ i = Len(P.extensions) + 1
      BY <2>1
    <2> QED BY <1>6, <1>8, <2>2 DEF Shape
  <1>9. Shape(Q)
    BY <1>4, <1>5, <1>6, <1>10 DEF Shape, SameFiles, SameTypes, SameServices
  <1> QED BY <1>5, <1>9 DEF Q, fd, x, key, idx

\* A field but for its enum type.
SameField(f, g) ==
    /\ DOMAIN g = FieldFields
    /\ g.name = f.name /\ g.number = f.number /\ g.card = f.card
    /\ g.kind = f.kind /\ g.presence = f.presence

LEMMA FinalFieldFacts ==
    ASSUME NEW P, NEW fd, DOMAIN fd = FieldFields
    PROVE  /\ SameField(fd, FinalField(P, fd))
           /\ FinalField(P, fd).enumType
                = IF fd.enumType = "none" /\ fd.kind.k = "enum"
                    THEN P.enums[fd.kind.i].type ELSE fd.enumType
  BY DEF FinalField, SameField, FieldFields

\* g is the list f of fields with their enum types settled.
FinalFields(P, f, g) ==
    /\ IsSeq(g) /\ Len(g) = Len(f)
    /\ \A i \in 1 .. Len(f) : g[i] = FinalField(P, f[i])

Settled(P, Q, fm, fx) ==
    /\ Shape(Q) /\ SameFiles(P, Q) /\ SameServices(P, Q)
    /\ Q.symbols = P.symbols /\ Q.byName = P.byName
    /\ Q.messageFile = P.messageFile
    /\ Q.enums = P.enums /\ Q.enumFile = P.enumFile
    /\ Q.extensionByName = P.extensionByName
    /\ Q.extensionByExtendee = P.extensionByExtendee
    /\ Len(Q.messages) = Len(P.messages)
    /\ \A i \in 1 .. Len(P.messages) :
         /\ i < fm => Q.messages[i] = P.messages[i]
         /\ ~ (i < fm) =>
              /\ Q.messages[i].fullName = P.messages[i].fullName
              /\ Q.messages[i].ranges = P.messages[i].ranges
              /\ Q.messages[i].options = P.messages[i].options
              /\ FinalFields(P, P.messages[i].fields, Q.messages[i].fields)
    /\ Len(Q.extensions) = Len(P.extensions)
    /\ \A i \in 1 .. Len(P.extensions) :
         /\ i < fx => Q.extensions[i] = P.extensions[i]
         /\ ~ (i < fx) =>
              /\ Q.extensions[i].fullName = P.extensions[i].fullName
              /\ Q.extensions[i].extendee = P.extensions[i].extendee
              /\ Q.extensions[i].field = FinalField(P, P.extensions[i].field)

LEMMA FinalizedFacts ==
    ASSUME NEW P, Shape(P), NEW fm, NEW fx
    PROVE  Settled(P, Finalized(P, fm, fx), fm, fx)
  <1> DEFINE Q == Finalized(P, fm, fx)
             M(i) == IF i < fm THEN P.messages[i]
                     ELSE FinalMessage(P, P.messages[i])
             X(i) == IF i < fx THEN P.extensions[i]
                     ELSE FinalExtension(P, P.extensions[i])
             ms == [i \in DOMAIN P.messages |-> M(i)]
             xs == [i \in DOMAIN P.extensions |-> X(i)]
  <1>1. Q = [P EXCEPT !.messages = ms, !.extensions = xs]
    <2>1. DOMAIN P = PoolFields
      BY DEF Shape
    <2>2. [P EXCEPT !.messages = ms].extensions = P.extensions
      <3> HIDE DEF ms
      <3> QED BY <2>1 DEF PoolFields
    <2> QED BY <2>1, <2>2 DEF Finalized
  <1>2. /\ Len(P.messages) \in Nat /\ DOMAIN P.messages = 1 .. Len(P.messages)
        /\ Len(P.extensions) \in Nat /\ DOMAIN P.extensions = 1 .. Len(P.extensions)
    BY ShapeLens
  <1>3. ASSUME NEW i \in 1 .. Len(P.messages)
        PROVE  /\ MessageShape(M(i))
               /\ i < fm => M(i) = P.messages[i]
               /\ ~ (i < fm) =>
                     /\ M(i).fullName = P.messages[i].fullName
                     /\ M(i).ranges = P.messages[i].ranges
                     /\ M(i).options = P.messages[i].options
                     /\ FinalFields(P, P.messages[i].fields, M(i).fields)
    <2> DEFINE m == P.messages[i]
               fs == [j \in DOMAIN m.fields |-> FinalField(P, m.fields[j])]
    <2>1. MessageShape(m)
      BY DEF Shape
    <2> HIDE DEF m
    <2>2. /\ Len(m.fields) \in Nat /\ DOMAIN m.fields = 1 .. Len(m.fields)
          /\ DOMAIN m = MessageFields
      BY <2>1, SeqFacts DEF MessageShape
    <2>3. /\ DOMAIN fs = 1 .. Len(m.fields) /\ fs = [j \in 1 .. Len(m.fields) |-> fs[j]]
          /\ \A j \in 1 .. Len(m.fields) : fs[j] = FinalField(P, m.fields[j])
      BY <2>2
    <2> HIDE DEF fs
    <2>4. IsSeq(fs) /\ Len(fs) = Len(m.fields)
      BY <2>2, <2>3, SeqMade
    <2>5. ASSUME NEW j \in 1 .. Len(m.fields) PROVE DOMAIN fs[j] = FieldFields
      <3>1. DOMAIN m.fields[j] = FieldFields /\ fs[j] = FinalField(P, m.fields[j])
        BY <2>1, <2>3 DEF MessageShape
      <3> QED BY <3>1, FinalFieldFacts DEF SameField
    <2>6. M(i) = IF i < fm THEN m ELSE [m EXCEPT !.fields = fs]
      BY DEF m, fs, FinalMessage
    <2> HIDE DEF M
    <2>7. CASE i < fm
      BY <2>1, <2>6, <2>7 DEF m
    <2>8. CASE ~ (i < fm)
      <3>1. /\ DOMAIN M(i) = MessageFields /\ M(i).fields = fs
            /\ M(i).fullName = m.fullName /\ M(i).ranges = m.ranges
            /\ M(i).options = m.options
        BY <2>2, <2>6, <2>8 DEF MessageFields
      <3>2. MessageShape(M(i))
        BY <2>4, <2>5, <3>1 DEF MessageShape
      <3>3. FinalFields(P, m.fields, M(i).fields)
        BY <2>3, <2>4, <3>1 DEF FinalFields
      <3> QED BY <2>8, <3>1, <3>2, <3>3 DEF m
    <2> QED BY <2>7, <2>8
  <1>4. ASSUME NEW i \in 1 .. Len(P.extensions)
        PROVE  /\ ExtensionShape(X(i))
               /\ i < fx => X(i) = P.extensions[i]
               /\ ~ (i < fx) =>
                     /\ X(i).fullName = P.extensions[i].fullName
                     /\ X(i).extendee = P.extensions[i].extendee
                     /\ X(i).field = FinalField(P, P.extensions[i].field)
    <2>1. ExtensionShape(P.extensions[i])
      BY DEF Shape
    <2>2. DOMAIN FinalField(P, P.extensions[i].field) = FieldFields
      BY <2>1, FinalFieldFacts DEF SameField, ExtensionShape
    <2>3. CASE i < fx
      BY <2>1, <2>3
    <2>4. CASE ~ (i < fx)
      BY <2>1, <2>2, <2>4 DEF ExtensionShape, FinalExtension
    <2> QED BY <2>3, <2>4
  <1> HIDE DEF M, X, Q
  <1>5. /\ DOMAIN ms = 1 .. Len(P.messages) /\ ms = [i \in 1 .. Len(P.messages) |-> ms[i]]
        /\ \A i \in 1 .. Len(P.messages) : ms[i] = M(i)
        /\ DOMAIN xs = 1 .. Len(P.extensions) /\ xs = [i \in 1 .. Len(P.extensions) |-> xs[i]]
        /\ \A i \in 1 .. Len(P.extensions) : xs[i] = X(i)
    BY <1>2
  <1> HIDE DEF ms, xs
  <1>6. /\ IsSeq(ms) /\ Len(ms) = Len(P.messages)
        /\ IsSeq(xs) /\ Len(xs) = Len(P.extensions)
    BY <1>2, <1>5, SeqMade
  <1>7. DOMAIN P = PoolFields /\ DOMAIN Q = PoolFields
    BY <1>1 DEF Shape
  <1>8. /\ SameFiles(P, Q) /\ SameServices(P, Q)
        /\ Q.symbols = P.symbols /\ Q.byName = P.byName
        /\ Q.messageFile = P.messageFile
        /\ Q.enums = P.enums /\ Q.enumFile = P.enumFile
        /\ Q.extensionByName = P.extensionByName
        /\ Q.extensionByExtendee = P.extensionByExtendee
        /\ Q.messages = ms /\ Q.extensions = xs
    BY <1>1, <1>7 DEF PoolFields, SameFiles, SameServices
  <1>m. Len(Q.messages) = Len(P.messages)
        /\ \A i \in 1 .. Len(P.messages) : Q.messages[i] = M(i)
    BY <1>5, <1>6, <1>8
  <1>x. Len(Q.extensions) = Len(P.extensions)
        /\ \A i \in 1 .. Len(P.extensions) : Q.extensions[i] = X(i)
    BY <1>5, <1>6, <1>8
  <1>9. Shape(Q)
    <2>1. /\ IsSeq(P.files) /\ IsSeq(P.enums) /\ IsSeq(P.services)
          /\ IsSeq(P.messageFile) /\ Len(P.messageFile) = Len(P.messages)
          /\ IsSeq(P.enumFile) /\ Len(P.enumFile) = Len(P.enums)
      BY DEF Shape
    <2>2. /\ IsSeq(Q.files) /\ IsSeq(Q.enums) /\ IsSeq(Q.services)
          /\ IsSeq(Q.messageFile) /\ Len(Q.messageFile) = Len(Q.messages)
          /\ IsSeq(Q.enumFile) /\ Len(Q.enumFile) = Len(Q.enums)
      BY <1>8, <1>m, <2>1 DEF SameFiles, SameServices
    <2>3. IsSeq(Q.messages) /\ IsSeq(Q.extensions)
      BY <1>6, <1>8
    <2>4. \A i \in 1 .. Len(Q.messages) : MessageShape(Q.messages[i])
      BY <1>3, <1>m
    <2>5. \A i \in 1 .. Len(Q.extensions) : ExtensionShape(Q.extensions[i])
      BY <1>4, <1>x
    <2> QED BY <1>7, <2>2, <2>3, <2>4, <2>5 DEF Shape
  <1>10. \A i \in 1 .. Len(P.messages) :
                /\ i < fm => Q.messages[i] = P.messages[i]
                /\ ~ (i < fm) =>
                     /\ Q.messages[i].fullName = P.messages[i].fullName
                     /\ Q.messages[i].ranges = P.messages[i].ranges
                     /\ Q.messages[i].options = P.messages[i].options
                     /\ FinalFields(P, P.messages[i].fields, Q.messages[i].fields)
    <2>1. ASSUME NEW i \in 1 .. Len(P.messages) PROVE Q.messages[i] = M(i)
      BY <1>m
    <2> QED BY <1>3, <2>1
  <1>11. \A i \in 1 .. Len(P.extensions) :
                /\ i < fx => Q.extensions[i] = P.extensions[i]
                /\ ~ (i < fx) =>
                     /\ Q.extensions[i].fullName = P.extensions[i].fullName
                     /\ Q.extensions[i].extendee = P.extensions[i].extendee
                     /\ Q.extensions[i].field = FinalField(P, P.extensions[i].field)
    <2>1. ASSUME NEW i \in 1 .. Len(P.extensions) PROVE Q.extensions[i] = X(i)
      BY <1>x
    <2> QED BY <1>4, <2>1
  <1> QED BY <1>6, <1>8, <1>9, <1>10, <1>11 DEF Q, Settled

(***************************************************************************)
(* What a definition that is linked without an error refers to.            *)
(***************************************************************************)
\* A kind that is resolved: a scalar, or a definition that the scope sees.
Resolved(P, scope, kind) ==
    \/ kind.k = "scalar"
    \/ /\ kind.k \in {"message", "enum"}
       /\ \E name \in DOMAIN P.byName :
             P.byName[name].k = kind.k /\ P.byName[name].i = kind.i
       /\ DefFile(P, kind) \in scope.visible

\* The names that P has lead to messages and enums.
NamesTyped(P) ==
    \A name \in DOMAIN P.byName : P.byName[name].k \in {"message", "enum"}

LEMMA CheckOk ==
    ASSUME NEW cond, NEW e, e # "ok", Check(cond, e) = "ok"
    PROVE  ~ cond
  BY DEF Check

LEMMA DefinitionFacts ==
    ASSUME NEW P, NamesTyped(P), NEW name, Definition(P, name).k # "none"
    PROVE  /\ name \in DOMAIN P.byName
           /\ Definition(P, name) = P.byName[name]
           /\ P.byName[name].k \in {"message", "enum"}
  BY DEF Definition, NamesTyped

LEMMA ResolveSingularFacts ==
    ASSUME NEW P, NamesTyped(P), NEW scope, NEW type, NEW name,
           ResolveSingular(P, scope, type, name).err = "ok"
    PROVE  Resolved(P, scope, ResolveSingular(P, scope, type, name).kind)
  <1> DEFINE def == Definition(P, name)
             fits == \/ def.k = "message" /\ type \in {Absent, "message", "group"}
                     \/ def.k = "enum" /\ type \in {Absent, "enum"}
             kind == [k |-> def.k, t |-> "none", i |-> def.i]
             a == Check(IsScalar(type) /\ type # Absent, "UnexpectedTypeName")
             b == Check(name = <<>>, "MissingTypeName")
             c == Check(def.k = "none", "UnresolvedTypeName")
             d == Check(~ fits, "WrongTypeKind")
             e == Check(DefFile(P, def) \notin scope.visible, "TypeNotImported")
  <1>1. CASE IsScalar(type) /\ name = <<>>
    BY <1>1 DEF ResolveSingular, Resolved, Scalar
  <1>2. CASE ~ (IsScalar(type) /\ name = <<>>)
    <2>1. /\ First(<<a, b, c, d, e>>) = "ok"
          /\ ResolveSingular(P, scope, type, name).kind = kind
      BY <1>2 DEF ResolveSingular
    <2> HIDE DEF a, b, c, d, e, kind
    <2>2. c = "ok" /\ d = "ok" /\ e = "ok"
      BY <2>1, FirstOf5
    <2>3. def.k # "none" /\ fits /\ DefFile(P, def) \in scope.visible
      BY <2>2, CheckOk DEF c, d, e
    <2>4. name \in DOMAIN P.byName /\ def = P.byName[name] /\ def.k \in {"message", "enum"}
      BY <2>3, DefinitionFacts
    <2> HIDE DEF def
    <2>5. kind.k = def.k /\ kind.i = def.i
      BY DEF kind
    <2>6. DefFile(P, kind) = DefFile(P, def)
      BY <2>5 DEF DefFile
    <2> QED BY <2>1, <2>3, <2>4, <2>5, <2>6 DEF Resolved
  <1> QED BY <1>1, <1>2

LEMMA MessageNameFacts ==
    ASSUME NEW P, NamesTyped(P), NEW scope, NEW name,
           MessageNameErr(P, scope, name) = "ok"
    PROVE  /\ name \in DOMAIN P.byName
           /\ Definition(P, name) = P.byName[name]
           /\ P.byName[name].k = "message"
           /\ P.messageFile[P.byName[name].i] \in scope.visible
  <1> DEFINE def == Definition(P, name)
             a == Check(name = <<>>, "MissingTypeName")
             b == Check(def.k = "enum", "WrongTypeKind")
             c == Check(def.k = "none", "UnresolvedTypeName")
             d == Check(DefFile(P, def) \notin scope.visible, "TypeNotImported")
  <1>1. First(<<a, b, c, d>>) = "ok"
    BY DEF MessageNameErr
  <1> HIDE DEF a, b, c, d
  <1>2. b = "ok" /\ c = "ok" /\ d = "ok"
    BY <1>1, FirstOf4
  <1>3. def.k # "enum" /\ def.k # "none" /\ DefFile(P, def) \in scope.visible
    BY <1>2, CheckOk DEF b, c, d
  <1>4. name \in DOMAIN P.byName /\ def = P.byName[name] /\ def.k = "message"
    BY <1>3, DefinitionFacts
  <1> QED BY <1>3, <1>4 DEF DefFile

LEMMA FirstOf6 ==
    ASSUME NEW a, NEW b, NEW c, NEW d, NEW e, NEW f,
           First(<<a, b, c, d, e, f>>) = "ok"
    PROVE  a = "ok" /\ b = "ok" /\ c = "ok" /\ d = "ok" /\ e = "ok" /\ f = "ok"
  <1> DEFINE s == <<a, b, c, d, e, f>>
  <1>1. DOMAIN s = 1 .. 6
    OBVIOUS
  <1>2. s[1] = a /\ s[2] = b /\ s[3] = c /\ s[4] = d /\ s[5] = e /\ s[6] = f
    OBVIOUS
  <1> HIDE DEF s
  <1>3. \A i \in 1 .. 6 : s[i] = "ok"
    BY <1>1, FirstOk DEF s
  <1> QED BY <1>2, <1>3

\* A field that is linked without an error.
FieldLinked(P, scope, f, fd) ==
    /\ fd.name = f.name /\ fd.number = f.number
    /\ fd.enumType \in {"none", "open"}
    /\ Resolved(P, scope, fd.kind)

LEMMA LinkFieldFacts ==
    ASSUME NEW P, NamesTyped(P), NEW scope, NEW fqn, NEW f, NEW parent, NEW containing
    PROVE  LET r == LinkField(P, scope, fqn, f, parent, containing) IN
           /\ DOMAIN r.fd = FieldFields
           /\ r.fd.name = f.name /\ r.fd.number = f.number
           /\ r.err = "ok" => FieldLinked(P, scope, f, r.fd)
  <1> DEFINE r == LinkField(P, scope, fqn, f, parent, containing)
             feats == Merge(parent, f.feats)
             elem == ResolveSingular(P, scope, f.type, f.typeName)
             map == FieldMap(P, scope, fqn, f, containing, elem)
             packable == Packable(FieldCard(f, map), map.kind)
             fd == FieldDescriptor(P, f, feats, containing, elem, map, packable)
             label == LabelErr(scope, f, feats, containing # <<>>)
             type == TypeErr(P, scope, f, containing, elem, map)
             earlier == First(<<label, type>>)
             option == OptionErr(f, containing, fd, packable)
  <1>1. r = [err |-> First(<<earlier, option>>), fd |-> fd]
    BY DEF LinkField, ResolvedField, TypedField, CheckedField
  <1>2. /\ DOMAIN fd = FieldFields /\ fd.name = f.name /\ fd.number = f.number
        /\ fd.kind = map.kind /\ fd.enumType = FieldEnumType(P, map.feats, map.kind)
    <2> HIDE DEF feats, elem, map, packable
    <2> QED BY DEF FieldDescriptor, FieldFields
  <1> HIDE DEF r, fd, option, label, feats, packable
  <1>3. fd.enumType \in {"none", "open"}
    BY <1>2 DEF FieldEnumType
  <1>4. ASSUME r.err = "ok" PROVE Resolved(P, scope, map.kind)
    <2>1. type = "ok"
      <3> HIDE DEF type, earlier
      <3>1. earlier = "ok"
        BY <1>1, <1>4, FirstOf2
      <3> QED BY <3>1, FirstOf2 DEF earlier
    <2>2. elem.err = "ok" /\ map.err = "ok"
      <3> HIDE DEF elem, map
      <3> QED BY <2>1, FirstOf6 DEF TypeErr
    <2>3. Resolved(P, scope, elem.kind)
      BY <2>2, ResolveSingularFacts
    <2> DEFINE entries == IF IsMessageType(elem) /\ containing # <<>>
                     THEN FindMapEntry(P, fqn, containing[1], f, elem.kind.i)
                     ELSE {}
               entry == CHOOSE e \in entries : TRUE
    <2>4. CASE entries = {}
      <3>1. map.kind = elem.kind
        <4> HIDE DEF elem
        <4> QED BY <2>4 DEF FieldMap
      <3> QED BY <2>3, <3>1
    <2>5. CASE entries # {}
      <3>1. map = ResolveMapEntry(P, scope, entry)
        <4> HIDE DEF elem
        <4> QED BY <2>5 DEF FieldMap
      <3> HIDE DEF entry, map
      <3> DEFINE value == ResolveSingular(P, scope, entry.fields[2].type,
                                          entry.fields[2].typeName)
      <3>2. map.err = value.err /\ map.kind = value.kind
        <4> HIDE DEF value
        <4>1. map.err # "MalformedMapEntry"
          BY <2>2
        <4> QED BY <3>1, <4>1 DEF ResolveMapEntry, value
      <3> QED BY <2>2, <3>2, ResolveSingularFacts
    <2> QED BY <2>4, <2>5
  <1> HIDE DEF map
  <1>5. r.fd = fd
    BY <1>1
  <1> QED BY <1>2, <1>3, <1>4, <1>5 DEF FieldLinked, r

LEMMA SymbolFree ==
    ASSUME NEW taken, NEW fqn, NEW kind, SymbolErr(taken, fqn, kind) = "ok"
    PROVE  fqn \notin taken
  <1> DEFINE a == Check(kind \notin {"field", "oneof"} /\ Len(fqn) > MaxSymbolLen,
                        "NameTooLong")
             b == Check(fqn \in taken, "DuplicateName")
  <1>1. First(<<a, b>>) = "ok"
    BY DEF SymbolErr
  <1> HIDE DEF a, b
  <1>2. b = "ok"
    BY <1>1, FirstOf2
  <1> QED BY <1>2, CheckOk DEF b

LEMMA FieldErrOk ==
    ASSUME NEW taken, NEW fqn, NEW msg, NEW feats, NEW fs, NEW i,
           FieldErr(taken, fqn, msg, feats, fs, i) = "ok"
    PROVE  /\ fs[i].err = "ok"
           /\ \A j \in 1 .. i - 1 : fs[j].fd.number # fs[i].fd.number
           /\ Append(fqn, fs[i].fd.name) \notin taken
  <1> DEFINE f == msg.fields[i]
             fd == fs[i].fd
             names == UNION {NamesTaken(msg, feats, fs[j].fd) : j \in 1 .. i - 1}
             a == Check(f.oneof # 0 /\ f.oneof \notin DOMAIN msg.oneofs, "InvalidOneofIndex")
             b == fs[i].err
             c == Check(fd.name \in Range(msg.reservedNames), "ReservedMessageFieldName")
             d == Check(InRanges(msg.reservedRanges, fd.number), "ReservedMessageFieldNumber")
             e == Check(\E j \in 1 .. i - 1 : fs[j].fd.number = fd.number,
                        "DuplicateFieldNumber")
             g == Check(fd.name \in names, "DuplicateFieldName")
             h == SymbolErr(taken, Append(fqn, fd.name), "field")
             k == Check(NewJson(msg, feats, fd) /\ fd.json \in names, "DuplicateFieldName")
             s == <<a, b, c, d, e, g, h, k>>
  <1>1. First(s) = "ok"
    BY DEF FieldErr
  <1> HIDE DEF a, b, c, d, e, g, h, k
  <1>2. DOMAIN s = 1 .. 8 /\ s[2] = b /\ s[5] = e /\ s[7] = h
    OBVIOUS
  <1> HIDE DEF s
  <1>3. \A j \in 1 .. 8 : s[j] = "ok"
    BY <1>1, <1>2, FirstOk
  <1>4. b = "ok" /\ e = "ok" /\ h = "ok"
    BY <1>2, <1>3
  <1>5. ~ \E j \in 1 .. i - 1 : fs[j].fd.number = fd.number
    BY <1>4, CheckOk DEF e
  <1>6. Append(fqn, fd.name) \notin taken
    BY <1>4, SymbolFree DEF h
  <1> QED BY <1>4, <1>5, <1>6 DEF b

LEMMA OneofNamesFree ==
    ASSUME NEW P, NEW fqn, NEW names, IsSeq(names),
           OneofNamesErr(P, fqn, names) = "ok"
    PROVE  \A o \in Range(names) : Append(fqn, o) \notin DOMAIN P.symbols
  <1> DEFINE a(i) == Check(\E j \in 1 .. i - 1 : names[j] = names[i], "DuplicateOneofName")
             b(i) == SymbolErr(DOMAIN P.symbols, Append(fqn, names[i]), "oneof")
             s == [i \in DOMAIN names |-> First(<<a(i), b(i)>>)]
  <1>1. First(s) = "ok"
    BY DEF OneofNamesErr
  <1> HIDE DEF a, b
  <1>2. Len(names) \in Nat /\ DOMAIN names = 1 .. Len(names)
    BY SeqFacts
  <1>3. \A i \in 1 .. Len(names) : s[i] = "ok"
    <2>1. DOMAIN s = 1 .. Len(names)
      BY <1>2
    <2> HIDE DEF s
    <2> QED BY <1>1, <1>2, <2>1, FirstOk
  <1>4. ASSUME NEW i \in 1 .. Len(names) PROVE Append(fqn, names[i]) \notin DOMAIN P.symbols
    <2>1. First(<<a(i), b(i)>>) = "ok"
      BY <1>2, <1>3
    <2>2. b(i) = "ok"
      BY <2>1, FirstOf2
    <2> QED BY <2>2, SymbolFree DEF b
  <1> QED BY <1>2, <1>4 DEF Range

LEMMA ExtensionRangesOk ==
    ASSUME NEW msg, NEW fields, IsSeq(msg.ranges), IsSeq(fields),
           ExtensionRangesErr(msg, fields) = "ok"
    PROVE  \A i \in 1 .. Len(fields) : ~ InRanges(msg.ranges, fields[i].number)
  <1> DEFINE s == [i \in DOMAIN msg.ranges |->
          LET r == msg.ranges[i]
          IN  First(<<Check(~ ValidRange(r), "InvalidExtensionRange"),
                      Check(r[2] > MaxFieldNumber + 1 /\ ~ msg.messageSet,
                            "ExtensionRangeEndTooLarge"),
                      Check(\E x \in Range(msg.reservedRanges) : Overlap(r, x),
                            "ReservedExtensionRange")>>)]
             a == Check(Overlapping(msg.ranges), "OverlappingExtensionRange")
             b == Check(\E i \in DOMAIN fields : InRanges(msg.ranges, fields[i].number),
                        "FieldNumberInExtensionRange")
             t == <<a, b>>
             n == Len(msg.ranges)
  <1>1. First(s \o t) = "ok"
    BY DEF ExtensionRangesErr
  <1>2. n \in Nat /\ DOMAIN msg.ranges = 1 .. n
    BY SeqFacts
  <1>3. IsSeq(s) /\ Len(s) = n
    <2>1. DOMAIN s = 1 .. n /\ s = [i \in 1 .. n |-> s[i]]
      BY <1>2
    <2> HIDE DEF s
    <2> QED BY <1>2, <2>1, SeqMade
  <1> HIDE DEF s, a, b
  <1>4. IsSeq(t) /\ Len(t) = 2
    <2>1. DOMAIN t = 1 .. 2 /\ t = [i \in 1 .. 2 |-> t[i]]
      OBVIOUS
    <2> HIDE DEF t
    <2> QED BY <2>1, SeqMade
  <1>5. t[2] = b
    OBVIOUS
  <1> HIDE DEF t
  <1>6. /\ IsSeq(s \o t) /\ Len(s \o t) = n + 2
        /\ (s \o t)[n + 2] = t[2]
    <2>1. 2 \in 1 .. Len(t)
      BY <1>4
    <2>2. /\ IsSeq(s \o t) /\ Len(s \o t) = Len(s) + Len(t)
          /\ \A i \in 1 .. Len(t) : (s \o t)[Len(s) + i] = t[i]
      <3>1. IsSeq(s) /\ IsSeq(t)
        BY <1>3, <1>4
      <3> QED BY <3>1, ConcatFacts
    <2>3. (s \o t)[Len(s) + 2] = t[2]
      BY <2>1, <2>2
    <2> QED BY <1>3, <1>4, <2>2, <2>3
  <1>7. DOMAIN (s \o t) = 1 .. n + 2
    BY <1>6, SeqFacts
  <1>8. (s \o t)[n + 2] = "ok"
    <2>1. n + 2 \in Nat /\ n + 2 \in 1 .. n + 2
      BY <1>2
    <2> QED BY <1>1, <1>7, <2>1, FirstOk
  <1>9. ~ \E i \in DOMAIN fields : InRanges(msg.ranges, fields[i].number)
    BY <1>5, <1>6, <1>8, CheckOk DEF b
  <1> QED BY <1>9, SeqFacts

\* The fields of a message that is linked without an error.
FieldsLinked(P, scope, msg, fields) ==
    /\ IsSeq(fields) /\ Len(fields) = Len(msg.fields)
    /\ \A i \in 1 .. Len(fields) :
          /\ fields[i].number \in Int
          /\ FieldLinked(P, scope, msg.fields[i], fields[i])
          /\ ~ InRanges(msg.ranges, fields[i].number)
          /\ \A j \in 1 .. i - 1 : fields[j].number # fields[i].number

\* A message that is linked without an error.
MessageMade(P, scope, fqn, msg, fields) ==
    /\ FieldsLinked(P, scope, msg, fields)
    /\ \A i \in 1 .. Len(fields) : DOMAIN fields[i] = FieldFields
    /\ OneofSymbols(fqn, msg) \cap DOMAIN P.symbols = {}
    /\ Inside(fqn, msg.fields) \cap DOMAIN P.symbols = {}

LEMMA LinkMessageFacts ==
    ASSUME NEW P, NamesTyped(P), NEW scope, NEW fqn, NEW msg \in MessageDefs,
           NEW feats, NEW next
    PROVE  LET r == LinkMessage(P, scope, fqn, msg, feats, next) IN
           \E fields :
             /\ r.P = WithMessage(P, fqn, msg, fields, next)
             /\ r.err = "ok" => MessageMade(P, scope, fqn, msg, fields)
  <1> DEFINE r == LinkMessage(P, scope, fqn, msg, feats, next)
             f(i) == LinkField(P, scope, fqn, msg.fields[i], feats, <<msg>>)
             fs == [i \in DOMAIN msg.fields |-> f(i)]
             fields == [i \in DOMAIN fs |-> fs[i].fd]
             n == Len(msg.fields)
             taken == DOMAIN P.symbols \cup OneofSymbols(fqn, msg)
             es == [i \in DOMAIN fields |-> FieldErr(taken, fqn, msg, feats, fs, i)]
  <1>1. /\ IsSeq(msg.fields) /\ IsSeq(msg.oneofs) /\ IsSeq(msg.ranges)
        /\ \A x \in Range(msg.fields) : x.number \in Int
    BY FilesAssumption
  <1>2. n \in Nat /\ DOMAIN msg.fields = 1 .. n
        /\ \A i \in 1 .. n : msg.fields[i] \in Range(msg.fields)
    BY <1>1, SeqFacts
  <1>3. /\ r.P = WithMessage(P, fqn, msg, fields, next)
        /\ r.err = MessageErr(P, scope, fqn, msg, feats, fs, fields)
    BY DEF LinkMessage, LinkedMessage
  <1> HIDE DEF r, f
  <1>4. /\ DOMAIN fs = 1 .. n /\ \A i \in 1 .. n : fs[i] = f(i)
        /\ DOMAIN fields = 1 .. n /\ fields = [i \in 1 .. n |-> fields[i]]
        /\ \A i \in 1 .. n : fields[i] = fs[i].fd
        /\ DOMAIN es = 1 .. n
        /\ \A i \in 1 .. n : es[i] = FieldErr(taken, fqn, msg, feats, fs, i)
    BY <1>2
  <1>5. ASSUME r.err = "ok" PROVE MessageMade(P, scope, fqn, msg, fields)
    <2> HIDE DEF fs, fields, es
    <2> DEFINE a == Check(scope.proto3 /\ msg.ranges = <<>> /\ msg.messageSet,
                          "MessageSetInProto3")
               b == Check(scope.proto3 /\ msg.ranges # <<>>, "ExtensionRangeInProto3")
               c == Check(msg.fields # <<>> /\ msg.messageSet, "MessageSetWithFields")
               d == Check(Len(msg.fields) > MaxFields, "TooManyFields")
               e == OneofNamesErr(P, fqn, msg.oneofs)
               g == Check(~ Distinct(msg.reservedNames), "DuplicateMessageReservedName")
               h == MessageReservedErr(msg.reservedRanges)
               k == First(es)
               l == OneofErr(msg, fields)
               m == ExtensionRangesErr(msg, fields)
               s == <<a, b, c, d, e, g, h, k, l, m>>
    <2>1. First(s) = "ok"
      BY <1>3, <1>5 DEF MessageErr, es
    <2> HIDE DEF a, b, c, d, e, g, h, k, l, m
    <2>2. DOMAIN s = 1 .. 10 /\ s[5] = e /\ s[8] = k /\ s[10] = m
      OBVIOUS
    <2> HIDE DEF s
    <2>3. e = "ok" /\ k = "ok" /\ m = "ok"
      <3>1. \A j \in 1 .. 10 : s[j] = "ok"
        BY <2>1, <2>2, FirstOk
      <3> QED BY <2>2, <3>1
    <2>4. IsSeq(fields) /\ Len(fields) = n
      BY <1>2, <1>4, SeqMade
    <2>5. \A i \in 1 .. n : es[i] = "ok"
      BY <1>2, <1>4, <2>3, FirstOk DEF k
    <2>6. \A o \in Range(msg.oneofs) : Append(fqn, o) \notin DOMAIN P.symbols
      BY <1>1, <2>3, OneofNamesFree DEF e
    <2>7. \A i \in 1 .. n : ~ InRanges(msg.ranges, fields[i].number)
      BY <1>1, <2>3, <2>4, ExtensionRangesOk DEF m
    <2>8. ASSUME NEW i \in 1 .. n
          PROVE  /\ fields[i].number \in Int
                 /\ DOMAIN fields[i] = FieldFields
                 /\ FieldLinked(P, scope, msg.fields[i], fields[i])
                 /\ \A j \in 1 .. i - 1 : fields[j].number # fields[i].number
                 /\ Append(fqn, msg.fields[i].name) \notin DOMAIN P.symbols
      <3>1. FieldErr(taken, fqn, msg, feats, fs, i) = "ok"
        BY <1>4, <2>5
      <3>2. /\ fs[i].err = "ok"
            /\ \A j \in 1 .. i - 1 : fs[j].fd.number # fs[i].fd.number
            /\ Append(fqn, fs[i].fd.name) \notin taken
        BY <3>1, FieldErrOk
      <3>3. /\ DOMAIN f(i).fd = FieldFields
            /\ f(i).fd.name = msg.fields[i].name /\ f(i).fd.number = msg.fields[i].number
            /\ f(i).err = "ok" => FieldLinked(P, scope, msg.fields[i], f(i).fd)
        BY LinkFieldFacts DEF f
      <3>4. fs[i] = f(i) /\ fields[i] = f(i).fd
        BY <1>4
      <3>5. \A j \in 1 .. i - 1 : fields[j] = fs[j].fd
        <4>1. \A j \in 1 .. i - 1 : j \in 1 .. n
          BY <1>2
        <4> QED BY <1>4, <4>1
      <3>6. msg.fields[i].number \in Int
        BY <1>1, <1>2
      <3> QED BY <3>2, <3>3, <3>4, <3>5, <3>6
    <2>9. OneofSymbols(fqn, msg) \cap DOMAIN P.symbols = {}
      BY <2>6 DEF OneofSymbols
    <2>10. Inside(fqn, msg.fields) \cap DOMAIN P.symbols = {}
      BY <1>2, <2>8 DEF Inside
    <2> QED BY <2>4, <2>7, <2>8, <2>9, <2>10 DEF MessageMade, FieldsLinked
  <1> HIDE DEF fields
  <1> QED BY <1>3, <1>5 DEF r

LEMMA LinkEnumOk ==
    ASSUME NEW P, NEW parent, NEW enum, IsSeq(enum.values), NEW feats,
           LinkEnum(P, parent, enum, feats).err = "ok"
    PROVE  /\ enum.values # <<>>
           /\ Inside(parent, enum.values) \cap DOMAIN P.symbols = {}
  <1> DEFINE n == Len(enum.values)
             es == [i \in DOMAIN enum.values |-> ValueErr(P, parent, enum, i)]
             a == Check(enum.values = <<>>, "EmptyEnum")
             b == Check(/\ enum.values # <<>> /\ feats.enum = "open"
                        /\ Head(enum.values).number # 0, "OpenEnumFirstValueNotZero")
             c == Check(~ Distinct(enum.reservedNames), "DuplicateEnumReservedName")
             d == EnumReservedErr(enum.reservedRanges)
             e == First(es)
  <1>1. First(<<a, b, c, d, e>>) = "ok"
    BY DEF LinkEnum, EnumErr
  <1> HIDE DEF a, b, c, d, e
  <1>2. a = "ok" /\ e = "ok"
    BY <1>1, FirstOf5
  <1>3. n \in Nat /\ DOMAIN enum.values = 1 .. n
    BY SeqFacts
  <1>4. DOMAIN es = 1 .. n /\ \A i \in 1 .. n : es[i] = ValueErr(P, parent, enum, i)
    BY <1>3
  <1> HIDE DEF es
  <1>5. \A i \in 1 .. n : es[i] = "ok"
    BY <1>2, <1>3, <1>4, FirstOk DEF e
  <1>6. ASSUME NEW i \in 1 .. n
        PROVE  Append(parent, enum.values[i].name) \notin DOMAIN P.symbols
    <2> DEFINE v == enum.values[i]
               fqn == Append(parent, v.name)
               f == Check(\E j \in 1 .. i - 1 : enum.values[j].name = v.name,
                          "DuplicateEnumValueName")
               g == Check(v.name \in Range(enum.reservedNames), "ReservedEnumValueName")
               h == Check(InRanges(HalfOpen(enum.reservedRanges), v.number),
                          "ReservedEnumValueNumber")
               k == Check(~ enum.allowAlias
                            /\ \E j \in 1 .. i - 1 : enum.values[j].number = v.number,
                          "DuplicateEnumValueNumber")
               l == Check(fqn \in DOMAIN P.symbols
                            /\ P.symbols[fqn] = "value", "DuplicateEnumValueName")
               m == SymbolErr(DOMAIN P.symbols, fqn, "value")
    <2>1. ValueErr(P, parent, enum, i) = First(<<f, g, h, k, l, m>>)
      BY Zenon DEF ValueErr
    <2> HIDE DEF f, g, h, k, l, m
    <2>2. ValueErr(P, parent, enum, i) = "ok"
      BY <1>4, <1>5
    <2>3. First(<<f, g, h, k, l, m>>) = "ok"
      BY <2>1, <2>2
    <2>4. m = "ok"
      BY <2>3, FirstOf6
    <2> QED BY <2>4, SymbolFree DEF m
  <1>7. enum.values # <<>>
    BY <1>2, CheckOk DEF a
  <1> QED BY <1>3, <1>6, <1>7 DEF Inside

\* The message at i has a name, and the scope sees it.
MessageSeen(P, scope, i) ==
    /\ \E name \in DOMAIN P.byName :
          P.byName[name].k = "message" /\ P.byName[name].i = i
    /\ P.messageFile[i] \in scope.visible

\* A service that is linked without an error.
ServiceMade(P, scope, parent, svc) ==
    LET fqn == Append(parent, svc.name) IN
    /\ fqn \notin DOMAIN P.symbols
    /\ Inside(fqn, svc.methods) \cap DOMAIN P.symbols = {}
    /\ \A i \in 1 .. Len(svc.methods) :
         /\ MessageSeen(P, scope, LinkedMethod(P, svc.methods[i]).input)
         /\ MessageSeen(P, scope, LinkedMethod(P, svc.methods[i]).output)

LEMMA LinkServiceOk ==
    ASSUME NEW P, NamesTyped(P), NEW scope, NEW parent, NEW svc, IsSeq(svc.methods),
           LinkService(P, scope, parent, svc).err = "ok"
    PROVE  ServiceMade(P, scope, parent, svc)
  <1> DEFINE fqn == Append(parent, svc.name)
             members == Inside(fqn, svc.methods)
             n == Len(svc.methods)
             es == [i \in DOMAIN svc.methods |-> MethodErr(P, scope, fqn, svc.methods, i)]
             a == First(es)
             b == SymbolErr(DOMAIN P.symbols \cup members, fqn, "service")
  <1>1. First(<<a, b>>) = "ok"
    BY DEF LinkService
  <1> HIDE DEF a, b
  <1>2. a = "ok" /\ b = "ok"
    BY <1>1, FirstOf2
  <1>3. n \in Nat /\ DOMAIN svc.methods = 1 .. n
    BY SeqFacts
  <1>4. DOMAIN es = 1 .. n
        /\ \A i \in 1 .. n : es[i] = MethodErr(P, scope, fqn, svc.methods, i)
    BY <1>3
  <1> HIDE DEF es
  <1>5. \A i \in 1 .. n : es[i] = "ok"
    BY <1>2, <1>3, <1>4, FirstOk DEF a
  <1>6. ASSUME NEW i \in 1 .. n
        PROVE  /\ Append(fqn, svc.methods[i].name) \notin DOMAIN P.symbols
               /\ MessageSeen(P, scope, LinkedMethod(P, svc.methods[i]).input)
               /\ MessageSeen(P, scope, LinkedMethod(P, svc.methods[i]).output)
    <2> DEFINE m == svc.methods[i]
               c == Check(\E j \in 1 .. i - 1 : svc.methods[j].name = m.name,
                          "DuplicateMethodName")
               d == SymbolErr(DOMAIN P.symbols, Append(fqn, m.name), "method")
               e == MessageNameErr(P, scope, m.input)
               f == MessageNameErr(P, scope, m.output)
    <2>1. First(<<c, d, e, f>>) = "ok"
      BY <1>4, <1>5 DEF MethodErr
    <2> HIDE DEF c, d, e, f, m
    <2>2. d = "ok" /\ e = "ok" /\ f = "ok"
      BY <2>1, FirstOf4
    <2>3. Append(fqn, m.name) \notin DOMAIN P.symbols
      BY <2>2, SymbolFree DEF d
    <2>4. /\ m.input \in DOMAIN P.byName /\ Definition(P, m.input) = P.byName[m.input]
          /\ P.byName[m.input].k = "message"
          /\ P.messageFile[P.byName[m.input].i] \in scope.visible
      BY <2>2, MessageNameFacts DEF e
    <2>5. /\ m.output \in DOMAIN P.byName /\ Definition(P, m.output) = P.byName[m.output]
          /\ P.byName[m.output].k = "message"
          /\ P.messageFile[P.byName[m.output].i] \in scope.visible
      BY <2>2, MessageNameFacts DEF f
    <2>6. /\ LinkedMethod(P, m).input = P.byName[m.input].i
          /\ LinkedMethod(P, m).output = P.byName[m.output].i
      BY <2>4, <2>5 DEF LinkedMethod
    <2> QED BY <2>3, <2>4, <2>5, <2>6 DEF MessageSeen, m
  <1>7. fqn \notin DOMAIN P.symbols
    BY <1>2, SymbolFree DEF b
  <1>8. members \cap DOMAIN P.symbols = {}
    BY <1>3, <1>6 DEF Inside
  <1> QED BY <1>6, <1>7, <1>8 DEF ServiceMade

ExtensionAdded(P, Q, scope, parent, ext) ==
    LET fqn == Append(parent, ext.name)
        idx == Len(P.extensions) + 1
    IN
    /\ Shape(Q) /\ SameFiles(P, Q) /\ SameTypes(P, Q) /\ SameServices(P, Q)
    /\ DOMAIN Q.symbols = DOMAIN P.symbols \cup {fqn}
    /\ fqn \notin DOMAIN P.symbols
    /\ Q.extensionByName = Put(P.extensionByName, fqn, idx)
    /\ \E fd, extendee :
         /\ Q.extensionByExtendee
              = Put(P.extensionByExtendee, <<extendee, fd.number>>, idx)
         /\ Q.extensions = Append(P.extensions,
              [fullName |-> fqn, field |-> fd, extendee |-> extendee])
         /\ DOMAIN fd = FieldFields /\ FieldLinked(P, scope, ext, fd)
         /\ MessageSeen(P, scope, extendee)
         /\ InRanges(P.messages[extendee].ranges, fd.number)
         /\ <<extendee, fd.number>> \notin DOMAIN P.extensionByExtendee
         /\ ~ (fd.kind.k = "message"
                 /\ P.messages[fd.kind.i].options.mapEntry)

LEMMA LinkExtensionFacts ==
    ASSUME NEW P, Shape(P), NamesTyped(P), NEW scope, NEW parent, NEW ext, NEW feats,
           LinkExtension(P, scope, parent, ext, feats).err = "ok"
    PROVE  ExtensionAdded(P, LinkExtension(P, scope, parent, ext, feats).P, scope, parent, ext)
  <1> DEFINE R == LinkExtension(P, scope, parent, ext, feats)
             fqn == Append(parent, ext.name)
             W == WithSymbols(P, {fqn}, "extension")
             a == SymbolErr(DOMAIN P.symbols, fqn, "extension")
             b == MessageNameErr(W, scope, ext.extendee)
             extendee == Definition(W, ext.extendee).i
             lf == LinkField(W, scope, parent, ext, feats, <<>>)
             fd == [lf.fd EXCEPT !.oneof = 0]
             key == <<extendee, fd.number>>
             target == W.messages[extendee]
             idx == Len(P.extensions) + 1
  <1>1. /\ Shape(W) /\ SameFiles(P, W) /\ SameTypes(P, W)
        /\ SameServices(P, W) /\ SameExtensions(P, W)
        /\ DOMAIN W.symbols = DOMAIN P.symbols \cup {fqn}
    BY WithSymbolsFacts
  <1>2. /\ First(<<a, b>>) = "ok"
        /\ R = WithExtension(W, scope, fqn, extendee, lf)
    BY DEF LinkExtension, WithSymbol
  <1> HIDE DEF W, R, a, b
  <1>3. a = "ok" /\ b = "ok"
    BY <1>2, FirstOf2
  <1>4. fqn \notin DOMAIN P.symbols
    BY <1>3, SymbolFree DEF a
  <1>5. NamesTyped(W)
    BY <1>1 DEF NamesTyped, SameTypes
  <1>6. MessageSeen(W, scope, extendee)
    BY <1>3, <1>5, MessageNameFacts DEF b, MessageSeen
  <1>7. MessageSeen(P, scope, extendee)
    BY <1>1, <1>6 DEF MessageSeen, SameTypes
  <1>8. /\ DOMAIN lf.fd = FieldFields
        /\ lf.err = "ok" => FieldLinked(W, scope, ext, lf.fd)
    BY <1>5, LinkFieldFacts
  <1> HIDE DEF extendee, lf
  <1>9. /\ DOMAIN fd = FieldFields /\ fd.name = lf.fd.name /\ fd.number = lf.fd.number
        /\ fd.kind = lf.fd.kind /\ fd.enumType = lf.fd.enumType
    BY <1>8 DEF FieldFields
  <1>10. R.err = ExtensionErr(W, scope, target, key, lf, fd)
    BY <1>2 DEF WithExtension
  <1>11. /\ Shape(R.P) /\ SameFiles(W, R.P) /\ SameTypes(W, R.P) /\ SameServices(W, R.P)
         /\ R.P.symbols = W.symbols
         /\ R.P.extensionByName = Put(W.extensionByName, fqn, Len(W.extensions) + 1)
         /\ R.P.extensionByExtendee
              = Put(W.extensionByExtendee, key, Len(W.extensions) + 1)
         /\ R.P.extensions = Append(W.extensions,
                [fullName |-> fqn, field |-> fd, extendee |-> extendee])
    <2> DEFINE V == WithExtension(W, scope, fqn, extendee, lf).P
    <2>1. /\ Shape(V) /\ SameFiles(W, V) /\ SameTypes(W, V) /\ SameServices(W, V)
          /\ V.symbols = W.symbols
          /\ V.extensionByName = Put(W.extensionByName, fqn, Len(W.extensions) + 1)
          /\ V.extensionByExtendee
               = Put(W.extensionByExtendee, key, Len(W.extensions) + 1)
          /\ V.extensions = Append(W.extensions,
                 [fullName |-> fqn, field |-> fd, extendee |-> extendee])
      <3>1. Shape(W)
        BY <1>1
      <3>2. DOMAIN lf.fd = FieldFields
        BY <1>8
      <3> HIDE DEF fqn, idx
      <3> QED BY <3>1, <3>2, WithExtensionFacts
    <2>2. R.P = V
      BY <1>2
    <2> HIDE DEF V, fd, key
    <2> QED BY <2>1, <2>2
  <1> HIDE DEF fd, key
  <1>12. /\ lf.err = "ok"
         /\ ~ (fd.kind.k = "message" /\ W.messages[fd.kind.i].options.mapEntry)
         /\ InRanges(target.ranges, fd.number)
         /\ key \notin DOMAIN W.extensionByExtendee
    <2> DEFINE c == Check(scope.proto3 /\ target.fullName \notin OptionsMessages,
                          "Proto3ExtensionTargetNotOptions")
               d == lf.err
               e == Check(fd.kind.k = "message" /\ W.messages[fd.kind.i].options.mapEntry,
                          "ExtensionWithMapEntryType")
               f == Check(scope.proto3 /\ ClosedEnumIn(W, fd), "Proto3ClosedEnumField")
               g == Check(/\ target.options.messageSet
                          /\ fd.delimited \/ fd.card # "singular" \/ fd.kind.k # "message",
                          "InvalidMessageSetExtension")
               h == Check(~ InRanges(target.ranges, fd.number), "InvalidFieldNumber")
               k == Check(key \in DOMAIN W.extensionByExtendee, "DuplicateExtensionNumber")
               s == <<c, d, e, f, g, h, k>>
    <2>1. First(s) = "ok"
      <3>1. R.err = "ok"
        BY DEF R
      <3> QED BY <1>10, <3>1 DEF ExtensionErr
    <2> HIDE DEF c, d, e, f, g, h, k
    <2>2. DOMAIN s = 1 .. 7 /\ s[2] = d /\ s[3] = e /\ s[6] = h /\ s[7] = k
      OBVIOUS
    <2> HIDE DEF s
    <2>3. \A j \in 1 .. 7 : s[j] = "ok"
      BY <2>1, <2>2, FirstOk
    <2>4. d = "ok" /\ e = "ok" /\ h = "ok" /\ k = "ok"
      BY <2>2, <2>3
    <2>5. ~ (fd.kind.k = "message" /\ W.messages[fd.kind.i].options.mapEntry)
      BY <2>4, CheckOk DEF e
    <2>6. InRanges(target.ranges, fd.number)
      BY <2>4, CheckOk DEF h
    <2>7. key \notin DOMAIN W.extensionByExtendee
      BY <2>4, CheckOk DEF k
    <2> QED BY <2>4, <2>5, <2>6, <2>7 DEF d
  <1>13. FieldLinked(P, scope, ext, fd)
    <2>1. FieldLinked(W, scope, ext, lf.fd)
      BY <1>8, <1>12
    <2>2. DefFile(P, fd.kind) = DefFile(W, fd.kind)
      BY <1>1 DEF DefFile, SameTypes
    <2> QED BY <1>1, <1>9, <2>1, <2>2 DEF FieldLinked, Resolved, SameTypes
  <1>14. /\ SameFiles(P, R.P) /\ SameTypes(P, R.P) /\ SameServices(P, R.P)
         /\ DOMAIN R.P.symbols = DOMAIN P.symbols \cup {fqn}
         /\ R.P.extensionByName = Put(P.extensionByName, fqn, idx)
         /\ R.P.extensionByExtendee = Put(P.extensionByExtendee, key, idx)
         /\ R.P.extensions = Append(P.extensions,
                [fullName |-> fqn, field |-> fd, extendee |-> extendee])
    BY <1>1, <1>11 DEF SameFiles, SameTypes, SameServices, SameExtensions
  <1>15. /\ ~ (fd.kind.k = "message" /\ P.messages[fd.kind.i].options.mapEntry)
         /\ InRanges(P.messages[extendee].ranges, fd.number)
         /\ key \notin DOMAIN P.extensionByExtendee
    BY <1>1, <1>12 DEF SameTypes, SameExtensions
  <1>16. key = <<extendee, fd.number>>
    BY DEF key
  <1>17. \E x, e :
                /\ R.P.extensionByExtendee
                     = Put(P.extensionByExtendee, <<e, x.number>>, idx)
                /\ R.P.extensions = Append(P.extensions,
                     [fullName |-> fqn, field |-> x, extendee |-> e])
                /\ DOMAIN x = FieldFields /\ FieldLinked(P, scope, ext, x)
                /\ MessageSeen(P, scope, e)
                /\ InRanges(P.messages[e].ranges, x.number)
                /\ <<e, x.number>> \notin DOMAIN P.extensionByExtendee
                /\ ~ (x.kind.k = "message"
                        /\ P.messages[x.kind.i].options.mapEntry)
    BY <1>7, <1>9, <1>13, <1>14, <1>15, <1>16
  <1> HIDE DEF fqn, idx
  <1> QED BY <1>4, <1>11, <1>14, <1>17 DEF R, fqn, idx, ExtensionAdded

(***************************************************************************)
(* The steps of a call.  Each step is one of these; the proofs below go by *)
(* them and not by the actions.                                            *)
(***************************************************************************)
Still == UNCHANGED <<pool, staged, pass, news, todo, linked>>

\* A call that fails, or the turn to the clone.
Ended ==
    /\ pass' = "idle" /\ staged' = EmptyPool
    /\ news' = <<>> /\ todo' = <<>> /\ linked' = 0
    /\ pool' \in {pool, past.before}

WithFiles(P, fresh) ==
    [P EXCEPT !.fileByName =
        [n \in (DOMAIN @ \cup {f.name : f \in Range(fresh)}) \ {Absent} |->
            IF n \in DOMAIN @ THEN @[n]
            ELSE Len(P.files) + (CHOOSE i \in DOMAIN fresh : fresh[i].name = n)]]
Begun ==
    /\ pass = "idle" /\ pass' = "register"
    /\ news' \in Seq(scenario)
    /\ staged' = WithFiles(pool, news') /\ todo' = AllTypes(news')
    /\ UNCHANGED <<pool, linked>>

\* The walk goes on with P.
Onward(P) ==
    /\ staged' = P
    /\ IsSeq(Expand(Item)) /\ todo' = Expand(Item) \o Tail(todo)
    /\ UNCHANGED <<pool, pass, news>>
Paused == UNCHANGED linked

MessageRegistered ==
    /\ Visiting("register", "message") /\ Paused
    /\ SymbolErr(DOMAIN staged.symbols, Fqn(Item), "message") = "ok"
    /\ Onward(RegisteredMessage(staged, Fqn(Item), Item.d, Item.file))
EnumRegistered ==
    /\ Visiting("register", "enum") /\ Paused
    /\ SymbolErr(DOMAIN staged.symbols, Fqn(Item), "enum") = "ok"
    /\ Onward(RegisteredEnum(staged, Fqn(Item), Item.file))
TypesRegistered ==
    /\ pass = "register" /\ todo = <<>> /\ pass' = "link"
    /\ todo' = AllTypes(news) /\ linked' = Len(pool.messages) + 1
    /\ UNCHANGED <<pool, staged, news>>
MessageLinked ==
    /\ Visiting("link", "message") /\ linked' = linked + 1
    /\ LET r == LinkMessage(staged, Scope(Item.file), Fqn(Item), Item.d,
                            ItemFeats(Item), linked)
       IN  r.err = "ok" /\ Onward(r.P)
EnumLinked ==
    /\ Visiting("link", "enum") /\ Paused
    /\ LET r == LinkEnum(staged, Item.parent, Item.d, ItemFeats(Item))
       IN  r.err = "ok" /\ Onward(r.P)
TypesLinked ==
    /\ pass = "link" /\ todo = <<>> /\ pass' = "services"
    /\ todo' = AllServices(news)
    /\ UNCHANGED <<pool, staged, news, linked>>
ServiceLinked ==
    /\ Visiting("services", "service") /\ Paused
    /\ LET r == LinkService(staged, Scope(Item.file), Item.parent, Item.d)
       IN  r.err = "ok" /\ Onward(r.P)
ExtensionLinked ==
    /\ Visiting("services", "extension") /\ Paused
    /\ LET r == LinkExtension(staged, Scope(Item.file), Item.parent, Item.d,
                              Item.feats)
       IN  r.err = "ok" /\ Onward(r.P)
NestedOpened == Visiting("services", "nested") /\ Paused /\ Onward(staged)
FieldsFinal ==
    /\ pass = "services" /\ todo = <<>> /\ pass' = "index"
    /\ todo' = AllDefinitions(news)
    /\ staged' = Finalized(staged, Len(pool.messages) + 1, Len(pool.extensions) + 1)
    /\ UNCHANGED <<pool, news, linked>>
Indexed(P, item) ==
    [P EXCEPT !.symbolFile = [s \in DOMAIN @ \cup SymbolsOf(item) |->
        IF s \in SymbolsOf(item) THEN item.file ELSE @[s]]]
ItemIndexed ==
    /\ pass = "index" /\ todo # <<>> /\ Paused
    /\ Onward(Indexed(staged, Item))
Committed ==
    /\ pass = "index" /\ todo = <<>> /\ pass' = "idle"
    /\ LinkedEnumErr(Whole, Len(pool.messages) + 1) = "ok"
    /\ pool' = Whole
    /\ staged' = EmptyPool /\ news' = <<>> /\ todo' = <<>> /\ linked' = 0

Walks ==
    \/ MessageRegistered \/ EnumRegistered \/ MessageLinked \/ EnumLinked
    \/ ServiceLinked \/ ExtensionLinked \/ NestedOpened \/ ItemIndexed
Switches == TypesRegistered \/ TypesLinked \/ FieldsFinal
CallSteps == Still \/ Ended \/ Begun \/ Walks \/ Switches \/ Committed

PassKinds(p) ==
    CASE p \in {"register", "link"} -> {"message", "enum"}
      [] p = "services"             -> {"service", "extension", "nested"}
      [] p = "index"                -> {"message", "enum", "service", "extension"}
      [] OTHER                      -> {}

\* The rounds and the call: the files come from the scenario, a pool has its
\* shape, and the worklist has items that the pass knows, of new files.
RoundsOK ==
    /\ scenario \in Scenarios
    /\ past.added \subseteq scenario /\ again \subseteq scenario
    /\ DOMAIN past = {"before", "added", "whole", "verdict", "after"}
    /\ Shape(pool) /\ Shape(past.before)
CallOK ==
    /\ pass \in {"idle", "register", "link", "services", "index"}
    /\ news \in Seq(scenario)
    /\ Shape(staged) /\ IsSeq(todo)
    /\ pass = "idle" =>
          staged = EmptyPool /\ news = <<>> /\ todo = <<>> /\ linked = 0
    /\ pass # "idle" => staged.files = pool.files
    /\ \A x \in Range(todo) :
          ItemOK(x) /\ x.k \in PassKinds(pass) /\ x.file \in NewNumbers
CallInv == RoundsOK /\ CallOK

\* The first item of a worklist that is not empty.
LEMMA ItemFacts ==
    ASSUME CallOK, todo # <<>>
    PROVE  /\ ItemOK(Item) /\ Item.k \in PassKinds(pass) /\ Item.file \in NewNumbers
           /\ IsSeq(Expand(Item)) /\ IsSeq(Tail(todo)) /\ Item \in Range(todo)
           /\ Range(todo) = {Item} \cup Range(Tail(todo))
           /\ pass # "idle"
  <1>1. /\ IsSeq(Tail(todo)) /\ Range(todo) = {Item} \cup Range(Tail(todo))
        /\ pass # "idle"
    BY TailFacts DEF CallOK, Item
  <1>2. ItemOK(Item) /\ Item.k \in PassKinds(pass) /\ Item.file \in NewNumbers
    BY <1>1 DEF CallOK
  <1>3. IsSeq(Expand(Item))
    BY <1>2, ExpandFacts
  <1> QED BY <1>1, <1>2, <1>3

\* A step on one item ends the call or goes on.
LEMMA GoOnSteps ==
    ASSUME CallOK, NEW err, NEW P, todo # <<>>, NEW front, GoOn(err, P, front),
           front = Expand(Item)
    PROVE  \/ Ended
           \/ /\ err = "ok" /\ Onward(P)
              /\ linked' = IF Visiting("link", "message") THEN linked + 1 ELSE linked
  <1>1. CASE err # "ok"
    BY <1>1 DEF GoOn, Return, Ended
  <1>2. CASE err = "ok"
    BY <1>2, ItemFacts DEF GoOn, Onward
  <1> QED BY <1>1, <1>2

LEMMA BatchFacts ==
    ASSUME NEW files, NEW set \in Batches(files)
    PROVE  IsSeq(set) /\ Range(set) \subseteq files
  <1>1. PICK n \in 1 .. Cardinality(files) : set \in [1 .. n -> files]
    BY DEF Batches
  <1>2. n \in Nat /\ DOMAIN set = 1 .. n /\ set = [i \in 1 .. n |-> set[i]]
    BY <1>1
  <1>3. IsSeq(set)
    BY <1>2, SeqMade
  <1> QED BY <1>1, <1>3 DEF Range

LEMMA AddSteps ==
    ASSUME CallInv, pass = "idle", NEW set, IsSeq(set), Range(set) \subseteq scenario,
           Add(set)
    PROVE  Ended \/ Begun
  <1> DEFINE fresh == NewFiles(pool, set)
             named == WithFiles(pool, fresh)
             err == First(<<SetErr(pool, set)>>
                     \o [i \in DOMAIN fresh |-> DependencyErr(named, fresh[i])])
  <1>1. fresh \in Seq(scenario)
    <2>1. fresh \in Seq(Range(set))
      BY NewFilesFacts
    <2> HIDE DEF fresh
    <2> QED BY <2>1
  <1> HIDE DEF fresh
  <1>2. \/ Return(err)
        \/ /\ staged' = named /\ news' = fresh /\ pass' = "register"
           /\ todo' = AllTypes(fresh) /\ UNCHANGED <<pool, linked>>
    <2>1. named = [pool EXCEPT !.fileByName =
                    [n \in (DOMAIN @ \cup {f.name : f \in Range(fresh)}) \ {Absent} |->
                        IF n \in DOMAIN @ THEN @[n]
                        ELSE Len(pool.files)
                               + (CHOOSE i \in DOMAIN fresh : fresh[i].name = n)]]
      BY DEF WithFiles
    <2> HIDE DEF named
    <2> QED BY <2>1 DEF Add, fresh
  <1>3. CASE Return(err)
    BY <1>3 DEF Return, Ended
  <1>4. CASE /\ staged' = named /\ news' = fresh /\ pass' = "register"
             /\ todo' = AllTypes(fresh) /\ UNCHANGED <<pool, linked>>
    BY <1>1, <1>4 DEF Begun
  <1> QED BY <1>2, <1>3, <1>4

\* What a step does to the rounds.
RoundSteps ==
    /\ scenario' = scenario /\ opts' = opts
    /\ past'.before \in {past.before, pool}
    /\ past'.added \subseteq scenario /\ again' \subseteq scenario
    /\ DOMAIN past' = {"before", "added", "whole", "verdict", "after"}

LEMMA NextSteps ==
    ASSUME CallInv, [Next]_vars
    PROVE  CallSteps /\ RoundSteps
  <1>1. UNCHANGED roundVars => RoundSteps
    BY DEF roundVars, RoundSteps, CallInv, RoundsOK
  <1>2. ASSUME NEW set \in Batches(scenario), AddFirst(set)
        PROVE  CallSteps /\ RoundSteps
    <2>1. IsSeq(set) /\ Range(set) \subseteq scenario
      BY BatchFacts
    <2>2. Ended \/ Begun
      BY <1>2, <2>1, AddSteps DEF AddFirst
    <2>3. RoundSteps
      <3>1. /\ past'.before = pool /\ past'.added = Range(set)
            /\ DOMAIN past' = {"before", "added", "whole", "verdict", "after"}
        BY <1>2 DEF AddFirst, NoPast
      <3> QED BY <1>2, <2>1, <3>1 DEF AddFirst, RoundSteps, CallInv, RoundsOK
    <2> QED BY <2>2, <2>3 DEF CallSteps
  <1>3. CASE RegisterMessage
    <2>1. RoundSteps
      BY <1>1, <1>3 DEF RegisterMessage
    <2>2. Visiting("register", "message") /\ todo # <<>> /\ NestedTypes(Item) = Expand(Item)
      BY <1>3 DEF RegisterMessage, Visiting, Expand
    <2>3. \/ Ended
          \/ /\ SymbolErr(DOMAIN staged.symbols, Fqn(Item), "message") = "ok"
             /\ Onward(RegisteredMessage(staged, Fqn(Item), Item.d, Item.file))
             /\ linked' = linked
      BY <1>3, <2>2, GoOnSteps DEF RegisterMessage, Register, CallInv, Visiting
    <2> QED BY <2>1, <2>2, <2>3 DEF CallSteps, Walks, MessageRegistered, Paused
  <1>4. CASE RegisterEnum
    <2>1. RoundSteps
      BY <1>1, <1>4 DEF RegisterEnum
    <2>2. Visiting("register", "enum") /\ todo # <<>> /\ <<>> = Expand(Item)
      BY <1>4 DEF RegisterEnum, Visiting, Expand
    <2>3. \/ Ended
          \/ /\ SymbolErr(DOMAIN staged.symbols, Fqn(Item), "enum") = "ok"
             /\ Onward(RegisteredEnum(staged, Fqn(Item), Item.file))
             /\ linked' = linked
      BY <1>4, <2>2, GoOnSteps DEF RegisterEnum, Register, CallInv, Visiting
    <2> QED BY <2>1, <2>2, <2>3 DEF CallSteps, Walks, EnumRegistered, Paused
  <1>5. CASE StartLinking
    BY <1>1, <1>5 DEF StartLinking, Switch, CallSteps, Switches, TypesRegistered
  <1>6. CASE LinkNextMessage
    <2> DEFINE r == LinkMessage(staged, Scope(Item.file), Fqn(Item), Item.d,
                                ItemFeats(Item), linked)
    <2>1. RoundSteps
      BY <1>1, <1>6 DEF LinkNextMessage
    <2>2. Visiting("link", "message") /\ todo # <<>> /\ NestedTypes(Item) = Expand(Item)
      BY <1>6 DEF LinkNextMessage, Visiting, Expand
    <2>3. GoOn(r.err, r.P, NestedTypes(Item))
      BY <1>6 DEF LinkNextMessage
    <2> HIDE DEF r
    <2>4. \/ Ended
          \/ r.err = "ok" /\ Onward(r.P) /\ linked' = linked + 1
      BY <2>2, <2>3, GoOnSteps DEF CallInv
    <2> QED BY <2>1, <2>2, <2>4 DEF CallSteps, Walks, MessageLinked, r
  <1>7. CASE LinkNextEnum
    <2> DEFINE r == LinkEnum(staged, Item.parent, Item.d, ItemFeats(Item))
    <2>1. RoundSteps
      BY <1>1, <1>7 DEF LinkNextEnum
    <2>2. Visiting("link", "enum") /\ todo # <<>> /\ <<>> = Expand(Item)
      BY <1>7 DEF LinkNextEnum, Visiting, Expand
    <2>3. GoOn(r.err, r.P, <<>>)
      BY <1>7 DEF LinkNextEnum
    <2> HIDE DEF r
    <2>4. \/ Ended
          \/ r.err = "ok" /\ Onward(r.P) /\ linked' = linked
      BY <2>2, <2>3, GoOnSteps DEF CallInv, Visiting
    <2> QED BY <2>1, <2>2, <2>4 DEF CallSteps, Walks, EnumLinked, Paused, r
  <1>8. CASE StartServices
    BY <1>1, <1>8 DEF StartServices, Switch, CallSteps, Switches, TypesLinked
  <1>9. CASE LinkNextService
    <2> DEFINE r == LinkService(staged, Scope(Item.file), Item.parent, Item.d)
    <2>1. RoundSteps
      BY <1>1, <1>9 DEF LinkNextService
    <2>2. Visiting("services", "service") /\ todo # <<>> /\ <<>> = Expand(Item)
      BY <1>9 DEF LinkNextService, Visiting, Expand
    <2>3. GoOn(r.err, r.P, <<>>)
      BY <1>9 DEF LinkNextService
    <2> HIDE DEF r
    <2>4. \/ Ended
          \/ r.err = "ok" /\ Onward(r.P) /\ linked' = linked
      BY <2>2, <2>3, GoOnSteps DEF CallInv, Visiting
    <2> QED BY <2>1, <2>2, <2>4 DEF CallSteps, Walks, ServiceLinked, Paused, r
  <1>10. CASE LinkNextExtension
    <2> DEFINE r == LinkExtension(staged, Scope(Item.file), Item.parent, Item.d,
                                  Item.feats)
    <2>1. RoundSteps
      BY <1>1, <1>10 DEF LinkNextExtension
    <2>2. Visiting("services", "extension") /\ todo # <<>> /\ <<>> = Expand(Item)
      BY <1>10 DEF LinkNextExtension, Visiting, Expand
    <2>3. GoOn(r.err, r.P, <<>>)
      BY <1>10 DEF LinkNextExtension
    <2> HIDE DEF r
    <2>4. \/ Ended
          \/ r.err = "ok" /\ Onward(r.P) /\ linked' = linked
      BY <2>2, <2>3, GoOnSteps DEF CallInv, Visiting
    <2> QED BY <2>1, <2>2, <2>4 DEF CallSteps, Walks, ExtensionLinked, Paused, r
  <1>11. CASE LinkNestedExtensions
    <2> DEFINE front == Items("extension", Item.d.extensions, Fqn(Item), Item.file,
                              ItemFeats(Item))
                        \o Items("nested", Item.d.nested, Fqn(Item), Item.file,
                                 ItemFeats(Item))
    <2>1. RoundSteps
      BY <1>1, <1>11 DEF LinkNestedExtensions
    <2>2. Visiting("services", "nested") /\ todo # <<>> /\ front = Expand(Item)
      BY <1>11 DEF LinkNestedExtensions, Visiting, Expand
    <2>3. GoOn("ok", staged, front)
      BY <1>11 DEF LinkNestedExtensions
    <2> HIDE DEF front
    <2>4. Ended \/ (Onward(staged) /\ linked' = linked)
      BY <2>2, <2>3, GoOnSteps DEF CallInv, Visiting
    <2> QED BY <2>1, <2>2, <2>4 DEF CallSteps, Walks, NestedOpened, Paused
  <1>12. CASE Finalize
    BY <1>1, <1>12 DEF Finalize, Switch, CallSteps, Switches, FieldsFinal
  <1>13. CASE IndexNext
    <2> DEFINE front == IF Item.k = "message" THEN NestedTypes(Item) ELSE <<>>
    <2>1. RoundSteps
      BY <1>1, <1>13 DEF IndexNext
    <2>2. pass = "index" /\ todo # <<>>
      BY <1>13 DEF IndexNext
    <2>3. front = Expand(Item)
      <3>1. Item.k \in {"message", "enum", "service", "extension"}
        BY <2>2, ItemFacts DEF CallInv, PassKinds
      <3> QED BY <3>1 DEF Expand
    <2>4. GoOn("ok", Indexed(staged, Item), front)
      BY <1>13 DEF IndexNext, Indexed
    <2> HIDE DEF front
    <2>5. Ended \/ (Onward(Indexed(staged, Item)) /\ linked' = linked)
      BY <2>2, <2>3, <2>4, GoOnSteps DEF CallInv, Visiting
    <2> QED BY <2>1, <2>2, <2>5 DEF CallSteps, Walks, ItemIndexed, Paused
  <1>14. CASE Commit
    <2>1. RoundSteps
      BY <1>1, <1>14 DEF Commit
    <2>2. Ended \/ Committed
      BY <1>14 DEF Commit, Return, Ended, Committed, Whole
    <2> QED BY <2>1, <2>2 DEF CallSteps
  <1>15. CASE Again
    <2>1. Ended
      BY <1>15 DEF Again, Ended, CallInv, CallOK
    <2>2. /\ past'.before = past.before /\ past'.added = past.added
          /\ DOMAIN past' = DOMAIN past
      BY <1>15 DEF Again, CallInv, RoundsOK
    <2>3. RoundSteps
      BY <1>15, <2>2 DEF Again, RoundSteps, CallInv, RoundsOK
    <2> QED BY <2>1, <2>3 DEF CallSteps
  <1>16. ASSUME NEW set \in Batches(again), AddAgain(set)
         PROVE  CallSteps /\ RoundSteps
    <2>1. IsSeq(set) /\ Range(set) \subseteq scenario
      BY BatchFacts DEF CallInv, RoundsOK
    <2>2. Ended \/ Begun
      BY <1>16, <2>1, AddSteps DEF AddAgain
    <2>3. RoundSteps
      <3>1. /\ past'.before = past.before /\ past'.added = past.added
            /\ DOMAIN past' = DOMAIN past
        BY <1>16 DEF AddAgain, CallInv, RoundsOK
      <3> QED BY <1>16, <3>1 DEF AddAgain, RoundSteps, CallInv, RoundsOK
    <2> QED BY <2>2, <2>3 DEF CallSteps
  <1>17. CASE UNCHANGED vars
    BY <1>1, <1>17 DEF vars, roundVars, CallSteps, Still
  <1>18. CASE Rest
    BY <1>17, <1>18 DEF Rest
  <1> QED BY <1>2, <1>3, <1>4, <1>5, <1>6, <1>7, <1>8, <1>9, <1>10, <1>11, <1>12,
             <1>13, <1>14, <1>15, <1>16, <1>17, <1>18 DEF Next

(***************************************************************************)
(* CallInv is an invariant, and with it that names lead to messages and    *)
(* enums only.                                                             *)
(***************************************************************************)
LEMMA EmptyFacts ==
    /\ IsSeq(<<>>) /\ Len(<<>>) = 0 /\ Range(<<>>) = {} /\ DOMAIN <<>> = {}
    /\ Shape(EmptyPool) /\ NamesTyped(EmptyPool)
  <1>1. <<>> \in Seq({}) /\ DOMAIN <<>> = {} /\ Len(<<>>) = 0
    OBVIOUS
  <1>2. Range(<<>>) = {}
    BY <1>1 DEF Range
  <1>3. IsSeq(<<>>)
    BY <1>1, <1>2 DEF IsSeq
  <1>4. DOMAIN EmptyPool = PoolFields
    BY DEF EmptyPool, PoolFields
  <1>5. Shape(EmptyPool)
    BY <1>1, <1>3, <1>4 DEF EmptyPool, Shape
  <1>6. NamesTyped(EmptyPool)
    BY <1>1 DEF EmptyPool, NamesTyped
  <1> QED BY <1>1, <1>2, <1>3, <1>5, <1>6

FilesNamed(P, Q, fresh) ==
    /\ Shape(Q) /\ SameTypes(P, Q) /\ SameServices(P, Q) /\ SameExtensions(P, Q)
    /\ Q.files = P.files /\ Q.symbols = P.symbols /\ Q.symbolFile = P.symbolFile
    /\ Q.fileByName =
         [n \in (DOMAIN P.fileByName \cup {f.name : f \in Range(fresh)}) \ {Absent} |->
             IF n \in DOMAIN P.fileByName THEN P.fileByName[n]
             ELSE Len(P.files) + (CHOOSE i \in DOMAIN fresh : fresh[i].name = n)]

LEMMA WithFilesFacts ==
    ASSUME NEW P, Shape(P), NEW fresh
    PROVE  FilesNamed(P, WithFiles(P, fresh), fresh)
  <1> DEFINE Q == WithFiles(P, fresh)
             g == [n \in (DOMAIN P.fileByName \cup {f.name : f \in Range(fresh)}) \ {Absent} |->
                    IF n \in DOMAIN P.fileByName THEN P.fileByName[n]
                    ELSE Len(P.files) + (CHOOSE i \in DOMAIN fresh : fresh[i].name = n)]
  <1>1. Q = [P EXCEPT !.fileByName = g]
    BY DEF WithFiles
  <1>2. DOMAIN P = PoolFields
    BY DEF Shape
  <1> HIDE DEF Q, g
  <1>3. /\ DOMAIN Q = PoolFields /\ Q.fileByName = g
        /\ Q.files = P.files /\ Q.messages = P.messages /\ Q.enums = P.enums
        /\ Q.services = P.services /\ Q.extensions = P.extensions
        /\ Q.byName = P.byName /\ Q.symbols = P.symbols
        /\ Q.serviceByName = P.serviceByName /\ Q.extensionByName = P.extensionByName
        /\ Q.extensionByExtendee = P.extensionByExtendee
        /\ Q.symbolFile = P.symbolFile /\ Q.messageFile = P.messageFile
        /\ Q.enumFile = P.enumFile
    BY <1>1, <1>2 DEF PoolFields
  <1>4. Shape(Q)
    BY <1>3 DEF Shape
  <1> QED BY <1>3, <1>4 DEF SameTypes, SameServices, SameExtensions, Q, g, FilesNamed

SymbolsIndexed(P, Q, item) ==
    /\ Shape(Q) /\ SameTypes(P, Q) /\ SameServices(P, Q) /\ SameExtensions(P, Q)
    /\ Q.files = P.files /\ Q.symbols = P.symbols /\ Q.fileByName = P.fileByName
    /\ Q.symbolFile = [s \in DOMAIN P.symbolFile \cup SymbolsOf(item) |->
         IF s \in SymbolsOf(item) THEN item.file ELSE P.symbolFile[s]]

LEMMA IndexedFacts ==
    ASSUME NEW P, Shape(P), NEW item
    PROVE  SymbolsIndexed(P, Indexed(P, item), item)
  <1> DEFINE Q == Indexed(P, item)
             g == [s \in DOMAIN P.symbolFile \cup SymbolsOf(item) |->
                IF s \in SymbolsOf(item) THEN item.file ELSE P.symbolFile[s]]
  <1>1. Q = [P EXCEPT !.symbolFile = g]
    BY DEF Indexed
  <1>2. DOMAIN P = PoolFields
    BY DEF Shape
  <1> HIDE DEF Q, g
  <1>3. /\ DOMAIN Q = PoolFields /\ Q.symbolFile = g
        /\ Q.files = P.files /\ Q.messages = P.messages /\ Q.enums = P.enums
        /\ Q.services = P.services /\ Q.extensions = P.extensions
        /\ Q.byName = P.byName /\ Q.symbols = P.symbols
        /\ Q.serviceByName = P.serviceByName /\ Q.extensionByName = P.extensionByName
        /\ Q.extensionByExtendee = P.extensionByExtendee
        /\ Q.fileByName = P.fileByName /\ Q.messageFile = P.messageFile
        /\ Q.enumFile = P.enumFile
    BY <1>1, <1>2 DEF PoolFields
  <1>4. Shape(Q)
    BY <1>3 DEF Shape
  <1> QED BY <1>3, <1>4 DEF SameTypes, SameServices, SameExtensions, Q, g,
                               SymbolsIndexed

FilesAdded(P, Q, new) ==
    /\ Shape(Q) /\ SameTypes(P, Q) /\ SameServices(P, Q) /\ SameExtensions(P, Q)
    /\ Q.symbols = P.symbols /\ Q.fileByName = P.fileByName
    /\ Q.symbolFile = P.symbolFile
    /\ Len(Q.files) = Len(P.files) + Len(new)
    /\ \A i \in 1 .. Len(P.files) : Q.files[i] = P.files[i]
    /\ \A i \in 1 .. Len(new) : Q.files[Len(P.files) + i] = new[i]

LEMMA WholeFacts ==
    ASSUME Shape(staged), IsSeq(news)
    PROVE  FilesAdded(staged, Whole, news)
  <1>1. Whole = [staged EXCEPT !.files = staged.files \o news]
    BY DEF Whole
  <1>2. DOMAIN staged = PoolFields /\ IsSeq(staged.files)
    BY DEF Shape
  <1>3. /\ DOMAIN Whole = PoolFields /\ Whole.files = staged.files \o news
        /\ Whole.symbolFile = staged.symbolFile
        /\ Whole.messages = staged.messages /\ Whole.enums = staged.enums
        /\ Whole.services = staged.services /\ Whole.extensions = staged.extensions
        /\ Whole.byName = staged.byName /\ Whole.symbols = staged.symbols
        /\ Whole.serviceByName = staged.serviceByName
        /\ Whole.extensionByName = staged.extensionByName
        /\ Whole.extensionByExtendee = staged.extensionByExtendee
        /\ Whole.fileByName = staged.fileByName
        /\ Whole.messageFile = staged.messageFile
        /\ Whole.enumFile = staged.enumFile
    BY <1>1, <1>2 DEF PoolFields
  <1>4. /\ IsSeq(Whole.files) /\ Len(Whole.files) = Len(staged.files) + Len(news)
        /\ \A i \in 1 .. Len(staged.files) : Whole.files[i] = staged.files[i]
        /\ \A i \in 1 .. Len(news) : Whole.files[Len(staged.files) + i] = news[i]
    BY <1>2, <1>3, ConcatFacts
  <1>5. Shape(Whole)
    BY <1>3, <1>4 DEF Shape
  <1> QED BY <1>3, <1>4, <1>5 DEF SameTypes, SameServices, SameExtensions, FilesAdded

PoolsTyped == NamesTyped(pool) /\ NamesTyped(past.before) /\ NamesTyped(staged)
BaseInv == CallInv /\ PoolsTyped

LEMMA PutTyped ==
    ASSUME NEW P, NamesTyped(P), NEW Q, NEW n, NEW e,
           Q.byName = Put(P.byName, n, e), e.k \in {"message", "enum"}
    PROVE  NamesTyped(Q)
  <1>1. ASSUME NEW x \in DOMAIN Q.byName PROVE Q.byName[x].k \in {"message", "enum"}
    BY <1>1 DEF Put, NamesTyped
  <1> QED BY <1>1 DEF NamesTyped

LEMMA SameTyped ==
    ASSUME NEW P, NamesTyped(P), NEW Q, Q.byName = P.byName
    PROVE  NamesTyped(Q)
  BY DEF NamesTyped

(***************************************************************************)
(* The steps on items, by what they do to the staged pool.                 *)
(***************************************************************************)
MessageComes ==
    /\ Visiting("register", "message") /\ Paused
    /\ Fqn(Item) \notin DOMAIN staged.symbols
    /\ MessageAdded(staged, staged', Fqn(Item), Item.d, Item.file)
EnumComes ==
    /\ Visiting("register", "enum") /\ Paused
    /\ Fqn(Item) \notin DOMAIN staged.symbols
    /\ EnumAdded(staged, staged', Fqn(Item), Item.file)
MessageGets(fields) ==
    /\ Visiting("link", "message") /\ linked' = linked + 1
    /\ MessagePut(staged, staged', Fqn(Item), Item.d, fields, linked)
    /\ MessageMade(staged, Scope(Item.file), Fqn(Item), Item.d, fields)
EnumGets ==
    /\ Visiting("link", "enum") /\ Paused
    /\ EnumPut(staged, staged', Item.parent, Item.d, ItemFeats(Item))
    /\ Item.d.values # <<>>
    /\ Inside(Item.parent, Item.d.values) \cap DOMAIN staged.symbols = {}
ServiceComes ==
    /\ Visiting("services", "service") /\ Paused
    /\ ServiceAdded(staged, staged', Item.parent, Item.d)
    /\ ServiceMade(staged, Scope(Item.file), Item.parent, Item.d)
ExtensionComes ==
    /\ Visiting("services", "extension") /\ Paused
    /\ ExtensionAdded(staged, staged', Scope(Item.file), Item.parent, Item.d)
NestedOpens ==
    Visiting("services", "nested") /\ Paused /\ staged' = staged
ItemOwned ==
    /\ pass = "index" /\ Paused
    /\ SymbolsIndexed(staged, staged', Item)

Effects ==
    \/ MessageComes \/ EnumComes \/ (\E fields : MessageGets(fields)) \/ EnumGets
    \/ ServiceComes \/ ExtensionComes \/ NestedOpens \/ ItemOwned

LEMMA WalkEffects ==
    ASSUME CallOK, NamesTyped(staged), Walks
    PROVE  Effects
  <1>1. Shape(staged)
    BY DEF CallOK
  <1>2. CASE MessageRegistered
    <2>1. /\ Visiting("register", "message") /\ Paused
          /\ SymbolErr(DOMAIN staged.symbols, Fqn(Item), "message") = "ok"
          /\ staged' = RegisteredMessage(staged, Fqn(Item), Item.d, Item.file)
      BY <1>2 DEF MessageRegistered, Onward
    <2>2. MessageComes
      BY <1>1, <2>1, SymbolFree, RegisteredMessageFacts DEF MessageComes
    <2> QED BY <2>2 DEF Effects
  <1>3. CASE EnumRegistered
    <2>1. /\ Visiting("register", "enum") /\ Paused
          /\ SymbolErr(DOMAIN staged.symbols, Fqn(Item), "enum") = "ok"
          /\ staged' = RegisteredEnum(staged, Fqn(Item), Item.file)
      BY <1>3 DEF EnumRegistered, Onward
    <2>2. EnumComes
      BY <1>1, <2>1, SymbolFree, RegisteredEnumFacts DEF EnumComes
    <2> QED BY <2>2 DEF Effects
  <1>4. CASE MessageLinked
    <2> DEFINE r == LinkMessage(staged, Scope(Item.file), Fqn(Item), Item.d,
                                ItemFeats(Item), linked)
    <2>1. Item.d \in MessageDefs
      BY <1>4, ItemFacts DEF MessageLinked, Visiting, ItemOK
    <2>2. /\ Visiting("link", "message") /\ linked' = linked + 1
          /\ r.err = "ok" /\ staged' = r.P
      BY <1>4 DEF MessageLinked, Onward
    <2>3. PICK fields :
             /\ r.P = WithMessage(staged, Fqn(Item), Item.d, fields, linked)
             /\ MessageMade(staged, Scope(Item.file), Fqn(Item), Item.d, fields)
      BY <2>1, <2>2, LinkMessageFacts
    <2> HIDE DEF r
    <2>4. IsSeq(fields) /\ \A i \in 1 .. Len(fields) : DOMAIN fields[i] = FieldFields
      BY <2>3 DEF MessageMade, FieldsLinked
    <2>5. MessagePut(staged, WithMessage(staged, Fqn(Item), Item.d, fields, linked),
                     Fqn(Item), Item.d, fields, linked)
      BY <1>1, <2>4, WithMessageFacts
    <2>6. MessageGets(fields)
      BY <2>2, <2>3, <2>5 DEF MessageGets
    <2> QED BY <2>6 DEF Effects
  <1>5. CASE EnumLinked
    <2> DEFINE d == Item.d
               r == LinkEnum(staged, Item.parent, d, ItemFeats(Item))
    <2>1. IsSeq(d.values)
      BY <1>5, ItemFacts DEF EnumLinked, Visiting, ItemOK
    <2>2. Visiting("link", "enum") /\ Paused /\ r.err = "ok" /\ staged' = r.P
      BY <1>5 DEF EnumLinked, Onward
    <2> HIDE DEF d
    <2>3. EnumPut(staged, r.P, Item.parent, d, ItemFeats(Item))
      BY <1>1, LinkEnumFacts
    <2>4. d.values # <<>> /\ Inside(Item.parent, d.values) \cap DOMAIN staged.symbols = {}
      BY <2>1, <2>2, LinkEnumOk
    <2> HIDE DEF r
    <2>5. EnumGets
      BY <2>2, <2>3, <2>4 DEF EnumGets, d
    <2> QED BY <2>5 DEF Effects
  <1>6. CASE ServiceLinked
    <2> DEFINE d == Item.d
               r == LinkService(staged, Scope(Item.file), Item.parent, d)
    <2>1. IsSeq(d.methods)
      BY <1>6, ItemFacts DEF ServiceLinked, Visiting, ItemOK
    <2>2. Visiting("services", "service") /\ Paused /\ r.err = "ok" /\ staged' = r.P
      BY <1>6 DEF ServiceLinked, Onward
    <2> HIDE DEF d
    <2>3. ServiceAdded(staged, r.P, Item.parent, d)
      BY <1>1, LinkServiceFacts
    <2>4. ServiceMade(staged, Scope(Item.file), Item.parent, d)
      BY <2>1, <2>2, LinkServiceOk
    <2> HIDE DEF r
    <2>5. ServiceComes
      BY <2>2, <2>3, <2>4 DEF ServiceComes, d
    <2> QED BY <2>5 DEF Effects
  <1>7. CASE ExtensionLinked
    <2> DEFINE r == LinkExtension(staged, Scope(Item.file), Item.parent, Item.d, Item.feats)
    <2>1. Visiting("services", "extension") /\ Paused /\ r.err = "ok" /\ staged' = r.P
      BY <1>7 DEF ExtensionLinked, Onward
    <2>2. ExtensionAdded(staged, r.P, Scope(Item.file), Item.parent, Item.d)
      BY <1>1, <2>1, LinkExtensionFacts
    <2> HIDE DEF r
    <2>3. ExtensionComes
      BY <2>1, <2>2 DEF ExtensionComes
    <2> QED BY <2>3 DEF Effects
  <1>8. CASE NestedOpened
    BY <1>8 DEF NestedOpened, Onward, NestedOpens, Effects
  <1>9. CASE ItemIndexed
    <2>1. pass = "index" /\ Paused /\ staged' = Indexed(staged, Item)
      BY <1>9 DEF ItemIndexed, Onward
    <2>2. ItemOwned
      BY <1>1, <2>1, IndexedFacts DEF ItemOwned
    <2> QED BY <2>2 DEF Effects
  <1> QED BY <1>2, <1>3, <1>4, <1>5, <1>6, <1>7, <1>8, <1>9 DEF Walks

LEMMA WalkShape ==
    ASSUME Shape(staged), NamesTyped(staged), Effects
    PROVE  Shape(staged') /\ NamesTyped(staged') /\ staged'.files = staged.files
  <1>1. CASE MessageComes
    <2> DEFINE e == [k |-> "message", i |-> Len(staged.messages) + 1]
    <2>1. /\ Shape(staged') /\ SameFiles(staged, staged')
          /\ staged'.byName = Put(staged.byName, Fqn(Item), e)
      BY <1>1 DEF MessageComes, MessageAdded
    <2>2. e.k \in {"message", "enum"}
      OBVIOUS
    <2> HIDE DEF e
    <2> QED BY <2>1, <2>2, PutTyped DEF SameFiles
  <1>2. CASE EnumComes
    <2> DEFINE e == [k |-> "enum", i |-> Len(staged.enums) + 1]
    <2>1. /\ Shape(staged') /\ SameFiles(staged, staged')
          /\ staged'.byName = Put(staged.byName, Fqn(Item), e)
      BY <1>2 DEF EnumComes, EnumAdded
    <2>2. e.k \in {"message", "enum"}
      OBVIOUS
    <2> HIDE DEF e
    <2> QED BY <2>1, <2>2, PutTyped DEF SameFiles
  <1>3. ASSUME NEW fields, MessageGets(fields)
        PROVE  Shape(staged') /\ NamesTyped(staged') /\ staged'.files = staged.files
    BY <1>3, SameTyped DEF MessageGets, MessagePut, SameFiles
  <1>4. CASE EnumGets
    BY <1>4, SameTyped DEF EnumGets, EnumPut, SameFiles
  <1>5. CASE ServiceComes
    BY <1>5, SameTyped DEF ServiceComes, ServiceAdded, SameFiles, SameTypes
  <1>6. CASE ExtensionComes
    BY <1>6, SameTyped DEF ExtensionComes, ExtensionAdded, SameFiles, SameTypes
  <1>7. CASE NestedOpens
    BY <1>7 DEF NestedOpens
  <1>8. CASE ItemOwned
    BY <1>8, SameTyped DEF ItemOwned, SymbolsIndexed, SameTypes
  <1> QED BY <1>1, <1>2, <1>3, <1>4, <1>5, <1>6, <1>7, <1>8 DEF Effects

\* What every step on an item does to the worklist.
LEMMA WalkTodo ==
    ASSUME CallOK, Walks
    PROVE  /\ todo # <<>> /\ pass' = pass /\ news' = news /\ pool' = pool
           /\ IsSeq(todo') /\ todo' = Expand(Item) \o Tail(todo)
           /\ Range(todo') = Range(Expand(Item)) \cup Range(Tail(todo))
           /\ pass # "idle"
  <1>1. todo # <<>> /\ \E P : Onward(P)
    BY DEF Walks, MessageRegistered, EnumRegistered, MessageLinked, EnumLinked,
           ServiceLinked, ExtensionLinked, NestedOpened, ItemIndexed, Visiting
  <1>2. /\ pass' = pass /\ news' = news /\ pool' = pool
        /\ IsSeq(Expand(Item)) /\ todo' = Expand(Item) \o Tail(todo)
    BY <1>1 DEF Onward
  <1>3. IsSeq(Tail(todo)) /\ pass # "idle"
    BY <1>1, ItemFacts
  <1> QED BY <1>1, <1>2, <1>3, ConcatFacts

LEMMA TodoItems ==
    ASSUME CallOK, Walks
    PROVE  \A x \in Range(todo') :
              ItemOK(x) /\ x.k \in PassKinds(pass) /\ x.file \in NewNumbers
  <1>1. todo # <<>> /\ Range(todo') = Range(Expand(Item)) \cup Range(Tail(todo))
    BY WalkTodo
  <1>2. /\ ItemOK(Item) /\ Item.k \in PassKinds(pass) /\ Item.file \in NewNumbers
        /\ Range(todo) = {Item} \cup Range(Tail(todo))
    BY <1>1, ItemFacts
  <1>3. ASSUME NEW x \in Range(Expand(Item))
        PROVE  ItemOK(x) /\ x.k \in PassKinds(pass) /\ x.file \in NewNumbers
    <2>1. /\ ItemOK(x) /\ x.file = Item.file
          /\ Item.k = "message" => x.k \in {"message", "enum"}
          /\ Item.k = "nested" => x.k \in {"extension", "nested"}
          /\ Item.k \in {"message", "nested"}
      BY <1>2, <1>3, ExpandFacts, EmptyFacts
    <2> QED BY <1>2, <2>1 DEF PassKinds
  <1> QED BY <1>1, <1>2, <1>3 DEF CallOK

LEMMA BaseStep ==
    ASSUME BaseInv, CallSteps, RoundSteps
    PROVE  BaseInv'
  <1> USE DEF BaseInv, CallInv
  <1>0. RoundsOK /\ CallOK /\ PoolsTyped
    OBVIOUS
  <1>r. ASSUME Shape(pool'), NamesTyped(pool')
        PROVE  RoundsOK' /\ NamesTyped(pool)' /\ NamesTyped(past.before)'
    BY <1>r, <1>0 DEF RoundsOK, RoundSteps, PoolsTyped
  <1>n. scenario \in Scenarios /\ scenario' = scenario
    BY <1>0 DEF RoundsOK, RoundSteps
  <1>p. Shape(pool) /\ NamesTyped(pool) /\ Shape(past.before) /\ NamesTyped(past.before)
    BY <1>0 DEF RoundsOK, PoolsTyped
  <1>1. CASE Still
    <2>1. CallOK'
      BY <1>0, <1>1, <1>n DEF Still, CallOK, NewNumbers
    <2>2. NamesTyped(staged)' /\ pool' = pool
      BY <1>0, <1>1 DEF Still, PoolsTyped
    <2> QED BY <2>1, <2>2, <1>p, <1>r DEF PoolsTyped
  <1>2. CASE Ended
    <2>1. Shape(pool') /\ NamesTyped(pool')
      BY <1>p, <1>2 DEF Ended
    <2>2. CallOK'
      <3>1. /\ pass' = "idle" /\ staged' = EmptyPool /\ news' = <<>>
            /\ todo' = <<>> /\ linked' = 0
        BY <1>2 DEF Ended
      <3>2. news' \in Seq(scenario')
        BY <3>1
      <3> QED BY <3>1, <3>2, EmptyFacts DEF CallOK
    <2>3. NamesTyped(staged)'
      BY <1>2, EmptyFacts DEF Ended
    <2> QED BY <2>1, <2>2, <2>3, <1>r DEF PoolsTyped
  <1>3. CASE Begun
    <2>1. /\ pass' = "register" /\ news' \in Seq(scenario)
          /\ staged' = WithFiles(pool, news') /\ todo' = AllTypes(news')
          /\ pool' = pool
      BY <1>3 DEF Begun
    <2>2. /\ Shape(staged') /\ staged'.files = pool.files
          /\ staged'.byName = pool.byName
      <3>1. FilesNamed(pool, staged', news')
        BY <1>p, <2>1, WithFilesFacts
      <3> QED BY <3>1 DEF FilesNamed, SameTypes
    <2>3. NamesTyped(staged')
      BY <1>p, <2>2, SameTyped
    <2>4. Len(pool.files) \in Nat
      BY <1>p, ShapeLens
    <2>5. /\ IsSeq(todo')
          /\ \A x \in Range(todo') :
                /\ ItemOK(x) /\ x.k \in {"message", "enum"}
                /\ x.file \in Len(pool.files) + 1 .. Len(pool.files) + Len(news')
      BY <1>n, <2>1, <2>4, RootFacts
    <2>6. CallOK'
      BY <1>n, <2>1, <2>2, <2>5 DEF CallOK, PassKinds, NewNumbers
    <2> QED BY <1>p, <2>1, <2>3, <2>6, <1>r DEF PoolsTyped
  <1>4. CASE Walks
    <2>1. /\ Shape(staged') /\ NamesTyped(staged') /\ staged'.files = staged.files
      BY <1>0, <1>4, WalkShape, WalkEffects DEF PoolsTyped, CallOK
    <2>2. /\ pass' = pass /\ news' = news /\ pool' = pool /\ pass # "idle"
          /\ IsSeq(todo')
      BY <1>0, <1>4, WalkTodo
    <2>3. \A x \in Range(todo') :
              ItemOK(x) /\ x.k \in PassKinds(pass) /\ x.file \in NewNumbers
      BY <1>0, <1>4, TodoItems
    <2>4. CallOK'
      BY <1>0, <1>n, <2>1, <2>2, <2>3 DEF CallOK, NewNumbers
    <2> QED BY <1>p, <2>1, <2>2, <2>4, <1>r DEF PoolsTyped
  <1>5. CASE Switches
    <2>1. Len(pool.files) \in Nat /\ news \in Seq(scenario)
      BY <1>0, <1>p, ShapeLens DEF CallOK
    <2>2. /\ IsSeq(AllTypes(news)) /\ IsSeq(AllServices(news))
          /\ IsSeq(AllDefinitions(news))
          /\ \A x \in Range(AllTypes(news)) :
                ItemOK(x) /\ x.k \in {"message", "enum"} /\ x.file \in NewNumbers
          /\ \A x \in Decls(news) :
                ItemOK(x) /\ x.k \in {"service", "extension"} /\ x.file \in NewNumbers
          /\ Range(AllDefinitions(news)) = Range(AllTypes(news)) \cup Decls(news)
          /\ Range(AllServices(news))
               = Decls(news) \cup {AsNested(x) : x \in Messages(Range(AllTypes(news)))}
      BY <1>n, <2>1, RootFacts DEF NewNumbers
    <2>3. ASSUME NEW x \in Messages(Range(AllTypes(news)))
          PROVE  /\ ItemOK(AsNested(x)) /\ AsNested(x).k = "nested"
                 /\ AsNested(x).file \in NewNumbers
      BY <2>2, <2>3 DEF Messages, AsNested, ItemOf, ItemOK, Kinds
    <2>4. news' = news /\ pool' = pool /\ pass # "idle"
      BY <1>5 DEF Switches, TypesRegistered, TypesLinked, FieldsFinal
    <2>5. CASE TypesRegistered
      <3>1. pass' = "link" /\ todo' = AllTypes(news) /\ staged' = staged
        BY <2>5 DEF TypesRegistered
      <3>2. CallOK'
        BY <1>0, <1>n, <2>2, <2>4, <3>1 DEF CallOK, NewNumbers, PassKinds
      <3> QED BY <1>0, <1>p, <2>4, <3>1, <3>2, <1>r DEF PoolsTyped
    <2>6. CASE TypesLinked
      <3>1. pass' = "services" /\ todo' = AllServices(news) /\ staged' = staged
        BY <2>6 DEF TypesLinked
      <3>2. \A x \in Range(AllServices(news)) :
              ItemOK(x) /\ x.k \in PassKinds("services") /\ x.file \in NewNumbers
        BY <2>2, <2>3 DEF PassKinds
      <3>3. CallOK'
        BY <1>0, <1>n, <2>2, <2>4, <3>1, <3>2 DEF CallOK, NewNumbers
      <3> QED BY <1>0, <1>p, <2>4, <3>1, <3>3, <1>r DEF PoolsTyped
    <2>7. CASE FieldsFinal
      <3>1. /\ pass' = "index" /\ todo' = AllDefinitions(news)
            /\ staged' = Finalized(staged, Len(pool.messages) + 1,
                                   Len(pool.extensions) + 1)
        BY <2>7 DEF FieldsFinal
      <3>2. /\ Shape(staged') /\ staged'.files = staged.files
            /\ staged'.byName = staged.byName
        <4>1. Settled(staged, staged', Len(pool.messages) + 1, Len(pool.extensions) + 1)
          BY <1>0, <3>1, FinalizedFacts DEF CallOK
        <4> QED BY <4>1 DEF Settled, SameFiles
      <3>3. NamesTyped(staged')
        BY <1>0, <3>2, SameTyped DEF PoolsTyped
      <3>4. CallOK'
        BY <1>0, <1>n, <2>2, <2>4, <3>1, <3>2 DEF CallOK, NewNumbers, PassKinds
      <3> QED BY <1>0, <1>p, <2>4, <3>1, <3>3, <3>4, <1>r DEF PoolsTyped
    <2> QED BY <1>5, <2>5, <2>6, <2>7 DEF Switches
  <1>6. CASE Committed
    <2>1. Shape(staged) /\ IsSeq(news) /\ NamesTyped(staged)
      BY <1>0, SeqOver DEF CallOK, PoolsTyped
    <2>2. Shape(Whole) /\ Whole.byName = staged.byName
      <3>1. FilesAdded(staged, Whole, news)
        BY <2>1, WholeFacts
      <3> QED BY <3>1 DEF FilesAdded, SameTypes
    <2>3. Shape(pool') /\ NamesTyped(pool')
      BY <1>6, <2>1, <2>2, SameTyped DEF Committed
    <2>4. /\ pass' = "idle" /\ staged' = EmptyPool /\ news' = <<>>
          /\ todo' = <<>> /\ linked' = 0
      BY <1>6 DEF Committed
    <2>5. news' \in Seq(scenario')
      BY <2>4
    <2>6. CallOK' /\ NamesTyped(staged)'
      BY <2>4, <2>5, EmptyFacts DEF CallOK
    <2> QED BY <2>3, <2>6, <1>r DEF PoolsTyped
  <1> QED BY <1>1, <1>2, <1>3, <1>4, <1>5, <1>6 DEF CallSteps

LEMMA BaseInit == ASSUME Init PROVE BaseInv
  <1>1. /\ scenario \in Scenarios /\ pool = EmptyPool /\ staged = EmptyPool
        /\ pass = "idle" /\ news = <<>> /\ todo = <<>> /\ linked = 0
        /\ past = NoPast /\ again = {}
    BY DEF Init
  <1>2. news \in Seq(scenario)
    BY <1>1
  <1>3. past.before = EmptyPool /\ past.added = {}
        /\ DOMAIN past = {"before", "added", "whole", "verdict", "after"}
    BY <1>1 DEF NoPast
  <1>4. RoundsOK
    BY <1>1, <1>3, EmptyFacts DEF RoundsOK
  <1>5. CallOK
    BY <1>1, <1>2, EmptyFacts DEF CallOK
  <1> QED BY <1>1, <1>3, <1>4, <1>5, EmptyFacts DEF BaseInv, CallInv, PoolsTyped

(***************************************************************************)
(* The tables of messages and enums.                                       *)
(***************************************************************************)
Leads(P, name, k, i) ==
    /\ name \in DOMAIN P.byName
    /\ P.byName[name].k = k /\ P.byName[name].i = i
HasEntry(P, name, e) ==
    \/ /\ e.k = "message" /\ e.i \in 1 .. Len(P.messages)
       /\ P.messages[e.i].fullName = name
    \/ /\ e.k = "enum" /\ e.i \in 1 .. Len(P.enums)
       /\ P.enums[e.i].fullName = name

\* The tables of a pool that has n files.
TypesGood(P, n) ==
    /\ DOMAIN P.byName \subseteq DOMAIN P.symbols
    /\ \A name \in DOMAIN P.byName : HasEntry(P, name, P.byName[name])
    /\ \A i \in 1 .. Len(P.messages) :
          Leads(P, P.messages[i].fullName, "message", i) /\ P.messageFile[i] \in 1 .. n
    /\ \A i \in 1 .. Len(P.enums) :
          /\ Leads(P, P.enums[i].fullName, "enum", i) /\ P.enumFile[i] \in 1 .. n
          /\ P.enums[i].type \in {"open", "closed"}

\* Q has the messages and enums that P has, at their places.
OldTypes(P, Q) ==
    /\ DOMAIN P.symbols \subseteq DOMAIN Q.symbols
    /\ Len(P.messages) <= Len(Q.messages) /\ Len(P.enums) <= Len(Q.enums)
    /\ \A i \in 1 .. Len(P.messages) :
          Q.messages[i] = P.messages[i] /\ Q.messageFile[i] = P.messageFile[i]
    /\ \A i \in 1 .. Len(P.enums) :
          Q.enums[i] = P.enums[i] /\ Q.enumFile[i] = P.enumFile[i]

MessageEntered(P, Q, fqn, msg, file) ==
    /\ Len(Q.messages) = Len(P.messages) + 1 /\ Len(P.messages) \in Nat
    /\ \A i \in 1 .. Len(P.messages) :
          Q.messages[i] = P.messages[i] /\ Q.messageFile[i] = P.messageFile[i]
    /\ Q.messages[Len(P.messages) + 1] = Placeholder(fqn, msg)
    /\ Q.messageFile[Len(P.messages) + 1] = file
    /\ Q.enums = P.enums /\ Q.enumFile = P.enumFile
    /\ DOMAIN Q.byName = DOMAIN P.byName \cup {fqn}
    /\ Q.byName[fqn] = [k |-> "message", i |-> Len(P.messages) + 1]
    /\ \A name \in DOMAIN P.byName : name # fqn => Q.byName[name] = P.byName[name]
    /\ DOMAIN Q.symbols = DOMAIN P.symbols \cup {fqn}

LEMMA MessageAddedFacts ==
    ASSUME NEW P, Shape(P), NEW Q, NEW fqn, NEW msg, NEW file,
           MessageAdded(P, Q, fqn, msg, file)
    PROVE  MessageEntered(P, Q, fqn, msg, file)
  <1>1. /\ IsSeq(P.messages) /\ IsSeq(P.messageFile)
        /\ Len(P.messageFile) = Len(P.messages) /\ Len(P.messages) \in Nat
    BY ShapeLens DEF Shape
  <1>2. /\ Q.messages = Append(P.messages, Placeholder(fqn, msg))
        /\ Q.messageFile = Append(P.messageFile, file)
        /\ Q.byName = Put(P.byName, fqn, [k |-> "message", i |-> Len(P.messages) + 1])
        /\ Q.enums = P.enums /\ Q.enumFile = P.enumFile
        /\ DOMAIN Q.symbols = DOMAIN P.symbols \cup {fqn}
    BY DEF MessageAdded
  <1>3. /\ Len(Q.messages) = Len(P.messages) + 1
        /\ \A i \in 1 .. Len(P.messages) : Q.messages[i] = P.messages[i]
        /\ Q.messages[Len(P.messages) + 1] = Placeholder(fqn, msg)
    BY <1>1, <1>2, AppendFacts
  <1>4. /\ \A i \in 1 .. Len(P.messageFile) : Q.messageFile[i] = P.messageFile[i]
        /\ Q.messageFile[Len(P.messageFile) + 1] = file
    BY <1>1, <1>2, AppendFacts
  <1>5. /\ DOMAIN Q.byName = DOMAIN P.byName \cup {fqn}
        /\ Q.byName[fqn] = [k |-> "message", i |-> Len(P.messages) + 1]
        /\ \A name \in DOMAIN P.byName : name # fqn => Q.byName[name] = P.byName[name]
    BY <1>2 DEF Put
  <1> QED BY <1>1, <1>2, <1>3, <1>4, <1>5 DEF MessageEntered

EnumEntered(P, Q, fqn, file) ==
    /\ Len(Q.enums) = Len(P.enums) + 1 /\ Len(P.enums) \in Nat
    /\ \A i \in 1 .. Len(P.enums) :
          Q.enums[i] = P.enums[i] /\ Q.enumFile[i] = P.enumFile[i]
    /\ Q.enums[Len(P.enums) + 1]
         = [fullName |-> fqn, values |-> <<>>, type |-> "open"]
    /\ Q.enumFile[Len(P.enums) + 1] = file
    /\ Q.messages = P.messages /\ Q.messageFile = P.messageFile
    /\ DOMAIN Q.byName = DOMAIN P.byName \cup {fqn}
    /\ Q.byName[fqn] = [k |-> "enum", i |-> Len(P.enums) + 1]
    /\ \A name \in DOMAIN P.byName : name # fqn => Q.byName[name] = P.byName[name]
    /\ DOMAIN Q.symbols = DOMAIN P.symbols \cup {fqn}

LEMMA EnumAddedFacts ==
    ASSUME NEW P, Shape(P), NEW Q, NEW fqn, NEW file, EnumAdded(P, Q, fqn, file)
    PROVE  EnumEntered(P, Q, fqn, file)
  <1> DEFINE e == [fullName |-> fqn, values |-> <<>>, type |-> "open"]
  <1>1. /\ IsSeq(P.enums) /\ IsSeq(P.enumFile)
        /\ Len(P.enumFile) = Len(P.enums) /\ Len(P.enums) \in Nat
    BY ShapeLens DEF Shape
  <1>2. /\ Q.enums = Append(P.enums, e)
        /\ Q.enumFile = Append(P.enumFile, file)
        /\ Q.byName = Put(P.byName, fqn, [k |-> "enum", i |-> Len(P.enums) + 1])
        /\ Q.messages = P.messages /\ Q.messageFile = P.messageFile
        /\ DOMAIN Q.symbols = DOMAIN P.symbols \cup {fqn}
    BY DEF EnumAdded
  <1> HIDE DEF e
  <1>3. /\ Len(Q.enums) = Len(P.enums) + 1
        /\ \A i \in 1 .. Len(P.enums) : Q.enums[i] = P.enums[i]
        /\ Q.enums[Len(P.enums) + 1] = e
    BY <1>1, <1>2, AppendFacts
  <1>4. /\ \A i \in 1 .. Len(P.enumFile) : Q.enumFile[i] = P.enumFile[i]
        /\ Q.enumFile[Len(P.enumFile) + 1] = file
    BY <1>1, <1>2, AppendFacts
  <1>5. /\ DOMAIN Q.byName = DOMAIN P.byName \cup {fqn}
        /\ Q.byName[fqn] = [k |-> "enum", i |-> Len(P.enums) + 1]
        /\ \A name \in DOMAIN P.byName : name # fqn => Q.byName[name] = P.byName[name]
    BY <1>2 DEF Put
  <1> QED BY <1>1, <1>2, <1>3, <1>4, <1>5 DEF e, EnumEntered

LEMMA MessageAddedGood ==
    ASSUME NEW P, Shape(P), NEW Q, NEW fqn, NEW msg, NEW n, NEW file \in 1 .. n,
           MessageAdded(P, Q, fqn, msg, file), TypesGood(P, n),
           fqn \notin DOMAIN P.symbols
    PROVE  TypesGood(Q, n)
  <1> DEFINE k == Len(P.messages)
  <1>1. /\ Len(Q.messages) = k + 1 /\ k \in Nat
        /\ \A i \in 1 .. k :
              Q.messages[i] = P.messages[i] /\ Q.messageFile[i] = P.messageFile[i]
        /\ Q.messages[k + 1] = Placeholder(fqn, msg) /\ Q.messageFile[k + 1] = file
        /\ Q.enums = P.enums /\ Q.enumFile = P.enumFile
        /\ DOMAIN Q.byName = DOMAIN P.byName \cup {fqn}
        /\ Q.byName[fqn] = [k |-> "message", i |-> k + 1]
        /\ \A name \in DOMAIN P.byName : name # fqn => Q.byName[name] = P.byName[name]
        /\ DOMAIN Q.symbols = DOMAIN P.symbols \cup {fqn}
    <2>1. MessageEntered(P, Q, fqn, msg, file)
      BY MessageAddedFacts
    <2> QED BY <2>1 DEF MessageEntered
  <1> HIDE DEF k
  <1>2. fqn \notin DOMAIN P.byName
    BY DEF TypesGood
  <1>3. \A name \in DOMAIN P.byName : Q.byName[name] = P.byName[name]
    BY <1>1, <1>2
  <1>4. Placeholder(fqn, msg).fullName = fqn
    BY DEF Placeholder
  <1>5. ASSUME NEW name \in DOMAIN Q.byName PROVE HasEntry(Q, name, Q.byName[name])
    <2>1. CASE name = fqn
      BY <1>1, <1>4, <2>1 DEF HasEntry
    <2>2. CASE name \in DOMAIN P.byName
      <3> DEFINE e == P.byName[name]
      <3>1. HasEntry(P, name, e) /\ Q.byName[name] = e
        BY <1>3, <2>2 DEF TypesGood
      <3> HIDE DEF e
      <3>2. HasEntry(Q, name, e)
        <4>1. CASE e.k = "message" /\ e.i \in 1 .. k /\ P.messages[e.i].fullName = name
          BY <1>1, <4>1 DEF HasEntry
        <4>2. CASE e.k = "enum" /\ e.i \in 1 .. Len(P.enums) /\ P.enums[e.i].fullName = name
          BY <1>1, <4>2 DEF HasEntry
        <4> QED BY <3>1, <4>1, <4>2 DEF HasEntry, k
      <3> QED BY <3>1, <3>2
    <2> QED BY <1>1, <2>1, <2>2
  <1>6. ASSUME NEW i \in 1 .. Len(Q.messages)
        PROVE  Leads(Q, Q.messages[i].fullName, "message", i) /\ Q.messageFile[i] \in 1 .. n
    <2>1. CASE i = k + 1
      BY <1>1, <1>4, <2>1 DEF Leads
    <2>2. CASE i \in 1 .. k
      <3>1. Leads(P, P.messages[i].fullName, "message", i) /\ P.messageFile[i] \in 1 .. n
        BY <2>2 DEF TypesGood, k
      <3> DEFINE name == P.messages[i].fullName
      <3>2. Q.messages[i].fullName = name /\ Q.messageFile[i] \in 1 .. n
        BY <1>1, <2>2, <3>1
      <3> HIDE DEF name
      <3>3. Leads(Q, name, "message", i)
        BY <1>1, <1>3, <3>1 DEF Leads, name
      <3> QED BY <3>2, <3>3
    <2> QED BY <1>1, <2>1, <2>2
  <1>7. ASSUME NEW i \in 1 .. Len(Q.enums)
        PROVE  /\ Leads(Q, Q.enums[i].fullName, "enum", i) /\ Q.enumFile[i] \in 1 .. n
               /\ Q.enums[i].type \in {"open", "closed"}
    <2>1. /\ Leads(P, P.enums[i].fullName, "enum", i) /\ P.enumFile[i] \in 1 .. n
          /\ P.enums[i].type \in {"open", "closed"}
      BY <1>1 DEF TypesGood
    <2> DEFINE name == P.enums[i].fullName
    <2>2. /\ Q.enums[i].fullName = name /\ Q.enumFile[i] \in 1 .. n
          /\ Q.enums[i].type \in {"open", "closed"}
      BY <1>1, <2>1
    <2> HIDE DEF name
    <2>3. Leads(Q, name, "enum", i)
      BY <1>1, <1>3, <2>1 DEF Leads, name
    <2> QED BY <2>2, <2>3
  <1>8. DOMAIN Q.byName \subseteq DOMAIN Q.symbols
    BY <1>1 DEF TypesGood
  <1> QED BY <1>5, <1>6, <1>7, <1>8 DEF TypesGood

LEMMA EnumAddedGood ==
    ASSUME NEW P, Shape(P), NEW Q, NEW fqn, NEW n, NEW file \in 1 .. n,
           EnumAdded(P, Q, fqn, file), TypesGood(P, n), fqn \notin DOMAIN P.symbols
    PROVE  TypesGood(Q, n)
  <1> DEFINE k == Len(P.enums)
  <1>1. /\ Len(Q.enums) = k + 1 /\ k \in Nat
        /\ \A i \in 1 .. k :
              Q.enums[i] = P.enums[i] /\ Q.enumFile[i] = P.enumFile[i]
        /\ Q.enums[k + 1] = [fullName |-> fqn, values |-> <<>>, type |-> "open"]
        /\ Q.enumFile[k + 1] = file
        /\ Q.messages = P.messages /\ Q.messageFile = P.messageFile
        /\ DOMAIN Q.byName = DOMAIN P.byName \cup {fqn}
        /\ Q.byName[fqn] = [k |-> "enum", i |-> k + 1]
        /\ \A name \in DOMAIN P.byName : name # fqn => Q.byName[name] = P.byName[name]
        /\ DOMAIN Q.symbols = DOMAIN P.symbols \cup {fqn}
    <2>1. EnumEntered(P, Q, fqn, file)
      BY EnumAddedFacts
    <2> QED BY <2>1 DEF EnumEntered
  <1> HIDE DEF k
  <1>2. fqn \notin DOMAIN P.byName
    BY DEF TypesGood
  <1>3. \A name \in DOMAIN P.byName : Q.byName[name] = P.byName[name]
    BY <1>1, <1>2
  <1>5. ASSUME NEW name \in DOMAIN Q.byName PROVE HasEntry(Q, name, Q.byName[name])
    <2>1. CASE name = fqn
      BY <1>1, <2>1 DEF HasEntry
    <2>2. CASE name \in DOMAIN P.byName
      <3> DEFINE e == P.byName[name]
      <3>1. HasEntry(P, name, e) /\ Q.byName[name] = e
        BY <1>3, <2>2 DEF TypesGood
      <3> HIDE DEF e
      <3>2. HasEntry(Q, name, e)
        <4>1. CASE e.k = "enum" /\ e.i \in 1 .. k /\ P.enums[e.i].fullName = name
          BY <1>1, <4>1 DEF HasEntry
        <4>2. CASE /\ e.k = "message" /\ e.i \in 1 .. Len(P.messages)
                   /\ P.messages[e.i].fullName = name
          BY <1>1, <4>2 DEF HasEntry
        <4> QED BY <3>1, <4>1, <4>2 DEF HasEntry, k
      <3> QED BY <3>1, <3>2
    <2> QED BY <1>1, <2>1, <2>2
  <1>6. ASSUME NEW i \in 1 .. Len(Q.enums)
        PROVE  /\ Leads(Q, Q.enums[i].fullName, "enum", i) /\ Q.enumFile[i] \in 1 .. n
               /\ Q.enums[i].type \in {"open", "closed"}
    <2>1. CASE i = k + 1
      BY <1>1, <2>1 DEF Leads
    <2>2. CASE i \in 1 .. k
      <3>1. /\ Leads(P, P.enums[i].fullName, "enum", i) /\ P.enumFile[i] \in 1 .. n
            /\ P.enums[i].type \in {"open", "closed"}
        BY <2>2 DEF TypesGood, k
      <3> DEFINE name == P.enums[i].fullName
      <3>2. /\ Q.enums[i].fullName = name /\ Q.enumFile[i] \in 1 .. n
            /\ Q.enums[i].type \in {"open", "closed"}
        BY <1>1, <2>2, <3>1
      <3> HIDE DEF name
      <3>3. Leads(Q, name, "enum", i)
        BY <1>1, <1>3, <3>1 DEF Leads, name
      <3> QED BY <3>2, <3>3
    <2> QED BY <1>1, <2>1, <2>2
  <1>7. ASSUME NEW i \in 1 .. Len(Q.messages)
        PROVE  Leads(Q, Q.messages[i].fullName, "message", i) /\ Q.messageFile[i] \in 1 .. n
    <2>1. Leads(P, P.messages[i].fullName, "message", i) /\ P.messageFile[i] \in 1 .. n
      BY <1>1 DEF TypesGood
    <2> DEFINE name == P.messages[i].fullName
    <2>2. Q.messages[i].fullName = name /\ Q.messageFile[i] \in 1 .. n
      BY <1>1, <2>1
    <2> HIDE DEF name
    <2>3. Leads(Q, name, "message", i)
      BY <1>1, <1>3, <2>1 DEF Leads, name
    <2> QED BY <2>2, <2>3
  <1>8. DOMAIN Q.byName \subseteq DOMAIN Q.symbols
    BY <1>1 DEF TypesGood
  <1> QED BY <1>5, <1>6, <1>7, <1>8 DEF TypesGood

\* Q has the names of P, and at each place an entry of the same name.
Renewed(P, Q) ==
    /\ Q.byName = P.byName /\ Q.messageFile = P.messageFile /\ Q.enumFile = P.enumFile
    /\ DOMAIN P.symbols \subseteq DOMAIN Q.symbols
    /\ Len(Q.messages) = Len(P.messages) /\ Len(Q.enums) = Len(P.enums)
    /\ \A i \in 1 .. Len(P.messages) : Q.messages[i].fullName = P.messages[i].fullName
    /\ \A i \in 1 .. Len(P.enums) :
          /\ Q.enums[i].fullName = P.enums[i].fullName
          /\ Q.enums[i].type \in {P.enums[i].type, "open", "closed"}

LEMMA RenewedGood ==
    ASSUME NEW P, NEW Q, Renewed(P, Q), NEW n, TypesGood(P, n)
    PROVE  TypesGood(Q, n)
  <1> USE DEF Renewed
  <1>1. DOMAIN Q.byName \subseteq DOMAIN Q.symbols
    BY DEF TypesGood
  <1>2. ASSUME NEW name \in DOMAIN Q.byName PROVE HasEntry(Q, name, Q.byName[name])
    <2> DEFINE e == P.byName[name]
    <2>1. HasEntry(P, name, e) /\ Q.byName[name] = e
      BY <1>2 DEF TypesGood
    <2> HIDE DEF e
    <2>2. HasEntry(Q, name, e)
      BY <2>1 DEF HasEntry
    <2> QED BY <2>1, <2>2
  <1>3. ASSUME NEW i \in 1 .. Len(Q.messages)
        PROVE  Leads(Q, Q.messages[i].fullName, "message", i) /\ Q.messageFile[i] \in 1 .. n
    <2>1. Leads(P, P.messages[i].fullName, "message", i) /\ P.messageFile[i] \in 1 .. n
      BY <1>3 DEF TypesGood
    <2> DEFINE name == P.messages[i].fullName
    <2>2. Q.messages[i].fullName = name /\ Q.messageFile[i] \in 1 .. n
      BY <1>3, <2>1
    <2> HIDE DEF name
    <2>3. Leads(Q, name, "message", i)
      BY <2>1 DEF Leads, name
    <2> QED BY <2>2, <2>3
  <1>4. ASSUME NEW i \in 1 .. Len(Q.enums)
        PROVE  /\ Leads(Q, Q.enums[i].fullName, "enum", i) /\ Q.enumFile[i] \in 1 .. n
               /\ Q.enums[i].type \in {"open", "closed"}
    <2>1. /\ Leads(P, P.enums[i].fullName, "enum", i) /\ P.enumFile[i] \in 1 .. n
          /\ P.enums[i].type \in {"open", "closed"}
      BY <1>4 DEF TypesGood
    <2> DEFINE name == P.enums[i].fullName
    <2>2. Q.enums[i].fullName = name /\ Q.enumFile[i] \in 1 .. n
      BY <1>4, <2>1
    <2>3. Q.enums[i].type \in {"open", "closed"}
      BY <1>4, <2>1
    <2> HIDE DEF name
    <2>4. Leads(Q, name, "enum", i)
      BY <2>1 DEF Leads, name
    <2> QED BY <2>2, <2>3, <2>4
  <1> QED BY <1>1, <1>2, <1>3, <1>4 DEF TypesGood

LEMMA SameRenewed ==
    ASSUME NEW P, NEW Q, SameTypes(P, Q), DOMAIN P.symbols \subseteq DOMAIN Q.symbols
    PROVE  Renewed(P, Q)
  BY DEF SameTypes, Renewed

LEMMA MessagePutRenewed ==
    ASSUME NEW P, NEW Q, NEW fqn, NEW msg, NEW fields, NEW next,
           MessagePut(P, Q, fqn, msg, fields, next), P.messages[next].fullName = fqn
    PROVE  Renewed(P, Q)
  <1> DEFINE m == [fullName |-> fqn, fields |-> fields, oneofs |-> msg.oneofs,
                   ranges |-> msg.ranges, options |-> P.messages[next].options]
  <1>1. m.fullName = fqn
    OBVIOUS
  <1>2. /\ Q.byName = P.byName /\ Q.messageFile = P.messageFile
        /\ Q.enums = P.enums /\ Q.enumFile = P.enumFile
        /\ DOMAIN P.symbols \subseteq DOMAIN Q.symbols
        /\ Len(Q.messages) = Len(P.messages)
        /\ \A i \in 1 .. Len(P.messages) :
              Q.messages[i] = IF i = next THEN m ELSE P.messages[i]
    BY DEF MessagePut
  <1> HIDE DEF m
  <1>3. \A i \in 1 .. Len(P.messages) : Q.messages[i].fullName = P.messages[i].fullName
    BY <1>1, <1>2
  <1> QED BY <1>2, <1>3 DEF Renewed

LEMMA EnumPutRenewed ==
    ASSUME NEW P, NEW Q, NEW parent, NEW enum, NEW feats, FeatsOK(feats),
           EnumPut(P, Q, parent, enum, feats),
           NEW k, P.byName[Append(parent, enum.name)].i = k,
           P.enums[k].fullName = Append(parent, enum.name)
    PROVE  /\ Renewed(P, Q)
           /\ \A i \in 1 .. Len(P.enums) : i # k => Q.enums[i] = P.enums[i]
           /\ k \in 1 .. Len(P.enums) => Q.enums[k].values = enum.values
  <1> DEFINE fqn == Append(parent, enum.name)
             e == [fullName |-> fqn, values |-> enum.values, type |-> feats.enum]
  <1>1. /\ e.fullName = fqn /\ e.values = enum.values
        /\ e.type \in {"open", "closed"}
    BY DEF FeatsOK
  <1>2. /\ Q.byName = P.byName /\ Q.enumFile = P.enumFile
        /\ Q.messages = P.messages /\ Q.messageFile = P.messageFile
        /\ DOMAIN P.symbols \subseteq DOMAIN Q.symbols
        /\ Len(Q.enums) = Len(P.enums)
        /\ \A i \in 1 .. Len(P.enums) :
              Q.enums[i] = IF i = P.byName[fqn].i THEN e ELSE P.enums[i]
    BY DEF EnumPut
  <1> HIDE DEF e
  <1>3. \A i \in 1 .. Len(P.enums) : Q.enums[i] = IF i = k THEN e ELSE P.enums[i]
    BY <1>2
  <1>4. \A i \in 1 .. Len(P.enums) :
           /\ Q.enums[i].fullName = P.enums[i].fullName
           /\ Q.enums[i].type \in {P.enums[i].type, "open", "closed"}
    BY <1>1, <1>3
  <1>5. Renewed(P, Q)
    BY <1>2, <1>4 DEF Renewed
  <1> QED BY <1>1, <1>3, <1>5

LEMMA SettledRenewed ==
    ASSUME NEW P, NEW Q, NEW fm, NEW fx, Settled(P, Q, fm, fx)
    PROVE  Renewed(P, Q)
  BY DEF Settled, Renewed

LEMMA MoreFilesGood ==
    ASSUME NEW P, NEW n \in Nat, NEW k \in Nat, n <= k, TypesGood(P, n)
    PROVE  TypesGood(P, k)
  BY DEF TypesGood

(***************************************************************************)
(* The two walks over messages and enums.  A trace is the row of worklists *)
(* and slots of such a walk; the walk that links goes along the trace of   *)
(* the one that registered.                                                *)
(***************************************************************************)
Visit(items, slot) ==
    <<Expand(Head(items)) \o Tail(items),
      IF Head(items).k = "message" THEN slot + 1 ELSE slot>>
Trace(h, n) ==
    /\ n \in Nat /\ h[0] = <<AllTypes(news), Len(pool.messages) + 1>>
    /\ \A j \in 0 .. n - 1 : h[j][1] # <<>> /\ h[j + 1] = Visit(h[j][1], h[j][2])
Visited(h, j) == Head(h[j][1])

\* Item x has its entry in P, a message at its slot, an enum by its name.
Recorded(P, x, slot) ==
    /\ x.k = "message" =>
          /\ slot \in Len(pool.messages) + 1 .. Len(P.messages)
          /\ P.messages[slot].fullName = Fqn(x) /\ P.messageFile[slot] = x.file
    /\ x.k = "enum" =>
          /\ Fqn(x) \in DOMAIN P.byName /\ P.byName[Fqn(x)].k = "enum"
          /\ P.byName[Fqn(x)].i \in Len(pool.enums) + 1 .. Len(P.enums)
          /\ P.enumFile[P.byName[Fqn(x)].i] = x.file
RecordedAll(P, h, n) == \A j \in 0 .. n - 1 : Recorded(P, Visited(h, j), h[j][2])
\* Every new enum is there for an item.
EnumsSeen(P, h, n) ==
    \A i \in Len(pool.enums) + 1 .. Len(P.enums) :
        \E j \in 0 .. n - 1 :
            Visited(h, j).k = "enum" /\ P.enums[i].fullName = Fqn(Visited(h, j))

\* What P has, Q has at the same place and under the same name.
Kept(P, Q) ==
    /\ Len(P.messages) <= Len(Q.messages) /\ Len(P.enums) <= Len(Q.enums)
    /\ \A i \in 1 .. Len(P.messages) :
          /\ Q.messages[i].fullName = P.messages[i].fullName
          /\ Q.messageFile[i] = P.messageFile[i]
    /\ \A i \in 1 .. Len(P.enums) :
          Q.enums[i].fullName = P.enums[i].fullName /\ Q.enumFile[i] = P.enumFile[i]
    /\ \A name \in DOMAIN P.byName :
          name \in DOMAIN Q.byName /\ Q.byName[name] = P.byName[name]

LEMMA MessageKept ==
    ASSUME NEW P, Shape(P), NEW Q, NEW fqn, fqn \notin DOMAIN P.byName, NEW msg, NEW file,
           MessageEntered(P, Q, fqn, msg, file)
    PROVE  Kept(P, Q)
  <1>1. Len(P.enums) \in Nat
    BY ShapeLens
  <1> QED BY <1>1 DEF MessageEntered, Kept

LEMMA EnumKept ==
    ASSUME NEW P, Shape(P), NEW Q, NEW fqn, fqn \notin DOMAIN P.byName, NEW file,
           EnumEntered(P, Q, fqn, file)
    PROVE  Kept(P, Q)
  <1>1. Len(P.messages) \in Nat
    BY ShapeLens
  <1> QED BY <1>1 DEF EnumEntered, Kept

LEMMA RenewedKept ==
    ASSUME NEW P, Shape(P), NEW Q, Renewed(P, Q)
    PROVE  Kept(P, Q)
  <1>1. Len(P.messages) \in Nat /\ Len(P.enums) \in Nat
    BY ShapeLens
  <1> QED BY <1>1 DEF Renewed, Kept

LEMMA RecordedStays ==
    ASSUME NEW P, Shape(P), NEW Q, Shape(Q), Kept(P, Q), Shape(pool),
           NEW x, NEW slot, Recorded(P, x, slot)
    PROVE  Recorded(Q, x, slot)
  <1>0. /\ Len(pool.messages) \in Nat /\ Len(pool.enums) \in Nat
        /\ Len(P.messages) \in Nat /\ Len(P.enums) \in Nat
        /\ Len(Q.messages) \in Nat /\ Len(Q.enums) \in Nat
    BY ShapeLens
  <1>1. CASE x.k = "message"
    <2>1. /\ slot \in Len(pool.messages) + 1 .. Len(P.messages)
          /\ P.messages[slot].fullName = Fqn(x) /\ P.messageFile[slot] = x.file
      BY <1>1 DEF Recorded
    <2>2. slot \in 1 .. Len(P.messages) /\ slot \in Len(pool.messages) + 1 .. Len(Q.messages)
      BY <1>0, <2>1 DEF Kept
    <2>3. Q.messages[slot].fullName = Fqn(x) /\ Q.messageFile[slot] = x.file
      BY <2>1, <2>2 DEF Kept
    <2> QED BY <1>1, <2>2, <2>3 DEF Recorded
  <1>2. CASE x.k = "enum"
    <2> DEFINE name == Fqn(x)
               i == P.byName[name].i
    <2>1. /\ name \in DOMAIN P.byName /\ P.byName[name].k = "enum"
          /\ i \in Len(pool.enums) + 1 .. Len(P.enums) /\ P.enumFile[i] = x.file
      BY <1>2 DEF Recorded
    <2> HIDE DEF name
    <2>2. /\ name \in DOMAIN Q.byName /\ Q.byName[name].k = "enum"
          /\ Q.byName[name].i = i
      BY <2>1 DEF Kept
    <2> HIDE DEF i
    <2>3. i \in 1 .. Len(P.enums) /\ i \in Len(pool.enums) + 1 .. Len(Q.enums)
      BY <1>0, <2>1 DEF Kept
    <2>4. Q.enumFile[i] = x.file
      BY <2>1, <2>3 DEF Kept
    <2> QED BY <1>2, <2>2, <2>3, <2>4 DEF Recorded, name
  <1>3. CASE x.k \notin {"message", "enum"}
    BY <1>3 DEF Recorded
  <1> QED BY <1>1, <1>2, <1>3

LEMMA TraceGrows ==
    ASSUME NEW h, NEW n, Trace(h, n), NEW items, items # <<>>, NEW slot,
           h[n] = <<items, slot>>
    PROVE  \E g : /\ Trace(g, n + 1) /\ g[n + 1] = Visit(items, slot)
                  /\ \A j \in 0 .. n : g[j] = h[j]
  <1> DEFINE g == [j \in 0 .. n + 1 |-> IF j <= n THEN h[j] ELSE Visit(items, slot)]
  <1>1. n \in Nat
    BY DEF Trace
  <1>2. g[n + 1] = Visit(items, slot) /\ \A j \in 0 .. n : g[j] = h[j]
    BY <1>1
  <1> HIDE DEF g
  <1>3. g[0] = <<AllTypes(news), Len(pool.messages) + 1>>
    BY <1>1, <1>2 DEF Trace
  <1>4. ASSUME NEW j \in 0 .. n
        PROVE  g[j][1] # <<>> /\ g[j + 1] = Visit(g[j][1], g[j][2])
    <2>1. CASE j = n
      <3>1. g[j][1] = items /\ g[j][2] = slot
        BY <1>1, <1>2, <2>1
      <3> QED BY <1>2, <2>1, <3>1
    <2>2. CASE j \in 0 .. n - 1
      <3>1. j + 1 \in 0 .. n /\ g[j] = h[j] /\ g[j + 1] = h[j + 1]
        BY <1>1, <1>2, <2>2
      <3>2. h[j][1] # <<>> /\ h[j + 1] = Visit(h[j][1], h[j][2])
        BY <2>2 DEF Trace
      <3> QED BY <3>1, <3>2
    <2> QED BY <1>1, <1>4, <2>1, <2>2
  <1>5. Trace(g, n + 1)
    BY <1>1, <1>3, <1>4 DEF Trace
  <1> QED BY <1>2, <1>5

Registering(h, n) ==
    /\ Trace(h, n) /\ h[n] = <<todo, Len(staged.messages) + 1>>
    /\ RecordedAll(staged, h, n) /\ EnumsSeen(staged, h, n)

\* The enum of item x is linked.
Filled(P, x) == P.enums[P.byName[Fqn(x)].i].values # <<>>
Linking(h, n, m) ==
    /\ Trace(h, n) /\ h[n][1] = <<>>
    /\ m \in 0 .. n /\ h[m] = <<todo, linked>>
    /\ RecordedAll(staged, h, n) /\ EnumsSeen(staged, h, n)
    /\ \A j \in 0 .. m - 1 :
          Visited(h, j).k = "enum" => Filled(staged, Visited(h, j))
EnumsFilled(P) == \A i \in 1 .. Len(P.enums) : P.enums[i].values # <<>>

Total == Len(pool.files) + Len(news)

\* What holds of the messages and enums, in every pool and in every pass.
PoolTypes(P) == TypesGood(P, Len(P.files)) /\ EnumsFilled(P)
StagedTypes ==
    /\ TypesGood(staged, Total) /\ OldTypes(pool, staged)
    /\ pass = "register" => \E h, n : Registering(h, n)
    /\ pass = "link" => \E h, n, m : Linking(h, n, m)
    /\ pass \in {"services", "index"} => EnumsFilled(staged)
TypesInv ==
    /\ PoolTypes(pool) /\ PoolTypes(past.before)
    /\ pass # "idle" => StagedTypes

\* The item that is linked has its entry.
LEMMA ItemRecorded ==
    ASSUME StagedTypes, pass = "link", todo # <<>>
    PROVE  Recorded(staged, Item, linked)
  <1>1. PICK h, n, m : Linking(h, n, m)
    BY DEF StagedTypes
  <1>2. /\ n \in Nat /\ m \in 0 .. n /\ h[m] = <<todo, linked>> /\ h[n][1] = <<>>
        /\ RecordedAll(staged, h, n)
    BY <1>1 DEF Linking, Trace
  <1>3. h[m][1] = todo /\ h[m][2] = linked
    BY <1>2
  <1>4. m \in 0 .. n - 1
    BY <1>2, <1>3
  <1>5. Recorded(staged, Visited(h, m), h[m][2])
    BY <1>2, <1>4 DEF RecordedAll
  <1> QED BY <1>3, <1>5 DEF Visited, Item

LEMMA OldStays ==
    ASSUME NEW P, Shape(P), NEW Q, Shape(Q), NEW R, Shape(R), OldTypes(P, Q),
           DOMAIN Q.symbols \subseteq DOMAIN R.symbols,
           Len(Q.messages) <= Len(R.messages), Len(Q.enums) <= Len(R.enums),
           \A i \in 1 .. Len(P.messages) :
              R.messages[i] = Q.messages[i] /\ R.messageFile[i] = Q.messageFile[i],
           \A i \in 1 .. Len(P.enums) :
              R.enums[i] = Q.enums[i] /\ R.enumFile[i] = Q.enumFile[i]
    PROVE  OldTypes(P, R)
  <1>1. /\ Len(P.messages) \in Nat /\ Len(P.enums) \in Nat
        /\ Len(Q.messages) \in Nat /\ Len(Q.enums) \in Nat
        /\ Len(R.messages) \in Nat /\ Len(R.enums) \in Nat
    BY ShapeLens
  <1>2. Len(P.messages) <= Len(R.messages) /\ Len(P.enums) <= Len(R.enums)
    BY <1>1 DEF OldTypes
  <1> QED BY <1>2 DEF OldTypes

LEMMA SameOld ==
    ASSUME NEW P, Shape(P), NEW Q, Shape(Q), NEW R, Shape(R), OldTypes(P, Q),
           DOMAIN Q.symbols \subseteq DOMAIN R.symbols, SameTypes(Q, R)
    PROVE  OldTypes(P, R)
  BY DEF OldTypes, SameTypes

\* The walk that registers goes on by one item.
LEMMA RegisterOn ==
    ASSUME CallOK, Walks, NEW h, NEW n, Registering(h, n),
           Shape(pool), Shape(staged'), Kept(staged, staged'),
           Recorded(staged', Item, Len(staged.messages) + 1),
           Len(staged'.messages) = IF Item.k = "message" THEN Len(staged.messages) + 1
                                   ELSE Len(staged.messages),
           \A i \in Len(staged.enums) + 1 .. Len(staged'.enums) :
              Item.k = "enum" /\ staged'.enums[i].fullName = Fqn(Item)
    PROVE  \E g, k : Registering(g, k)'
  <1> DEFINE slot == Len(staged.messages) + 1
  <1>1. /\ todo # <<>> /\ news' = news /\ pool' = pool
        /\ todo' = Expand(Item) \o Tail(todo)
    BY WalkTodo
  <1>2. Trace(h, n) /\ h[n] = <<todo, slot>> /\ n \in Nat
    BY DEF Registering, Trace
  <1>s. slot = Len(staged.messages) + 1
    OBVIOUS
  <1> HIDE DEF slot
  <1>3. PICK g : /\ Trace(g, n + 1) /\ g[n + 1] = Visit(todo, slot)
                 /\ \A j \in 0 .. n : g[j] = h[j]
    BY <1>1, <1>2, TraceGrows
  <1>4. Trace(g, n + 1)'
    <2>1. AllTypes(news)' = AllTypes(news)
      BY <1>1 DEF AllTypes, Types
    <2> QED BY <1>1, <1>3, <2>1 DEF Trace
  <1>5. (g[n + 1] = <<todo, Len(staged.messages) + 1>>)'
    <2>1. Visit(todo, slot) = <<todo', Len(staged'.messages) + 1>>
      BY <1>1, <1>s DEF Visit, Item
    <2> QED BY <1>3, <2>1
  <1>6. \A j \in 0 .. n - 1 : Visited(g, j) = Visited(h, j) /\ g[j][2] = h[j][2]
    BY <1>2, <1>3 DEF Visited
  <1>7. Visited(g, n) = Item /\ g[n][2] = slot
    <2>1. g[n] = <<todo, slot>>
      BY <1>2, <1>3
    <2> QED BY <2>1 DEF Visited, Item
  <1>8. Shape(staged)
    BY DEF CallOK
  <1>9. RecordedAll(staged', g, n + 1)
    <2>1. ASSUME NEW j \in 0 .. n PROVE Recorded(staged', Visited(g, j), g[j][2])
      <3>1. CASE j = n
        BY <1>s, <1>7, <3>1
      <3>2. CASE j \in 0 .. n - 1
        <4>1. Recorded(staged, Visited(h, j), h[j][2])
          BY <3>2 DEF Registering, RecordedAll
        <4>2. Recorded(staged', Visited(h, j), h[j][2])
          BY <1>8, <4>1, RecordedStays
        <4> QED BY <1>6, <3>2, <4>2
      <3> QED BY <1>2, <2>1, <3>1, <3>2
    <2> QED BY <1>2, <2>1 DEF RecordedAll
  <1>10. EnumsSeen(staged', g, n + 1)
    <2>1. /\ Len(staged.enums) \in Nat /\ Len(pool.enums) \in Nat
          /\ Len(staged'.enums) \in Nat
      BY <1>8, ShapeLens
    <2>2. ASSUME NEW i \in Len(pool.enums) + 1 .. Len(staged'.enums)
          PROVE  \E j \in 0 .. n : /\ Visited(g, j).k = "enum"
                                   /\ staged'.enums[i].fullName = Fqn(Visited(g, j))
      <3>1. CASE i \in Len(staged.enums) + 1 .. Len(staged'.enums)
        <4>1. Item.k = "enum" /\ staged'.enums[i].fullName = Fqn(Item)
          BY <3>1
        <4> QED BY <1>2, <1>7, <4>1
      <3>2. CASE i \in Len(pool.enums) + 1 .. Len(staged.enums)
        <4>1. PICK j \in 0 .. n - 1 :
                 Visited(h, j).k = "enum" /\ staged.enums[i].fullName = Fqn(Visited(h, j))
          BY <3>2 DEF Registering, EnumsSeen
        <4>2. staged'.enums[i].fullName = staged.enums[i].fullName
          BY <2>1, <3>2 DEF Kept
        <4>3. j \in 0 .. n /\ Visited(g, j) = Visited(h, j)
          BY <1>2, <1>6
        <4> QED BY <4>1, <4>2, <4>3
      <3> QED BY <2>1, <2>2, <3>1, <3>2
    <2>3. 0 .. (n + 1) - 1 = 0 .. n
      BY <1>2
    <2> QED BY <2>2, <2>3 DEF EnumsSeen
  <1>11. RecordedAll(staged, g, n + 1)' /\ EnumsSeen(staged, g, n + 1)'
    BY <1>1, <1>9, <1>10 DEF RecordedAll, Recorded, EnumsSeen
  <1>12. Registering(g, n + 1)'
    BY <1>4, <1>5, <1>11 DEF Registering
  <1> QED BY <1>12

\* The walk that links goes on by one item.
LEMMA LinkOn ==
    ASSUME CallOK, Walks, NEW h, NEW n, NEW m, Linking(h, n, m),
           Shape(pool), Shape(staged'), Renewed(staged, staged'),
           linked' = IF Item.k = "message" THEN linked + 1 ELSE linked,
           Item.k = "enum" => Filled(staged', Item),
           \A j \in 0 .. m - 1 :
              Visited(h, j).k = "enum" => Filled(staged', Visited(h, j))
    PROVE  \E g, k, l : Linking(g, k, l)'
  <1>1. /\ todo # <<>> /\ news' = news /\ pool' = pool
        /\ todo' = Expand(Item) \o Tail(todo)
    BY WalkTodo
  <1>2. /\ Trace(h, n) /\ h[n][1] = <<>> /\ n \in Nat /\ m \in 0 .. n
        /\ h[m] = <<todo, linked>>
        /\ RecordedAll(staged, h, n) /\ EnumsSeen(staged, h, n)
    BY DEF Linking, Trace
  <1>3. h[m][1] = todo /\ h[m][2] = linked
    BY <1>2
  <1>4. m \in 0 .. n - 1 /\ m + 1 \in 0 .. n
    BY <1>1, <1>2, <1>3
  <1>5. h[m + 1] = Visit(todo, linked)
    BY <1>2, <1>3, <1>4 DEF Trace
  <1>6. (h[m + 1] = <<todo, linked>>)'
    BY <1>1, <1>5 DEF Visit, Item
  <1>7. Trace(h, n)'
    <2>1. AllTypes(news)' = AllTypes(news)
      BY <1>1 DEF AllTypes, Types
    <2> QED BY <1>1, <1>2, <2>1 DEF Trace
  <1>8. Shape(staged) /\ Kept(staged, staged')
    BY RenewedKept DEF CallOK
  <1>9. RecordedAll(staged', h, n)
    BY <1>2, <1>8, RecordedStays DEF RecordedAll
  <1>10. EnumsSeen(staged', h, n)
    <2>1. Len(pool.enums) \in Nat /\ Len(staged.enums) \in Nat
      BY <1>8, ShapeLens
    <2>2. \A i \in Len(pool.enums) + 1 .. Len(staged.enums) :
             staged'.enums[i].fullName = staged.enums[i].fullName
      BY <2>1 DEF Renewed
    <2>3. Len(staged'.enums) = Len(staged.enums)
      BY DEF Renewed
    <2> QED BY <1>2, <2>2, <2>3 DEF EnumsSeen
  <1>11. RecordedAll(staged, h, n)' /\ EnumsSeen(staged, h, n)'
    BY <1>1, <1>9, <1>10 DEF RecordedAll, Recorded, EnumsSeen
  <1>12. ASSUME NEW j \in 0 .. (m + 1) - 1, Visited(h, j).k = "enum"
         PROVE  Filled(staged', Visited(h, j))
    <2>1. CASE j = m
      BY <1>3, <1>12, <2>1 DEF Visited, Item
    <2>2. CASE j \in 0 .. m - 1
      BY <1>12, <2>2
    <2> QED BY <1>4, <2>1, <2>2
  <1>13. Linking(h, n, m + 1)'
    BY <1>2, <1>4, <1>6, <1>7, <1>11, <1>12 DEF Linking, Filled
  <1> QED BY <1>13

\* A step on one item, as far as messages and enums go.
TypesKeep ==
    /\ TypesGood(staged', Total) /\ OldTypes(pool, staged')
    /\ pass = "register" => \E h, n : Registering(h, n)'
    /\ pass = "link" => \E h, n, m : Linking(h, n, m)'
    /\ pass \in {"services", "index"} => EnumsFilled(staged')

TypesBefore ==
    /\ CallOK /\ Walks /\ StagedTypes
    /\ Shape(pool) /\ Shape(staged) /\ Shape(staged')
    /\ Item.file \in 1 .. Total

LEMMA MessageComesKeeps ==
    ASSUME TypesBefore, MessageComes
    PROVE  TypesKeep
  <1> DEFINE fqn == Fqn(Item)
             file == Item.file
             d == Item.d
  <1>1. /\ pass = "register" /\ Item.k = "message"
        /\ fqn \notin DOMAIN staged.symbols
        /\ MessageAdded(staged, staged', fqn, d, file)
    BY DEF MessageComes, Visiting
  <1>2. /\ CallOK /\ Walks /\ Shape(pool) /\ Shape(staged) /\ Shape(staged')
        /\ file \in 1 .. Total
        /\ TypesGood(staged, Total) /\ OldTypes(pool, staged)
    BY DEF TypesBefore, StagedTypes
  <1> HIDE DEF fqn, file, d
  <1>3. TypesGood(staged', Total)
    BY <1>1, <1>2, MessageAddedGood
  <1>4. MessageEntered(staged, staged', fqn, d, file)
    BY <1>1, <1>2, MessageAddedFacts
  <1>5. fqn \notin DOMAIN staged.byName
    BY <1>1, <1>2 DEF TypesGood
  <1>6. Kept(staged, staged')
    BY <1>2, <1>4, <1>5, MessageKept
  <1>7. /\ Len(pool.messages) \in Nat /\ Len(pool.enums) \in Nat
        /\ Len(staged.messages) \in Nat /\ Len(staged.enums) \in Nat
    BY <1>2, ShapeLens
  <1>8. /\ Len(pool.messages) <= Len(staged.messages)
        /\ Len(pool.enums) <= Len(staged.enums)
    BY <1>2 DEF OldTypes
  <1>9. /\ Len(staged'.messages) = Len(staged.messages) + 1
        /\ staged'.enums = staged.enums /\ staged'.enumFile = staged.enumFile
        /\ DOMAIN staged.symbols \subseteq DOMAIN staged'.symbols
        /\ \A i \in 1 .. Len(staged.messages) :
              /\ staged'.messages[i] = staged.messages[i]
              /\ staged'.messageFile[i] = staged.messageFile[i]
    BY <1>4 DEF MessageEntered
  <1>10. OldTypes(pool, staged')
    <2>1. \A i \in 1 .. Len(pool.messages) :
              /\ staged'.messages[i] = staged.messages[i]
              /\ staged'.messageFile[i] = staged.messageFile[i]
      BY <1>7, <1>8, <1>9
    <2>2. Len(staged.messages) <= Len(staged'.messages)
          /\ Len(staged.enums) <= Len(staged'.enums)
      BY <1>7, <1>9
    <2> QED BY <1>2, <1>9, <2>1, <2>2, OldStays
  <1>11. Recorded(staged', Item, Len(staged.messages) + 1)
    <2>1. /\ staged'.messages[Len(staged.messages) + 1] = Placeholder(fqn, d)
          /\ staged'.messageFile[Len(staged.messages) + 1] = file
      BY <1>4 DEF MessageEntered
    <2>2. Placeholder(fqn, d).fullName = fqn
      BY DEF Placeholder
    <2>3. Len(staged.messages) + 1 \in Len(pool.messages) + 1 .. Len(staged'.messages)
      BY <1>7, <1>8, <1>9
    <2> QED BY <1>1, <2>1, <2>2, <2>3 DEF Recorded, fqn, file
  <1>12. PICK h, n : Registering(h, n)
    BY <1>1 DEF TypesBefore, StagedTypes
  <1>13. \A i \in Len(staged.enums) + 1 .. Len(staged'.enums) :
              Item.k = "enum" /\ staged'.enums[i].fullName = Fqn(Item)
    BY <1>7, <1>9
  <1>14. \E g, k : Registering(g, k)'
    BY <1>1, <1>2, <1>6, <1>9, <1>11, <1>12, <1>13, RegisterOn
  <1> QED BY <1>1, <1>3, <1>10, <1>14 DEF TypesKeep

LEMMA EnumComesKeeps ==
    ASSUME TypesBefore, EnumComes
    PROVE  TypesKeep
  <1> DEFINE fqn == Fqn(Item)
             file == Item.file
  <1>1. /\ pass = "register" /\ Item.k = "enum"
        /\ fqn \notin DOMAIN staged.symbols
        /\ EnumAdded(staged, staged', fqn, file)
    BY DEF EnumComes, Visiting
  <1>2. /\ CallOK /\ Walks /\ Shape(pool) /\ Shape(staged) /\ Shape(staged')
        /\ file \in 1 .. Total
        /\ TypesGood(staged, Total) /\ OldTypes(pool, staged)
    BY DEF TypesBefore, StagedTypes
  <1> HIDE DEF fqn, file
  <1>3. TypesGood(staged', Total)
    BY <1>1, <1>2, EnumAddedGood
  <1>4. EnumEntered(staged, staged', fqn, file)
    BY <1>1, <1>2, EnumAddedFacts
  <1>5. fqn \notin DOMAIN staged.byName
    BY <1>1, <1>2 DEF TypesGood
  <1>6. Kept(staged, staged')
    BY <1>2, <1>4, <1>5, EnumKept
  <1>7. /\ Len(pool.messages) \in Nat /\ Len(pool.enums) \in Nat
        /\ Len(staged.messages) \in Nat /\ Len(staged.enums) \in Nat
    BY <1>2, ShapeLens
  <1>8. /\ Len(pool.messages) <= Len(staged.messages)
        /\ Len(pool.enums) <= Len(staged.enums)
    BY <1>2 DEF OldTypes
  <1> DEFINE k == Len(staged.enums) + 1
  <1>9. /\ Len(staged'.enums) = k
        /\ staged'.messages = staged.messages
        /\ staged'.messageFile = staged.messageFile
        /\ DOMAIN staged.symbols \subseteq DOMAIN staged'.symbols
        /\ \A i \in 1 .. Len(staged.enums) :
              /\ staged'.enums[i] = staged.enums[i]
              /\ staged'.enumFile[i] = staged.enumFile[i]
        /\ staged'.enums[k] = [fullName |-> fqn, values |-> <<>>, type |-> "open"]
        /\ staged'.enumFile[k] = file
        /\ fqn \in DOMAIN staged'.byName
        /\ staged'.byName[fqn] = [k |-> "enum", i |-> k]
    BY <1>4 DEF EnumEntered
  <1>k. k \in Nat /\ k = Len(staged.enums) + 1
    BY <1>7
  <1> HIDE DEF k
  <1>10. OldTypes(pool, staged')
    <2>1. \A i \in 1 .. Len(pool.enums) :
              /\ staged'.enums[i] = staged.enums[i]
              /\ staged'.enumFile[i] = staged.enumFile[i]
      BY <1>7, <1>8, <1>9
    <2>2. Len(staged.messages) <= Len(staged'.messages)
          /\ Len(staged.enums) <= Len(staged'.enums)
      BY <1>7, <1>9, <1>k
    <2> QED BY <1>2, <1>9, <2>1, <2>2, OldStays
  <1>11. Recorded(staged', Item, Len(staged.messages) + 1)
    <2>1. k \in Len(pool.enums) + 1 .. Len(staged'.enums)
      BY <1>7, <1>8, <1>9, <1>k
    <2>2. staged'.byName[fqn].k = "enum" /\ staged'.byName[fqn].i = k
      BY <1>9
    <2> QED BY <1>1, <1>9, <2>1, <2>2 DEF Recorded, fqn, file
  <1>12. PICK h, n : Registering(h, n)
    BY <1>1 DEF TypesBefore, StagedTypes
  <1>13. \A i \in Len(staged.enums) + 1 .. Len(staged'.enums) :
              Item.k = "enum" /\ staged'.enums[i].fullName = Fqn(Item)
    <2>1. staged'.enums[k].fullName = fqn
      BY <1>9
    <2> QED BY <1>1, <1>7, <1>9, <1>k, <2>1 DEF fqn
  <1>14. \E g, l : Registering(g, l)'
    BY <1>1, <1>2, <1>6, <1>9, <1>11, <1>12, <1>13, RegisterOn
  <1> QED BY <1>1, <1>3, <1>10, <1>14 DEF TypesKeep

LEMMA MessageGetsKeeps ==
    ASSUME TypesBefore, NEW fields, MessageGets(fields)
    PROVE  TypesKeep
  <1> DEFINE fqn == Fqn(Item)
             d == Item.d
  <1>1. /\ pass = "link" /\ todo # <<>> /\ Item.k = "message" /\ linked' = linked + 1
        /\ MessagePut(staged, staged', fqn, d, fields, linked)
    BY DEF MessageGets, Visiting
  <1>2. /\ CallOK /\ Walks /\ Shape(pool) /\ Shape(staged) /\ Shape(staged')
        /\ TypesGood(staged, Total) /\ OldTypes(pool, staged)
    BY DEF TypesBefore, StagedTypes
  <1>3. Recorded(staged, Item, linked)
    BY <1>1, ItemRecorded DEF TypesBefore
  <1>4. /\ linked \in Len(pool.messages) + 1 .. Len(staged.messages)
        /\ staged.messages[linked].fullName = fqn
    BY <1>1, <1>3 DEF Recorded
  <1>e. /\ DOMAIN staged.symbols \subseteq DOMAIN staged'.symbols
        /\ Len(staged'.messages) = Len(staged.messages)
        /\ \A i \in 1 .. Len(staged.messages) :
              i # linked => staged'.messages[i] = staged.messages[i]
        /\ staged'.messageFile = staged.messageFile
        /\ staged'.enums = staged.enums /\ staged'.enumFile = staged.enumFile
    BY <1>1 DEF MessagePut
  <1> HIDE DEF fqn, d
  <1>5. Renewed(staged, staged')
    BY <1>1, <1>4, MessagePutRenewed
  <1>6. TypesGood(staged', Total)
    BY <1>2, <1>5, RenewedGood
  <1>7. /\ Len(pool.messages) \in Nat /\ Len(pool.enums) \in Nat
        /\ Len(staged.messages) \in Nat /\ Len(staged.enums) \in Nat
    BY <1>2, ShapeLens
  <1>8. /\ Len(pool.messages) <= Len(staged.messages)
        /\ Len(pool.enums) <= Len(staged.enums)
    BY <1>2 DEF OldTypes
  <1>9. OldTypes(pool, staged')
    <2>1. \A i \in 1 .. Len(pool.messages) :
              staged'.messages[i] = staged.messages[i]
      BY <1>4, <1>7, <1>8, <1>e
    <2>2. Len(staged.messages) <= Len(staged'.messages)
          /\ Len(staged.enums) <= Len(staged'.enums)
      BY <1>7, <1>e
    <2> QED BY <1>2, <1>e, <2>1, <2>2, OldStays
  <1>10. PICK h, n, m : Linking(h, n, m)
    BY <1>1 DEF TypesBefore, StagedTypes
  <1>11. \A x : Filled(staged, x) => Filled(staged', x)
    BY <1>5, <1>e DEF Filled, Renewed
  <1>12. \A j \in 0 .. m - 1 :
              Visited(h, j).k = "enum" => Filled(staged', Visited(h, j))
    BY <1>10, <1>11 DEF Linking
  <1>13. \E g, k, l : Linking(g, k, l)'
    BY <1>1, <1>2, <1>5, <1>10, <1>12, LinkOn
  <1> QED BY <1>1, <1>6, <1>9, <1>13 DEF TypesKeep

LEMMA EnumGetsKeeps ==
    ASSUME TypesBefore, EnumGets
    PROVE  TypesKeep
  <1> DEFINE d == Item.d
             parent == Item.parent
             fqn == Append(parent, d.name)
             feats == ItemFeats(Item)
             i == staged.byName[fqn].i
  <1>0. /\ ItemOK(Item) /\ CallOK /\ todo # <<>>
    BY ItemFacts DEF TypesBefore, EnumGets, Visiting
  <1>1. /\ pass = "link" /\ Item.k = "enum" /\ linked' = linked
        /\ EnumPut(staged, staged', parent, d, feats) /\ d.values # <<>>
    BY DEF EnumGets, Visiting, Paused
  <1>2. /\ CallOK /\ Walks /\ Shape(pool) /\ Shape(staged) /\ Shape(staged')
        /\ TypesGood(staged, Total) /\ OldTypes(pool, staged)
    BY DEF TypesBefore, StagedTypes
  <1>3. Recorded(staged, Item, linked)
    BY <1>0, <1>1, ItemRecorded DEF TypesBefore
  <1>f. Fqn(Item) = fqn
    BY DEF Fqn
  <1>4. /\ fqn \in DOMAIN staged.byName
        /\ staged.byName[fqn].k = "enum"
        /\ i \in Len(pool.enums) + 1 .. Len(staged.enums)
    BY <1>1, <1>3, <1>f DEF Recorded
  <1>5. staged.enums[i].fullName = fqn
    <2>1. HasEntry(staged, fqn, staged.byName[fqn])
      BY <1>2, <1>4 DEF TypesGood
    <2> QED BY <1>4, <2>1 DEF HasEntry
  <1>6. FeatsOK(feats)
    BY <1>0, <1>1, MergeFeats DEF ItemOK, ItemFeats
  <1>e. staged'.messages = staged.messages /\ staged'.messageFile = staged.messageFile
    BY <1>1 DEF EnumPut
  <1> HIDE DEF feats, d, parent
  <1>7. i = staged.byName[Append(parent, d.name)].i
        /\ staged.enums[i].fullName = Append(parent, d.name)
    BY <1>5
  <1> HIDE DEF fqn
  <1> HIDE DEF i
  <1>8. /\ Renewed(staged, staged')
        /\ \A j \in 1 .. Len(staged.enums) : j # i => staged'.enums[j] = staged.enums[j]
        /\ i \in 1 .. Len(staged.enums) => staged'.enums[i].values = d.values
    <2>1. EnumPut(staged, staged', parent, d, feats) /\ FeatsOK(feats)
      BY <1>1, <1>6
    <2>2. /\ staged.byName[Append(parent, d.name)].i = i
          /\ staged.enums[i].fullName = Append(parent, d.name)
      BY <1>7
    <2> QED BY <2>1, <2>2, EnumPutRenewed, SMTT(30)
  <1>9. TypesGood(staged', Total)
    BY <1>2, <1>8, RenewedGood
  <1>10. /\ Len(pool.messages) \in Nat /\ Len(pool.enums) \in Nat
        /\ Len(staged.messages) \in Nat /\ Len(staged.enums) \in Nat
    BY <1>2, ShapeLens
  <1>11. /\ Len(pool.messages) <= Len(staged.messages)
         /\ Len(pool.enums) <= Len(staged.enums)
    BY <1>2 DEF OldTypes
  <1>12. /\ staged'.enumFile = staged.enumFile /\ staged'.byName = staged.byName
         /\ Len(staged'.enums) = Len(staged.enums)
         /\ DOMAIN staged.symbols \subseteq DOMAIN staged'.symbols
    BY <1>8 DEF Renewed
  <1>13. OldTypes(pool, staged')
    <2>1. \A j \in 1 .. Len(pool.enums) : staged'.enums[j] = staged.enums[j]
      BY <1>4, <1>8, <1>10, <1>11
    <2>2. Len(staged.messages) <= Len(staged'.messages)
          /\ Len(staged.enums) <= Len(staged'.enums)
      BY <1>10, <1>12, <1>e
    <2> QED BY <1>2, <1>12, <1>e, <2>1, <2>2, OldStays
  <1>14. PICK h, n, m : Linking(h, n, m)
    BY <1>1 DEF TypesBefore, StagedTypes
  <1>15. staged'.enums[i].values # <<>>
    <2>1. i \in 1 .. Len(staged.enums)
      BY <1>4, <1>10
    <2> QED BY <1>1, <1>8, <2>1
  <1>16. Filled(staged', Item)
    BY <1>12, <1>15, <1>f DEF Filled, i
  <1>17. ASSUME NEW j \in 0 .. m - 1, Visited(h, j).k = "enum"
         PROVE  Filled(staged', Visited(h, j))
    <2> DEFINE x == Visited(h, j)
               l == staged.byName[Fqn(x)].i
    <2>1. Recorded(staged, x, h[j][2]) /\ Filled(staged, x)
      <3>1. j \in 0 .. n - 1
        BY <1>14 DEF Linking, Trace
      <3> QED BY <1>14, <1>17, <3>1 DEF Linking, RecordedAll
    <2>2. l \in Len(pool.enums) + 1 .. Len(staged.enums) /\ staged.enums[l].values # <<>>
      BY <1>17, <2>1 DEF Recorded, Filled
    <2>f. staged'.byName[Fqn(x)].i = l
      BY <1>12
    <2> HIDE DEF l
    <2>3. l \in 1 .. Len(staged.enums)
      BY <1>10, <2>2
    <2>4. staged'.enums[l].values # <<>>
      BY <1>8, <1>15, <2>2, <2>3
    <2> QED BY <2>f, <2>4 DEF Filled
  <1>18. \E g, k, l : Linking(g, k, l)'
    BY <1>1, <1>2, <1>8, <1>14, <1>16, <1>17, LinkOn
  <1> QED BY <1>1, <1>9, <1>13, <1>18 DEF TypesKeep

LEMMA TypesWalk ==
    ASSUME BaseInv, TypesInv, Walks
    PROVE  StagedTypes'
  <1>1. CallOK /\ Shape(pool) /\ Shape(staged) /\ NamesTyped(staged)
    BY DEF BaseInv, CallInv, RoundsOK, CallOK, PoolsTyped
  <1>2. /\ todo # <<>> /\ pass' = pass /\ news' = news /\ pool' = pool /\ pass # "idle"
    BY <1>1, WalkTodo
  <1>3. Effects
    BY <1>1, WalkEffects
  <1>4. Shape(staged') /\ StagedTypes
    BY <1>1, <1>2, <1>3, WalkShape DEF TypesInv
  <1>5. Item.file \in 1 .. Total
    <2>1. Item.file \in NewNumbers /\ Len(pool.files) \in Nat /\ Len(news) \in Nat
      BY <1>1, <1>2, ItemFacts, ShapeLens DEF CallOK
    <2> QED BY <2>1 DEF NewNumbers, Total
  <1>6. TypesBefore
    BY <1>1, <1>4, <1>5 DEF TypesBefore
  <1>7. ASSUME SameTypes(staged, staged'), DOMAIN staged.symbols \subseteq DOMAIN staged'.symbols,
               pass \in {"services", "index"}
        PROVE  TypesKeep
    <2>1. TypesGood(staged', Total)
      BY <1>4, <1>7, SameRenewed, RenewedGood DEF StagedTypes
    <2>2. OldTypes(pool, staged')
      BY <1>1, <1>4, <1>7, SameOld DEF StagedTypes
    <2>3. EnumsFilled(staged')
      BY <1>4, <1>7 DEF StagedTypes, EnumsFilled, SameTypes
    <2> QED BY <1>7, <2>1, <2>2, <2>3 DEF TypesKeep
  <1>8. ASSUME ServiceComes PROVE TypesKeep
    <2>1. /\ pass = "services" /\ SameTypes(staged, staged')
          /\ DOMAIN staged.symbols \subseteq DOMAIN staged'.symbols
      BY <1>8 DEF ServiceComes, ServiceAdded, Visiting
    <2> QED BY <1>7, <2>1
  <1>9. ASSUME ExtensionComes PROVE TypesKeep
    <2>1. /\ pass = "services" /\ SameTypes(staged, staged')
          /\ DOMAIN staged.symbols \subseteq DOMAIN staged'.symbols
      BY <1>9 DEF ExtensionComes, ExtensionAdded, Visiting
    <2> QED BY <1>7, <2>1
  <1>10. ASSUME NestedOpens PROVE TypesKeep
    <2>1. /\ pass = "services" /\ SameTypes(staged, staged')
          /\ DOMAIN staged.symbols \subseteq DOMAIN staged'.symbols
      BY <1>10 DEF NestedOpens, Visiting, SameTypes
    <2> QED BY <1>7, <2>1
  <1>11. ASSUME ItemOwned PROVE TypesKeep
    <2>1. /\ pass = "index" /\ SameTypes(staged, staged')
          /\ DOMAIN staged.symbols \subseteq DOMAIN staged'.symbols
      BY <1>11 DEF ItemOwned, SymbolsIndexed
    <2> QED BY <1>7, <2>1
  <1>12. TypesKeep
    BY <1>3, <1>6, <1>8, <1>9, <1>10, <1>11, MessageComesKeeps, EnumComesKeeps,
       MessageGetsKeeps, EnumGetsKeeps DEF Effects
  <1>13. Total' = Total
    BY <1>2 DEF Total
  <1>14. /\ TypesGood(staged, Total)' /\ OldTypes(pool, staged)' /\ EnumsFilled(staged)' = EnumsFilled(staged')
    BY <1>2, <1>12, <1>13 DEF TypesKeep, TypesGood, OldTypes, EnumsFilled
  <1> QED BY <1>2, <1>12, <1>14 DEF TypesKeep, StagedTypes

LEMMA TypesStill ==
    ASSUME StagedTypes, Still
    PROVE  StagedTypes'
  <1>1. /\ pool' = pool /\ staged' = staged /\ pass' = pass /\ news' = news
        /\ todo' = todo /\ linked' = linked
    BY DEF Still
  <1>2. AllTypes(news)' = AllTypes(news)
    BY <1>1 DEF AllTypes, Types
  <1>3. TypesGood(staged, Total)' /\ OldTypes(pool, staged)'
    BY <1>1 DEF StagedTypes, TypesGood, OldTypes, Total
  <1>4. EnumsFilled(staged)' <=> EnumsFilled(staged)
    BY <1>1 DEF EnumsFilled
  <1>5. \A h, n : Trace(h, n) => Trace(h, n)'
    BY <1>1, <1>2 DEF Trace
  <1>6. \A h, n : /\ RecordedAll(staged, h, n) => RecordedAll(staged, h, n)'
                  /\ EnumsSeen(staged, h, n) => EnumsSeen(staged, h, n)'
    BY <1>1 DEF RecordedAll, Recorded, EnumsSeen
  <1>7. \A h, n : Registering(h, n) => Registering(h, n)'
    BY <1>1, <1>5, <1>6 DEF Registering
  <1>8. \A h, n, m : Linking(h, n, m) => Linking(h, n, m)'
    BY <1>1, <1>5, <1>6 DEF Linking, Filled
  <1> QED BY <1>1, <1>3, <1>4, <1>7, <1>8 DEF StagedTypes

LEMMA TypesBegun ==
    ASSUME BaseInv, TypesInv, Begun
    PROVE  StagedTypes'
  <1>1. /\ pass' = "register" /\ news' \in Seq(scenario)
        /\ staged' = WithFiles(pool, news') /\ todo' = AllTypes(news')
        /\ pool' = pool
    BY DEF Begun
  <1>2. Shape(pool) /\ TypesGood(pool, Len(pool.files))
    BY DEF BaseInv, CallInv, RoundsOK, TypesInv, PoolTypes
  <1>3. FilesNamed(pool, staged', news')
    BY <1>1, <1>2, WithFilesFacts
  <1>4. SameTypes(pool, staged') /\ staged'.symbols = pool.symbols
    BY <1>3 DEF FilesNamed
  <1>5. /\ Len(pool.messages) \in Nat /\ Len(pool.enums) \in Nat
        /\ Len(pool.files) \in Nat /\ Len(news') \in Nat
    BY <1>1, <1>2, ShapeLens
  <1>6. TypesGood(staged', Total')
    <2>1. TypesGood(staged', Len(pool.files))
      BY <1>2, <1>4, SameRenewed, RenewedGood
    <2>2. Total' \in Nat /\ Len(pool.files) <= Total'
      BY <1>1, <1>5 DEF Total
    <2> QED BY <1>5, <2>1, <2>2, MoreFilesGood
  <1>7. OldTypes(pool, staged')
    BY <1>4, <1>5 DEF OldTypes, SameTypes
  <1>8. PICK h : h[0] = <<AllTypes(news'), Len(pool.messages) + 1>>
    <2> DEFINE g == [j \in {0} |-> <<AllTypes(news'), Len(pool.messages) + 1>>]
    <2>1. g[0] = <<AllTypes(news'), Len(pool.messages) + 1>>
      OBVIOUS
    <2> QED BY <2>1
  <1>9. AllTypes(news)' = AllTypes(news')
    BY <1>1 DEF AllTypes, Types
  <1>10. 0 .. 0 - 1 = {}
    OBVIOUS
  <1>11. Trace(h, 0)'
    BY <1>1, <1>8, <1>9, <1>10 DEF Trace
  <1>12. RecordedAll(staged, h, 0)'
    BY <1>10 DEF RecordedAll
  <1>13. EnumsSeen(staged, h, 0)'
    <2>1. Len(pool.enums) + 1 .. Len(staged'.enums) = {}
      BY <1>4, <1>5 DEF SameTypes
    <2> QED BY <1>1, <2>1 DEF EnumsSeen
  <1>14. (h[0] = <<todo, Len(staged.messages) + 1>>)'
    BY <1>1, <1>4, <1>8 DEF SameTypes
  <1>15. Registering(h, 0)'
    BY <1>11, <1>12, <1>13, <1>14 DEF Registering
  <1>16. TypesGood(staged, Total)' /\ OldTypes(pool, staged)'
    BY <1>1, <1>6, <1>7 DEF TypesGood, OldTypes
  <1> QED BY <1>1, <1>15, <1>16 DEF StagedTypes

LEMMA TypesSwitch ==
    ASSUME BaseInv, TypesInv, Switches
    PROVE  StagedTypes'
  <1>1. pool' = pool /\ news' = news /\ pass # "idle"
    BY DEF Switches, TypesRegistered, TypesLinked, FieldsFinal
  <1>2. /\ StagedTypes /\ Shape(pool) /\ Shape(staged) /\ EnumsFilled(pool)
    BY <1>1 DEF BaseInv, CallInv, RoundsOK, CallOK, TypesInv, PoolTypes
  <1>3. /\ Len(pool.messages) \in Nat /\ Len(pool.enums) \in Nat
        /\ Len(staged.messages) \in Nat /\ Len(staged.enums) \in Nat
    BY <1>2, ShapeLens
  <1>4. Total' = Total
    BY <1>1 DEF Total
  <1>5. TypesGood(staged, Total) /\ OldTypes(pool, staged)
    BY <1>2 DEF StagedTypes
  <1>6. ASSUME staged' = staged PROVE TypesGood(staged, Total)' /\ OldTypes(pool, staged)'
    BY <1>1, <1>4, <1>5, <1>6 DEF TypesGood, OldTypes
  <1>7. CASE TypesRegistered
    <2>1. /\ pass = "register" /\ todo = <<>> /\ pass' = "link" /\ staged' = staged
          /\ todo' = AllTypes(news) /\ linked' = Len(pool.messages) + 1
      BY <1>7 DEF TypesRegistered
    <2>2. PICK h, n : Registering(h, n)
      BY <1>2, <2>1 DEF StagedTypes
    <2>3. /\ Trace(h, n) /\ h[n] = <<todo, Len(staged.messages) + 1>>
          /\ RecordedAll(staged, h, n) /\ EnumsSeen(staged, h, n)
      BY <2>2 DEF Registering
    <2>4. AllTypes(news)' = AllTypes(news)
      BY <1>1 DEF AllTypes, Types
    <2>5. Trace(h, n)'
      BY <1>1, <2>3, <2>4 DEF Trace
    <2>6. RecordedAll(staged, h, n)' /\ EnumsSeen(staged, h, n)'
      BY <1>1, <2>1, <2>3 DEF RecordedAll, Recorded, EnumsSeen
    <2>7. h[0] = <<todo', linked'>> /\ n \in Nat
      BY <2>1, <2>3 DEF Trace
    <2>8. h[n][1] = <<>>
      BY <2>1, <2>3
    <2>9. 0 .. 0 - 1 = {} /\ 0 \in 0 .. n
      BY <2>7
    <2>10. Linking(h, n, 0)'
      BY <2>5, <2>6, <2>7, <2>8, <2>9 DEF Linking
    <2> QED BY <1>6, <2>1, <2>10 DEF StagedTypes
  <1>8. CASE TypesLinked
    <2>1. pass = "link" /\ todo = <<>> /\ pass' = "services" /\ staged' = staged
      BY <1>8 DEF TypesLinked
    <2>2. PICK h, n, m : Linking(h, n, m)
      BY <1>2, <2>1 DEF StagedTypes
    <2>3. /\ n \in Nat /\ m \in 0 .. n /\ h[m] = <<todo, linked>>
          /\ \A j \in 0 .. n - 1 : h[j][1] # <<>>
          /\ EnumsSeen(staged, h, n)
          /\ \A j \in 0 .. m - 1 :
                Visited(h, j).k = "enum" => Filled(staged, Visited(h, j))
      BY <2>2 DEF Linking, Trace
    <2>4. h[m][1] = <<>>
      BY <2>1, <2>3
    <2>5. m = n
      BY <2>3, <2>4
    <2>6. ASSUME NEW i \in 1 .. Len(staged.enums)
          PROVE  staged.enums[i].values # <<>>
      <3>1. CASE i \in 1 .. Len(pool.enums)
        <4>1. staged.enums[i] = pool.enums[i] /\ pool.enums[i].values # <<>>
          BY <1>2, <1>5, <3>1 DEF OldTypes, EnumsFilled
        <4> QED BY <4>1
      <3>2. CASE i \in Len(pool.enums) + 1 .. Len(staged.enums)
        <4>1. PICK j \in 0 .. n - 1 :
                 Visited(h, j).k = "enum" /\ staged.enums[i].fullName = Fqn(Visited(h, j))
          BY <2>3, <3>2 DEF EnumsSeen
        <4>2. Filled(staged, Visited(h, j))
          BY <2>3, <2>5, <4>1
        <4>3. Leads(staged, staged.enums[i].fullName, "enum", i)
          BY <1>5 DEF TypesGood
        <4>4. staged.byName[Fqn(Visited(h, j))].i = i
          BY <4>1, <4>3 DEF Leads
        <4> QED BY <4>2, <4>4 DEF Filled
      <3> QED BY <1>3, <3>1, <3>2
    <2>7. EnumsFilled(staged)'
      BY <2>1, <2>6 DEF EnumsFilled
    <2> QED BY <1>6, <2>1, <2>7 DEF StagedTypes
  <1>9. CASE FieldsFinal
    <2>1. /\ pass = "services" /\ pass' = "index"
          /\ staged' = Finalized(staged, Len(pool.messages) + 1, Len(pool.extensions) + 1)
      BY <1>9 DEF FieldsFinal
    <2>2. Settled(staged, staged', Len(pool.messages) + 1, Len(pool.extensions) + 1)
      BY <1>2, <2>1, FinalizedFacts
    <2>3. TypesGood(staged', Total)
      BY <1>5, <2>2, SettledRenewed, RenewedGood
    <2>4. /\ Shape(staged') /\ staged'.messageFile = staged.messageFile
          /\ staged'.enums = staged.enums /\ staged'.enumFile = staged.enumFile
          /\ Len(staged'.messages) = Len(staged.messages)
          /\ staged'.symbols = staged.symbols
          /\ \A i \in 1 .. Len(staged.messages) :
                i < Len(pool.messages) + 1 => staged'.messages[i] = staged.messages[i]
      BY <2>2 DEF Settled
    <2>5. \A i \in 1 .. Len(pool.messages) : staged'.messages[i] = staged.messages[i]
      BY <1>3, <1>5, <2>4 DEF OldTypes
    <2>6. OldTypes(pool, staged')
      BY <1>2, <1>3, <1>5, <2>4, <2>5, OldStays
    <2>7. EnumsFilled(staged)'
      BY <1>2, <2>1, <2>4 DEF StagedTypes, EnumsFilled
    <2>8. TypesGood(staged, Total)' /\ OldTypes(pool, staged)'
      BY <1>1, <1>4, <2>3, <2>6 DEF TypesGood, OldTypes
    <2> QED BY <2>1, <2>7, <2>8 DEF StagedTypes
  <1> QED BY <1>7, <1>8, <1>9 DEF Switches

\* The whole pool of a call that ends well, as far as messages and enums go.
LEMMA TypesWhole ==
    ASSUME BaseInv, StagedTypes, pass = "index"
    PROVE  PoolTypes(Whole)
  <1>1. Shape(staged) /\ IsSeq(news) /\ staged.files = pool.files
    BY SeqOver DEF BaseInv, CallInv, CallOK
  <1>2. FilesAdded(staged, Whole, news)
    BY <1>1, WholeFacts
  <1>3. /\ SameTypes(staged, Whole) /\ Whole.symbols = staged.symbols
        /\ Len(Whole.files) = Total
    BY <1>1, <1>2 DEF FilesAdded, Total
  <1>4. TypesGood(Whole, Total)
    BY <1>3, SameRenewed, RenewedGood DEF StagedTypes
  <1>5. EnumsFilled(Whole)
    BY <1>3 DEF StagedTypes, EnumsFilled, SameTypes
  <1> QED BY <1>3, <1>4, <1>5 DEF PoolTypes

\* A pool of the rounds is one of those before, or the whole pool of a call.
LEMMA PoolSteps ==
    ASSUME CallSteps, RoundSteps
    PROVE  /\ pool' \in {pool, past.before} \/ (pool' = Whole /\ Committed)
           /\ past'.before \in {past.before, pool}
  <1>1. CASE Walks
    BY <1>1 DEF Walks, MessageRegistered, EnumRegistered, MessageLinked, EnumLinked,
           ServiceLinked, ExtensionLinked, NestedOpened, ItemIndexed, Onward, RoundSteps
  <1>2. CASE Still \/ Ended \/ Begun \/ Switches \/ Committed
    BY <1>2 DEF Still, Ended, Begun, Switches, Committed, TypesRegistered, TypesLinked,
       FieldsFinal, RoundSteps
  <1> QED BY <1>1, <1>2 DEF CallSteps

\* Where a call is under way after a step, it was begun or goes on.
LEMMA OnSteps ==
    ASSUME CallSteps, pass' # "idle"
    PROVE  Begun \/ (pass # "idle" /\ (Still \/ Switches)) \/ Walks
  BY DEF CallSteps, Still, Ended, Switches, Committed, TypesRegistered, TypesLinked,
     FieldsFinal

LEMMA TypesStep ==
    ASSUME BaseInv, TypesInv, CallSteps, RoundSteps
    PROVE  TypesInv'
  <1>1. PoolTypes(pool) /\ PoolTypes(past.before)
    BY DEF TypesInv
  <1>2. ASSUME Committed PROVE PoolTypes(Whole)
    <2>1. pass = "index"
      BY <1>2 DEF Committed
    <2> QED BY <2>1, TypesWhole DEF TypesInv
  <1>3. PoolTypes(pool') /\ PoolTypes(past'.before)
    BY <1>1, <1>2, PoolSteps
  <1>4. PoolTypes(pool)' /\ PoolTypes(past.before)'
    BY <1>3 DEF PoolTypes, TypesGood, EnumsFilled
  <1>5. ASSUME pass' # "idle" PROVE StagedTypes'
    BY <1>5, OnSteps, TypesBegun, TypesStill, TypesSwitch, TypesWalk DEF TypesInv
  <1> QED BY <1>4, <1>5 DEF TypesInv

LEMMA TypesInit == ASSUME Init PROVE TypesInv
  <1>1. pool = EmptyPool /\ pass = "idle" /\ past = NoPast
    BY DEF Init
  <1>2. past.before = EmptyPool
    BY <1>1 DEF NoPast
  <1>3. /\ EmptyPool.byName = <<>> /\ EmptyPool.messages = <<>>
        /\ EmptyPool.enums = <<>> /\ EmptyPool.symbols = <<>>
    BY DEF EmptyPool
  <1>4. PoolTypes(EmptyPool)
    BY <1>3, EmptyFacts DEF PoolTypes, TypesGood, EnumsFilled
  <1> QED BY <1>1, <1>2, <1>4 DEF TypesInv

\* For any files, the assertion of link_message holds: the walk that links
\* reaches each message with the slot that the walk that registers gave it.
THEOREM WalkStaysInSync == Spec => []WalkInSync
  <1>1. Init => BaseInv /\ TypesInv
    BY BaseInit, TypesInit
  <1>2. BaseInv /\ TypesInv /\ [Next]_vars => (BaseInv /\ TypesInv)'
    BY NextSteps, BaseStep, TypesStep DEF BaseInv
  <1>3. BaseInv /\ TypesInv => WalkInSync
    <2> SUFFICES ASSUME TypesInv, Visiting("link", "message")
                 PROVE  staged.messages[linked].fullName = Fqn(Item)
      BY DEF WalkInSync
    <2>1. pass = "link" /\ todo # <<>> /\ Item.k = "message"
      BY DEF Visiting
    <2>2. Recorded(staged, Item, linked)
      BY <2>1, ItemRecorded DEF TypesInv
    <2> QED BY <2>1, <2>2 DEF Recorded
  <1> QED BY <1>1, <1>2, <1>3, PTL DEF Spec

(***************************************************************************)
(* The tables of services, extensions and files.                           *)
(***************************************************************************)
ServiceNamed(P, name, i) ==
    i \in 1 .. Len(P.services) /\ P.services[i].fullName = name
ExtensionKey(x) == <<x.extendee, x.field.number>>
IndexedAs(P, name, key, i) ==
    /\ name \in DOMAIN P.extensionByName /\ P.extensionByName[name] = i
    /\ key \in DOMAIN P.extensionByExtendee /\ P.extensionByExtendee[key] = i
TablesGood(P) ==
    /\ \A n \in DOMAIN P.serviceByName : ServiceNamed(P, n, P.serviceByName[n])
    /\ DOMAIN P.extensionByName \subseteq DOMAIN P.symbols
    /\ \A n \in DOMAIN P.extensionByName :
          P.extensionByName[n] \in 1 .. Len(P.extensions)
    /\ \A k \in DOMAIN P.extensionByExtendee :
          P.extensionByExtendee[k] \in 1 .. Len(P.extensions)
    /\ \A i \in 1 .. Len(P.extensions) :
          IndexedAs(P, P.extensions[i].fullName, ExtensionKey(P.extensions[i]), i)
NamesFiles(P) ==
    \A n \in DOMAIN P.fileByName :
        P.fileByName[n] \in 1 .. Len(P.files) /\ P.files[P.fileByName[n]].name = n

\* Q has the services and extensions that P has, at their places.
OldDefs(P, Q) ==
    /\ Len(P.services) <= Len(Q.services) /\ Len(P.extensions) <= Len(Q.extensions)
    /\ \A i \in 1 .. Len(P.services) : Q.services[i] = P.services[i]
    /\ \A i \in 1 .. Len(P.extensions) : Q.extensions[i] = P.extensions[i]
DefsSame(P, Q) ==
    /\ SameServices(P, Q) /\ SameExtensions(P, Q)
    /\ DOMAIN P.symbols \subseteq DOMAIN Q.symbols

LEMMA SameTables ==
    ASSUME NEW P, NEW Q, DefsSame(P, Q), TablesGood(P)
    PROVE  TablesGood(Q)
  BY DEF DefsSame, SameServices, SameExtensions, TablesGood, ServiceNamed, IndexedAs

LEMMA ServiceAddedTables ==
    ASSUME NEW P, Shape(P), NEW Q, NEW parent, NEW svc, ServiceAdded(P, Q, parent, svc),
           TablesGood(P)
    PROVE  /\ TablesGood(Q) /\ Len(Q.services) = Len(P.services) + 1
           /\ \A i \in 1 .. Len(P.services) : Q.services[i] = P.services[i]
  <1> DEFINE fqn == Append(parent, svc.name)
             ms == [i \in DOMAIN svc.methods |-> LinkedMethod(P, svc.methods[i])]
             s == [fullName |-> fqn, methods |-> ms]
             k == Len(P.services) + 1
  <1>1. /\ SameExtensions(P, Q) /\ DOMAIN P.symbols \subseteq DOMAIN Q.symbols
        /\ Q.serviceByName = Put(P.serviceByName, fqn, k)
        /\ Q.services = Append(P.services, s)
    BY DEF ServiceAdded
  <1>2. s.fullName = fqn
    OBVIOUS
  <1> HIDE DEF s
  <1>3. IsSeq(P.services) /\ Len(P.services) \in Nat
    BY ShapeLens DEF Shape
  <1>4. /\ Len(Q.services) = k
        /\ \A i \in 1 .. Len(P.services) : Q.services[i] = P.services[i]
        /\ Q.services[k] = s
    BY <1>1, <1>3, AppendFacts
  <1>5. /\ DOMAIN Q.serviceByName = DOMAIN P.serviceByName \cup {fqn}
        /\ Q.serviceByName[fqn] = k
        /\ \A n \in DOMAIN P.serviceByName :
              n # fqn => Q.serviceByName[n] = P.serviceByName[n]
    BY <1>1 DEF Put
  <1>k. k \in Nat /\ k = Len(P.services) + 1
    BY <1>3
  <1> HIDE DEF fqn, k
  <1>6. ASSUME NEW n \in DOMAIN Q.serviceByName
        PROVE  ServiceNamed(Q, n, Q.serviceByName[n])
    <2>1. CASE n = fqn
      BY <1>k, <1>2, <1>4, <1>5, <2>1 DEF ServiceNamed
    <2>2. CASE n # fqn /\ n \in DOMAIN P.serviceByName
      <3> DEFINE i == P.serviceByName[n]
      <3>1. ServiceNamed(P, n, i) /\ Q.serviceByName[n] = i
        BY <1>5, <2>2 DEF TablesGood
      <3> HIDE DEF i
      <3>2. ServiceNamed(Q, n, i)
        BY <1>k, <1>4, <3>1 DEF ServiceNamed
      <3> QED BY <3>1, <3>2
    <2> QED BY <1>5, <2>1, <2>2
  <1>7. TablesGood(Q)
    BY <1>1, <1>6 DEF TablesGood, SameExtensions, IndexedAs
  <1> QED BY <1>k, <1>4, <1>7

LEMMA ExtensionAddedTables ==
    ASSUME NEW P, Shape(P), NEW Q, NEW scope, NEW parent, NEW ext,
           ExtensionAdded(P, Q, scope, parent, ext), TablesGood(P)
    PROVE  /\ TablesGood(Q) /\ Len(Q.extensions) = Len(P.extensions) + 1
           /\ \A i \in 1 .. Len(P.extensions) : Q.extensions[i] = P.extensions[i]
  <1> DEFINE fqn == Append(parent, ext.name)
             k == Len(P.extensions) + 1
  <1>1. /\ SameServices(P, Q) /\ DOMAIN Q.symbols = DOMAIN P.symbols \cup {fqn}
        /\ fqn \notin DOMAIN P.symbols
        /\ Q.extensionByName = Put(P.extensionByName, fqn, k)
    BY DEF ExtensionAdded
  <1>2. PICK fd, extendee :
         /\ Q.extensionByExtendee
              = Put(P.extensionByExtendee, <<extendee, fd.number>>, k)
         /\ Q.extensions = Append(P.extensions,
              [fullName |-> fqn, field |-> fd, extendee |-> extendee])
         /\ <<extendee, fd.number>> \notin DOMAIN P.extensionByExtendee
    BY DEF ExtensionAdded
  <1> DEFINE x == [fullName |-> fqn, field |-> fd, extendee |-> extendee]
             key == <<extendee, fd.number>>
  <1>3. x.fullName = fqn /\ ExtensionKey(x) = key
    BY DEF ExtensionKey
  <1>4. /\ Q.extensionByExtendee = Put(P.extensionByExtendee, key, k)
        /\ Q.extensions = Append(P.extensions, x)
        /\ key \notin DOMAIN P.extensionByExtendee
    BY <1>2
  <1> HIDE DEF x, key
  <1>5. IsSeq(P.extensions) /\ Len(P.extensions) \in Nat
    BY ShapeLens DEF Shape
  <1>6. /\ Len(Q.extensions) = k
        /\ \A i \in 1 .. Len(P.extensions) : Q.extensions[i] = P.extensions[i]
        /\ Q.extensions[k] = x
    BY <1>4, <1>5, AppendFacts
  <1>7. /\ DOMAIN Q.extensionByName = DOMAIN P.extensionByName \cup {fqn}
        /\ Q.extensionByName[fqn] = k
        /\ \A n \in DOMAIN P.extensionByName :
              n # fqn => Q.extensionByName[n] = P.extensionByName[n]
    BY <1>1 DEF Put
  <1>8. /\ DOMAIN Q.extensionByExtendee = DOMAIN P.extensionByExtendee \cup {key}
        /\ Q.extensionByExtendee[key] = k
        /\ \A n \in DOMAIN P.extensionByExtendee :
              n # key => Q.extensionByExtendee[n] = P.extensionByExtendee[n]
    BY <1>4 DEF Put
  <1>k. k \in Nat /\ k = Len(P.extensions) + 1
    BY <1>5
  <1> HIDE DEF fqn, k
  <1>9. fqn \notin DOMAIN P.extensionByName
    BY <1>1 DEF TablesGood
  <1>10. ASSUME NEW i \in 1 .. Len(Q.extensions)
         PROVE  IndexedAs(Q, Q.extensions[i].fullName, ExtensionKey(Q.extensions[i]), i)
    <2>1. CASE i = k
      BY <1>3, <1>6, <1>7, <1>8, <2>1 DEF IndexedAs
    <2>2. CASE i \in 1 .. Len(P.extensions)
      <3> DEFINE n == P.extensions[i].fullName
                 l == ExtensionKey(P.extensions[i])
      <3>1. IndexedAs(P, n, l, i)
        BY <2>2 DEF TablesGood
      <3>2. Q.extensions[i].fullName = n /\ ExtensionKey(Q.extensions[i]) = l
        BY <1>6, <2>2
      <3> HIDE DEF n, l
      <3>3. IndexedAs(Q, n, l, i)
        BY <1>4, <1>7, <1>8, <1>9, <3>1 DEF IndexedAs
      <3> QED BY <3>2, <3>3
    <2> QED BY <1>k, <1>6, <2>1, <2>2
  <1>11. \A n \in DOMAIN Q.extensionByName :
            Q.extensionByName[n] \in 1 .. Len(Q.extensions)
    BY <1>k, <1>6, <1>7, <1>9 DEF TablesGood
  <1>12. \A n \in DOMAIN Q.extensionByExtendee :
            Q.extensionByExtendee[n] \in 1 .. Len(Q.extensions)
    BY <1>k, <1>4, <1>6, <1>8 DEF TablesGood
  <1>13. DOMAIN Q.extensionByName \subseteq DOMAIN Q.symbols
    BY <1>1, <1>7 DEF TablesGood
  <1>14. \A n \in DOMAIN Q.serviceByName : ServiceNamed(Q, n, Q.serviceByName[n])
    BY <1>1 DEF SameServices, TablesGood, ServiceNamed
  <1>15. TablesGood(Q)
    BY <1>10, <1>11, <1>12, <1>13, <1>14 DEF TablesGood
  <1> QED BY <1>k, <1>6, <1>15

LEMMA SettledTables ==
    ASSUME NEW P, Shape(P), NEW Q, NEW fm, NEW fx, Settled(P, Q, fm, fx), TablesGood(P)
    PROVE  TablesGood(Q)
  <1>1. /\ SameServices(P, Q) /\ Q.symbols = P.symbols
        /\ Q.extensionByName = P.extensionByName
        /\ Q.extensionByExtendee = P.extensionByExtendee
        /\ Len(Q.extensions) = Len(P.extensions)
    BY DEF Settled
  <1>2. ASSUME NEW i \in 1 .. Len(P.extensions)
        PROVE  /\ Q.extensions[i].fullName = P.extensions[i].fullName
               /\ ExtensionKey(Q.extensions[i]) = ExtensionKey(P.extensions[i])
    <2>1. CASE i < fx
      BY <2>1 DEF Settled
    <2>2. CASE ~ (i < fx)
      <3>1. /\ Q.extensions[i].fullName = P.extensions[i].fullName
            /\ Q.extensions[i].extendee = P.extensions[i].extendee
            /\ Q.extensions[i].field = FinalField(P, P.extensions[i].field)
        BY <2>2 DEF Settled
      <3>2. DOMAIN P.extensions[i].field = FieldFields
        BY DEF Shape, ExtensionShape
      <3> DEFINE f == P.extensions[i].field
      <3>3. FinalField(P, f).number = f.number
        BY <3>2, FinalFieldFacts DEF SameField
      <3> QED BY <3>1, <3>3 DEF ExtensionKey
    <2> QED BY <2>1, <2>2
  <1>3. ASSUME NEW i \in 1 .. Len(Q.extensions)
        PROVE  IndexedAs(Q, Q.extensions[i].fullName, ExtensionKey(Q.extensions[i]), i)
    <2> DEFINE n == P.extensions[i].fullName
               l == ExtensionKey(P.extensions[i])
    <2>1. IndexedAs(P, n, l, i)
      BY <1>1 DEF TablesGood
    <2>2. Q.extensions[i].fullName = n /\ ExtensionKey(Q.extensions[i]) = l
      BY <1>1, <1>2
    <2> HIDE DEF n, l
    <2>3. IndexedAs(Q, n, l, i)
      BY <1>1, <2>1 DEF IndexedAs
    <2> QED BY <2>2, <2>3
  <1>4. \A n \in DOMAIN Q.serviceByName : ServiceNamed(Q, n, Q.serviceByName[n])
    BY <1>1 DEF SameServices, TablesGood, ServiceNamed
  <1> QED BY <1>1, <1>3, <1>4 DEF TablesGood

LEMMA OldDefsStay ==
    ASSUME NEW P, Shape(P), NEW Q, Shape(Q), NEW R, Shape(R), OldDefs(P, Q), OldDefs(Q, R)
    PROVE  OldDefs(P, R)
  <1>1. /\ Len(P.services) \in Nat /\ Len(P.extensions) \in Nat
        /\ Len(Q.services) \in Nat /\ Len(Q.extensions) \in Nat
        /\ Len(R.services) \in Nat /\ Len(R.extensions) \in Nat
    BY ShapeLens
  <1>2. /\ Len(P.services) <= Len(R.services) /\ Len(P.extensions) <= Len(R.extensions)
        /\ \A i \in 1 .. Len(P.services) : i \in 1 .. Len(Q.services)
        /\ \A i \in 1 .. Len(P.extensions) : i \in 1 .. Len(Q.extensions)
    BY <1>1 DEF OldDefs
  <1> QED BY <1>2 DEF OldDefs

LEMMA SameOldDefs ==
    ASSUME NEW P, Shape(P), NEW Q, SameServices(P, Q), SameExtensions(P, Q)
    PROVE  OldDefs(P, Q)
  <1>1. Len(P.services) \in Nat /\ Len(P.extensions) \in Nat
    BY ShapeLens
  <1> QED BY <1>1 DEF OldDefs, SameServices, SameExtensions

\* What a step on an item does to the tables.
LEMMA DefsEffects ==
    ASSUME Shape(staged), NamesTyped(staged), Effects
    PROVE  /\ \/ DefsSame(staged, staged')
              \/ ServiceComes \/ ExtensionComes
           /\ staged'.fileByName = staged.fileByName
  <1> USE DEF SameFiles
  <1>1. CASE MessageComes
    BY <1>1 DEF MessageComes, MessageAdded, DefsSame
  <1>2. CASE EnumComes
    BY <1>2 DEF EnumComes, EnumAdded, DefsSame
  <1>3. ASSUME NEW fields, MessageGets(fields)
        PROVE  DefsSame(staged, staged') /\ staged'.fileByName = staged.fileByName
    BY <1>3 DEF MessageGets, MessagePut, DefsSame
  <1>4. CASE EnumGets
    BY <1>4 DEF EnumGets, EnumPut, DefsSame
  <1>5. CASE ServiceComes
    BY <1>5 DEF ServiceComes, ServiceAdded
  <1>6. CASE ExtensionComes
    BY <1>6 DEF ExtensionComes, ExtensionAdded
  <1>7. CASE NestedOpens
    BY <1>7 DEF NestedOpens, DefsSame, SameServices, SameExtensions
  <1>8. CASE ItemOwned
    BY <1>8 DEF ItemOwned, SymbolsIndexed, DefsSame
  <1> QED BY <1>1, <1>2, <1>3, <1>4, <1>5, <1>6, <1>7, <1>8 DEF Effects

PoolTables(P) == TablesGood(P) /\ NamesFiles(P)
StagedTables ==
    /\ TablesGood(staged) /\ OldDefs(pool, staged) /\ NamesFiles(Whole)
    /\ pass \in {"register", "link"} =>
          SameServices(pool, staged) /\ SameExtensions(pool, staged)
TablesInv ==
    /\ PoolTables(pool) /\ PoolTables(past.before)
    /\ pass # "idle" => StagedTables

LEMMA NewsFiles ==
    ASSUME NEW P, Shape(P), NEW new
    PROVE  LET W == [P EXCEPT !.files = @ \o new]
           IN  W.files = P.files \o new /\ W.fileByName = P.fileByName
  BY DEF Shape, PoolFields

LEMMA NamesFilesStay ==
    ASSUME Shape(staged), Shape(staged'), NamesFiles(Whole),
           staged'.files = staged.files, staged'.fileByName = staged.fileByName,
           news' = news
    PROVE  NamesFiles(Whole)'
  <1>1. Whole.files = staged.files \o news /\ Whole.fileByName = staged.fileByName
    BY NewsFiles DEF Whole
  <1>2. Whole'.files = staged'.files \o news' /\ Whole'.fileByName = staged'.fileByName
    BY NewsFiles DEF Whole
  <1>3. Whole'.files = Whole.files /\ Whole'.fileByName = Whole.fileByName
    BY <1>1, <1>2
  <1> QED BY <1>3 DEF NamesFiles

LEMMA TablesPrimed ==
    ASSUME TablesGood(staged'), OldDefs(pool, staged'), NamesFiles(Whole)', pool' = pool,
           pass' \in {"register", "link"} =>
              SameServices(pool, staged') /\ SameExtensions(pool, staged')
    PROVE  StagedTables'
  <1>1. TablesGood(staged)'
    BY DEF TablesGood, ServiceNamed, IndexedAs, ExtensionKey
  <1>2. OldDefs(pool, staged)'
    BY DEF OldDefs
  <1>3. pass' \in {"register", "link"} =>
              SameServices(pool, staged)' /\ SameExtensions(pool, staged)'
    BY DEF SameServices, SameExtensions
  <1> QED BY <1>1, <1>2, <1>3 DEF StagedTables

LEMMA TablesWalk ==
    ASSUME BaseInv, StagedTables, Walks
    PROVE  StagedTables'
  <1>1. CallOK /\ Shape(pool) /\ Shape(staged) /\ NamesTyped(staged)
    BY DEF BaseInv, CallInv, RoundsOK, CallOK, PoolsTyped
  <1>2. todo # <<>> /\ pass' = pass /\ news' = news /\ pool' = pool
    BY <1>1, WalkTodo
  <1>3. Effects /\ Shape(staged') /\ staged'.files = staged.files
    BY <1>1, WalkEffects, WalkShape
  <1>4. /\ \/ DefsSame(staged, staged')
           \/ ServiceComes \/ ExtensionComes
        /\ staged'.fileByName = staged.fileByName
    BY <1>1, <1>3, DefsEffects
  <1>5. TablesGood(staged) /\ OldDefs(pool, staged) /\ NamesFiles(Whole)
    BY DEF StagedTables
  <1>6. NamesFiles(Whole)'
    BY <1>1, <1>2, <1>3, <1>4, <1>5, NamesFilesStay
  <1>7. CASE DefsSame(staged, staged')
    <2>1. TablesGood(staged')
      BY <1>5, <1>7, SameTables
    <2>2. SameServices(staged, staged') /\ SameExtensions(staged, staged')
      BY <1>7 DEF DefsSame
    <2>3. OldDefs(pool, staged')
      BY <1>1, <1>3, <1>5, <2>2, SameOldDefs, OldDefsStay
    <2>4. pass' \in {"register", "link"} =>
              SameServices(pool, staged') /\ SameExtensions(pool, staged')
      BY <1>2, <2>2 DEF StagedTables, SameServices, SameExtensions
    <2> QED BY <1>2, <1>6, <2>1, <2>3, <2>4, TablesPrimed
  <1>8. CASE ServiceComes
    <2>1. /\ pass = "services"
          /\ ServiceAdded(staged, staged', Item.parent, Item.d)
      BY <1>8 DEF ServiceComes, Visiting
    <2>2. /\ TablesGood(staged') /\ Len(staged'.services) = Len(staged.services) + 1
          /\ \A i \in 1 .. Len(staged.services) : staged'.services[i] = staged.services[i]
      BY <1>1, <1>5, <2>1, ServiceAddedTables
    <2>3. SameExtensions(staged, staged')
      BY <2>1 DEF ServiceAdded
    <2>4. Len(staged.services) \in Nat /\ Len(staged.extensions) \in Nat
      BY <1>1, ShapeLens
    <2>5. OldDefs(staged, staged')
      BY <2>2, <2>3, <2>4 DEF OldDefs, SameExtensions
    <2>6. OldDefs(pool, staged')
      BY <1>1, <1>3, <1>5, <2>5, OldDefsStay
    <2> QED BY <1>2, <1>6, <2>1, <2>2, <2>6, TablesPrimed
  <1>9. CASE ExtensionComes
    <2>1. /\ pass = "services"
          /\ ExtensionAdded(staged, staged', Scope(Item.file), Item.parent, Item.d)
      BY <1>9 DEF ExtensionComes, Visiting
    <2>2. /\ TablesGood(staged') /\ Len(staged'.extensions) = Len(staged.extensions) + 1
          /\ \A i \in 1 .. Len(staged.extensions) :
                staged'.extensions[i] = staged.extensions[i]
      BY <1>1, <1>5, <2>1, ExtensionAddedTables
    <2>3. SameServices(staged, staged')
      BY <2>1 DEF ExtensionAdded
    <2>4. Len(staged.services) \in Nat /\ Len(staged.extensions) \in Nat
      BY <1>1, ShapeLens
    <2>5. OldDefs(staged, staged')
      BY <2>2, <2>3, <2>4 DEF OldDefs, SameServices
    <2>6. OldDefs(pool, staged')
      BY <1>1, <1>3, <1>5, <2>5, OldDefsStay
    <2> QED BY <1>2, <1>6, <2>1, <2>2, <2>6, TablesPrimed
  <1> QED BY <1>4, <1>7, <1>8, <1>9

LEMMA TablesStill ==
    ASSUME BaseInv, StagedTables, Still
    PROVE  StagedTables'
  <1>1. pool' = pool /\ staged' = staged /\ pass' = pass /\ news' = news
    BY DEF Still
  <1>2. Shape(staged) /\ Shape(staged')
    BY <1>1 DEF BaseInv, CallInv, CallOK
  <1>3. NamesFiles(Whole)'
    BY <1>1, <1>2, NamesFilesStay DEF StagedTables
  <1> QED BY <1>1, <1>3, TablesPrimed DEF StagedTables

LEMMA TablesBegun ==
    ASSUME BaseInv, PoolTables(pool), Begun
    PROVE  StagedTables'
  <1>1. /\ pass' = "register" /\ news' \in Seq(scenario)
        /\ staged' = WithFiles(pool, news') /\ pool' = pool
    BY DEF Begun
  <1>2. Shape(pool)
    BY DEF BaseInv, CallInv, RoundsOK
  <1>3. FilesNamed(pool, staged', news')
    BY <1>1, <1>2, WithFilesFacts
  <1>4. /\ SameServices(pool, staged') /\ SameExtensions(pool, staged') /\ Shape(staged')
        /\ staged'.symbols = pool.symbols /\ staged'.files = pool.files
        /\ staged'.fileByName =
             [n \in (DOMAIN pool.fileByName \cup {f.name : f \in Range(news')}) \ {Absent} |->
                IF n \in DOMAIN pool.fileByName THEN pool.fileByName[n]
                ELSE Len(pool.files) + (CHOOSE i \in DOMAIN news' : news'[i].name = n)]
    BY <1>3 DEF FilesNamed
  <1>5. TablesGood(staged') /\ OldDefs(pool, staged')
    BY <1>2, <1>4, SameTables, SameOldDefs DEF PoolTables, DefsSame
  <1>6. NamesFiles(Whole)'
    <2> DEFINE fs == pool.files \o news'
               b == Len(pool.files)
               fresh == news'
    <2>1. /\ IsSeq(pool.files) /\ IsSeq(news') /\ b \in Nat /\ Len(fresh) \in Nat
          /\ DOMAIN fresh = 1 .. Len(fresh)
      BY <1>1, <1>2, ShapeLens, SeqOver DEF Shape
    <2>2. /\ Len(fs) = b + Len(fresh)
          /\ \A i \in 1 .. b : fs[i] = pool.files[i]
          /\ \A i \in 1 .. Len(fresh) : fs[b + i] = fresh[i]
      BY <2>1, ConcatFacts
    <2>3. Whole'.files = fs /\ Whole'.fileByName = staged'.fileByName
      BY <1>4, NewsFiles DEF Whole
    <2> HIDE DEF fs
    <2>4. ASSUME NEW n \in DOMAIN staged'.fileByName
          PROVE  /\ staged'.fileByName[n] \in 1 .. Len(fs)
                 /\ fs[staged'.fileByName[n]].name = n
      <3>1. CASE n \in DOMAIN pool.fileByName
        <4> DEFINE i == pool.fileByName[n]
        <4>1. staged'.fileByName[n] = i
          BY <1>4, <2>4, <3>1
        <4>2. i \in 1 .. b /\ pool.files[i].name = n
          BY <3>1 DEF PoolTables, NamesFiles
        <4> HIDE DEF i, b
        <4>3. i \in 1 .. Len(fs) /\ fs[i].name = n
          BY <2>1, <2>2, <4>2
        <4> QED BY <4>1, <4>3
      <3>2. CASE n \notin DOMAIN pool.fileByName
        <4> DEFINE i == CHOOSE i \in DOMAIN fresh : fresh[i].name = n
        <4>1. staged'.fileByName[n] = b + i
          BY <1>4, <2>4, <3>2
        <4>2. \E j \in DOMAIN fresh : fresh[j].name = n
          BY <1>4, <2>4, <3>2 DEF Range
        <4>3. i \in DOMAIN fresh /\ fresh[i].name = n
          BY <4>2
        <4> HIDE DEF i, b, fresh
        <4>4. b + i \in 1 .. Len(fs) /\ fs[b + i].name = n
          BY <2>1, <2>2, <4>3
        <4> QED BY <4>1, <4>4
      <3> QED BY <3>1, <3>2
    <2> QED BY <2>3, <2>4 DEF NamesFiles
  <1> QED BY <1>1, <1>4, <1>5, <1>6, TablesPrimed

LEMMA TablesSwitch ==
    ASSUME BaseInv, StagedTables, Switches
    PROVE  StagedTables'
  <1>1. pool' = pool /\ news' = news
    BY DEF Switches, TypesRegistered, TypesLinked, FieldsFinal
  <1>2. Shape(pool) /\ Shape(staged)
    BY DEF BaseInv, CallInv, RoundsOK, CallOK
  <1>3. CASE TypesRegistered \/ TypesLinked
    <2>1. staged' = staged /\ (pass' = "link" => pass = "register")
          /\ pass' \in {"link", "services"}
      BY <1>3 DEF TypesRegistered, TypesLinked
    <2>2. NamesFiles(Whole)'
      BY <1>1, <1>2, <2>1, NamesFilesStay DEF StagedTables
    <2> QED BY <1>1, <2>1, <2>2, TablesPrimed DEF StagedTables
  <1>4. CASE FieldsFinal
    <2>1. /\ pass' = "index"
          /\ staged' = Finalized(staged, Len(pool.messages) + 1, Len(pool.extensions) + 1)
      BY <1>4 DEF FieldsFinal
    <2>2. Settled(staged, staged', Len(pool.messages) + 1, Len(pool.extensions) + 1)
      BY <1>2, <2>1, FinalizedFacts
    <2>3. TablesGood(staged')
      BY <1>2, <2>2, SettledTables DEF StagedTables
    <2>4. /\ Shape(staged') /\ staged'.files = staged.files
          /\ staged'.fileByName = staged.fileByName
          /\ SameServices(staged, staged')
          /\ Len(staged'.extensions) = Len(staged.extensions)
          /\ \A i \in 1 .. Len(staged.extensions) :
                i < Len(pool.extensions) + 1 => staged'.extensions[i] = staged.extensions[i]
      BY <2>2 DEF Settled, SameFiles
    <2>5. NamesFiles(Whole)'
      BY <1>1, <1>2, <2>4, NamesFilesStay DEF StagedTables
    <2>6. /\ Len(pool.services) \in Nat /\ Len(pool.extensions) \in Nat
          /\ Len(staged.services) \in Nat /\ Len(staged.extensions) \in Nat
          /\ OldDefs(pool, staged)
      BY <1>2, ShapeLens DEF StagedTables
    <2>7. OldDefs(pool, staged')
      <3>1. \A i \in 1 .. Len(pool.extensions) : staged'.extensions[i] = pool.extensions[i]
        BY <2>4, <2>6 DEF OldDefs
      <3> QED BY <2>4, <2>6, <3>1 DEF OldDefs, SameServices
    <2> QED BY <1>1, <2>1, <2>3, <2>5, <2>7, TablesPrimed
  <1> QED BY <1>3, <1>4 DEF Switches

LEMMA TablesWhole ==
    ASSUME BaseInv, StagedTables
    PROVE  PoolTables(Whole)
  <1>1. Shape(staged) /\ IsSeq(news)
    BY SeqOver DEF BaseInv, CallInv, CallOK
  <1>2. FilesAdded(staged, Whole, news)
    BY <1>1, WholeFacts
  <1>3. DefsSame(staged, Whole)
    BY <1>2 DEF FilesAdded, DefsSame
  <1> QED BY <1>3, SameTables DEF StagedTables, PoolTables

LEMMA TablesStep ==
    ASSUME BaseInv, TablesInv, CallSteps, RoundSteps
    PROVE  TablesInv'
  <1>1. PoolTables(pool) /\ PoolTables(past.before)
    BY DEF TablesInv
  <1>2. ASSUME Committed PROVE PoolTables(Whole)
    <2>1. pass # "idle"
      BY <1>2 DEF Committed
    <2> QED BY <2>1, TablesWhole DEF TablesInv
  <1>3. PoolTables(pool') /\ PoolTables(past'.before)
    BY <1>1, <1>2, PoolSteps
  <1>4. PoolTables(pool)' /\ PoolTables(past.before)'
    BY <1>3 DEF PoolTables, TablesGood, NamesFiles, ServiceNamed, IndexedAs, ExtensionKey
  <1>5. ASSUME pass' # "idle" PROVE StagedTables'
    <2>1. CASE pass = "idle"
      <3>1. Begun \/ Walks
        BY <1>5, <2>1, OnSteps
      <3>2. ~ Walks
        BY <2>1, WalkTodo DEF BaseInv, CallInv
      <3> QED BY <1>1, <3>1, <3>2, TablesBegun
    <2>2. CASE pass # "idle"
      <3>1. StagedTables
        BY <2>2 DEF TablesInv
      <3>2. ~ Begun
        BY <2>2 DEF Begun
      <3> QED BY <1>5, <3>1, <3>2, OnSteps, TablesStill, TablesSwitch, TablesWalk
    <2> QED BY <2>1, <2>2
  <1> QED BY <1>4, <1>5 DEF TablesInv

LEMMA TablesInit == ASSUME Init PROVE TablesInv
  <1>1. pool = EmptyPool /\ pass = "idle" /\ past = NoPast
    BY DEF Init
  <1>2. past.before = EmptyPool
    BY <1>1 DEF NoPast
  <1>3. /\ EmptyPool.serviceByName = <<>> /\ EmptyPool.extensionByName = <<>>
        /\ EmptyPool.extensionByExtendee = <<>> /\ EmptyPool.symbols = <<>>
        /\ EmptyPool.services = <<>> /\ EmptyPool.extensions = <<>>
        /\ EmptyPool.fileByName = <<>>
    BY DEF EmptyPool
  <1>4. PoolTables(EmptyPool)
    BY <1>3, EmptyFacts DEF PoolTables, TablesGood, NamesFiles
  <1> QED BY <1>1, <1>2, <1>4 DEF TablesInv

(***************************************************************************)
(* What the fields, extensions and methods refer to, and their numbers.    *)
(***************************************************************************)
FieldGood(P, fd) ==
    /\ fd.number \in Int /\ fd.enumType \in {"none", "open", "closed"}
    /\ \/ fd.kind.k = "scalar"
       \/ fd.kind.k = "message" /\ fd.kind.i \in 1 .. Len(P.messages)
       \/ fd.kind.k = "enum" /\ fd.kind.i \in 1 .. Len(P.enums)
FieldsGood(P, fields, ranges) ==
    \A j \in 1 .. Len(fields) :
        /\ FieldGood(P, fields[j])
        /\ ~ InRanges(ranges, fields[j].number)
        /\ \A l \in 1 .. j - 1 : fields[l].number # fields[j].number
MessageGood(P, m) ==
    /\ FieldsGood(P, m.fields, m.ranges)
    /\ \A r \in Range(m.ranges) : r[1] \in Int /\ r[2] \in Int
ExtensionGood(P, fd, extendee) ==
    /\ FieldGood(P, fd) /\ extendee \in 1 .. Len(P.messages)
    /\ InRanges(P.messages[extendee].ranges, fd.number)
    /\ ~ (fd.kind.k = "message" /\ P.messages[fd.kind.i].options.mapEntry)
MethodGood(P, m) ==
    m.input \in 1 .. Len(P.messages) /\ m.output \in 1 .. Len(P.messages)
ServiceGood(P, s) == \A i \in DOMAIN s.methods : MethodGood(P, s.methods[i])

\* The enum type of a field is settled.
EnumTyped(fd) == fd.kind.k = "enum" => fd.enumType \in {"open", "closed"}
MessageTyped(m) == \A j \in 1 .. Len(m.fields) : EnumTyped(m.fields[j])

\* The definitions from number n + 1 on.
MessagesGood(P, n) ==
    \A i \in n + 1 .. Len(P.messages) : MessageGood(P, P.messages[i])
ExtensionsGood(P, n) ==
    \A i \in n + 1 .. Len(P.extensions) :
        ExtensionGood(P, P.extensions[i].field, P.extensions[i].extendee)
ServicesGood(P, n) ==
    \A i \in n + 1 .. Len(P.services) : ServiceGood(P, P.services[i])
FieldsTyped(P, n, k) ==
    /\ \A i \in n + 1 .. Len(P.messages) : MessageTyped(P.messages[i])
    /\ \A i \in k + 1 .. Len(P.extensions) : EnumTyped(P.extensions[i].field)

\* Q has room for whatever P has.
Grown(P, Q) ==
    /\ Len(P.messages) \in Nat /\ Len(Q.messages) \in Nat
    /\ Len(P.enums) \in Nat /\ Len(Q.enums) \in Nat
    /\ Len(P.messages) <= Len(Q.messages) /\ Len(P.enums) <= Len(Q.enums)

LEMMA FieldGrows ==
    ASSUME NEW P, NEW Q, Grown(P, Q), NEW fd, FieldGood(P, fd)
    PROVE  FieldGood(Q, fd)
  <1>1. \A i \in 1 .. Len(P.messages) : i \in 1 .. Len(Q.messages)
    BY DEF Grown
  <1>2. \A i \in 1 .. Len(P.enums) : i \in 1 .. Len(Q.enums)
    BY DEF Grown
  <1> QED BY <1>1, <1>2 DEF FieldGood

LEMMA MessageGrows ==
    ASSUME NEW P, NEW Q, Grown(P, Q), NEW m, MessageGood(P, m)
    PROVE  MessageGood(Q, m)
  BY FieldGrows DEF MessageGood, FieldsGood

LEMMA MethodGrows ==
    ASSUME NEW P, NEW Q, Grown(P, Q), NEW s, ServiceGood(P, s)
    PROVE  ServiceGood(Q, s)
  <1>1. \A i \in 1 .. Len(P.messages) : i \in 1 .. Len(Q.messages)
    BY DEF Grown
  <1> QED BY <1>1 DEF ServiceGood, MethodGood

LEMMA ExtensionStays ==
    ASSUME NEW P, NEW Q, Grown(P, Q), NEW fd, NEW extendee, ExtensionGood(P, fd, extendee),
           \A i \in 1 .. Len(P.messages) :
              /\ Q.messages[i].ranges = P.messages[i].ranges
              /\ Q.messages[i].options = P.messages[i].options
    PROVE  ExtensionGood(Q, fd, extendee)
  <1>1. FieldGood(Q, fd)
    BY FieldGrows DEF ExtensionGood
  <1>2. extendee \in 1 .. Len(P.messages) /\ extendee \in 1 .. Len(Q.messages)
    BY DEF ExtensionGood, Grown
  <1>3. InRanges(Q.messages[extendee].ranges, fd.number)
    BY <1>2 DEF ExtensionGood
  <1>4. ASSUME fd.kind.k = "message"
        PROVE  Q.messages[fd.kind.i].options = P.messages[fd.kind.i].options
    <2> DEFINE i == fd.kind.i
    <2>1. i \in 1 .. Len(P.messages)
      BY <1>4 DEF ExtensionGood, FieldGood
    <2> HIDE DEF i
    <2>2. Q.messages[i].options = P.messages[i].options
      BY <2>1
    <2> QED BY <2>2 DEF i
  <1> QED BY <1>1, <1>2, <1>3, <1>4 DEF ExtensionGood

\* A kind that is resolved leads to an entry.
LEMMA ResolvedGood ==
    ASSUME NEW P, NEW n, TypesGood(P, n), NEW scope, NEW kind, Resolved(P, scope, kind)
    PROVE  \/ kind.k = "scalar"
           \/ kind.k = "message" /\ kind.i \in 1 .. Len(P.messages)
           \/ kind.k = "enum" /\ kind.i \in 1 .. Len(P.enums)
  <1>1. CASE kind.k = "scalar"
    BY <1>1
  <1>2. CASE kind.k # "scalar"
    <2>1. PICK name \in DOMAIN P.byName :
             P.byName[name].k = kind.k /\ P.byName[name].i = kind.i
      BY <1>2 DEF Resolved
    <2> DEFINE e == P.byName[name]
    <2>2. HasEntry(P, name, e) /\ e.k = kind.k /\ e.i = kind.i
      BY <2>1 DEF TypesGood
    <2> HIDE DEF e
    <2> QED BY <2>2 DEF HasEntry
  <1> QED BY <1>1, <1>2

LEMMA LinkedGood ==
    ASSUME NEW P, NEW n, TypesGood(P, n), NEW scope, NEW f, NEW fd,
           FieldLinked(P, scope, f, fd), fd.number \in Int
    PROVE  FieldGood(P, fd)
  <1> DEFINE kind == fd.kind
  <1>1. Resolved(P, scope, kind) /\ fd.enumType \in {"none", "open"}
    BY DEF FieldLinked
  <1> HIDE DEF kind
  <1>2. \/ kind.k = "scalar"
        \/ kind.k = "message" /\ kind.i \in 1 .. Len(P.messages)
        \/ kind.k = "enum" /\ kind.i \in 1 .. Len(P.enums)
    BY <1>1, ResolvedGood
  <1> QED BY <1>1, <1>2 DEF FieldGood, kind

LEMMA SeenGood ==
    ASSUME NEW P, NEW n, TypesGood(P, n), NEW scope, NEW i, MessageSeen(P, scope, i)
    PROVE  i \in 1 .. Len(P.messages)
  <1>1. PICK name \in DOMAIN P.byName :
           P.byName[name].k = "message" /\ P.byName[name].i = i
    BY DEF MessageSeen
  <1> DEFINE e == P.byName[name]
  <1>2. HasEntry(P, name, e) /\ e.k = "message" /\ e.i = i
    BY <1>1 DEF TypesGood
  <1> HIDE DEF e
  <1> QED BY <1>2 DEF HasEntry

StagedDefs ==
    /\ MessagesGood(staged, Len(pool.messages))
    /\ ExtensionsGood(staged, Len(pool.extensions))
    /\ ServicesGood(staged, Len(pool.services))
    /\ pass = "index" =>
          FieldsTyped(staged, Len(pool.messages), Len(pool.extensions))
PoolDefs(P) ==
    /\ MessagesGood(P, 0) /\ ExtensionsGood(P, 0) /\ ServicesGood(P, 0)
    /\ FieldsTyped(P, 0, 0)
DefsInv ==
    /\ PoolDefs(pool) /\ PoolDefs(past.before)
    /\ pass # "idle" => StagedDefs

\* The messages after a step on an item.
LEMMA MessageComesGood ==
    ASSUME Shape(staged), Shape(pool), Shape(staged'), NEW n \in Nat, MessageComes,
           MessagesGood(staged, n)
    PROVE  MessagesGood(staged', n)
  <1> DEFINE fqn == Fqn(Item)
             file == Item.file
             d == Item.d
  <1>1. MessageAdded(staged, staged', fqn, d, file)
    BY DEF MessageComes
  <1> HIDE DEF fqn, file, d
  <1>2. MessageEntered(staged, staged', fqn, d, file)
    BY <1>1, MessageAddedFacts
  <1> DEFINE k == Len(staged.messages) + 1
  <1>3. /\ Len(staged'.messages) = k /\ staged'.enums = staged.enums
        /\ \A i \in 1 .. Len(staged.messages) : staged'.messages[i] = staged.messages[i]
        /\ staged'.messages[k] = Placeholder(fqn, d)
    BY <1>2 DEF MessageEntered
  <1>4. Len(staged.messages) \in Nat /\ Len(staged.enums) \in Nat
    BY ShapeLens
  <1>k. k \in Nat /\ k = Len(staged.messages) + 1
    BY <1>4
  <1> HIDE DEF k
  <1>5. Grown(staged, staged')
    BY <1>k, <1>3, <1>4 DEF Grown
  <1>6. MessageGood(staged', Placeholder(fqn, d))
    <2>1. Placeholder(fqn, d).fields = <<>> /\ Placeholder(fqn, d).ranges = <<>>
      BY DEF Placeholder
    <2> QED BY <2>1, EmptyFacts DEF MessageGood, FieldsGood
  <1>7. ASSUME NEW i \in n + 1 .. Len(staged'.messages)
        PROVE  MessageGood(staged', staged'.messages[i])
    <2>1. CASE i = k
      BY <1>3, <1>6, <2>1
    <2>2. CASE i # k
      <3>1. i \in n + 1 .. Len(staged.messages) /\ i \in 1 .. Len(staged.messages)
        BY <1>k, <1>3, <1>4, <2>2
      <3>2. MessageGood(staged, staged.messages[i])
        BY <3>1 DEF MessagesGood
      <3> QED BY <1>3, <1>5, <3>1, <3>2, MessageGrows
    <2> QED BY <2>1, <2>2
  <1> QED BY <1>7 DEF MessagesGood

LEMMA MessagesStay ==
    ASSUME NEW P, NEW Q, Grown(P, Q), Q.messages = P.messages, NEW n, MessagesGood(P, n)
    PROVE  MessagesGood(Q, n)
  BY MessageGrows DEF MessagesGood

LEMMA MessageGetsGood ==
    ASSUME Shape(staged), Shape(staged'), Item.d \in MessageDefs, NEW fields,
           MessageGets(fields), TypesGood(staged, Total), NEW n \in Nat,
           MessagesGood(staged, n)
    PROVE  MessagesGood(staged', n)
  <1> DEFINE fqn == Fqn(Item)
             d == Item.d
             scope == Scope(Item.file)
             m == [fullName |-> fqn, fields |-> fields, oneofs |-> d.oneofs,
                   ranges |-> d.ranges, options |-> staged.messages[linked].options]
  <1>1. /\ MessagePut(staged, staged', fqn, d, fields, linked)
        /\ MessageMade(staged, scope, fqn, d, fields)
    BY DEF MessageGets
  <1>d. d \in MessageDefs
    OBVIOUS
  <1> HIDE DEF fqn, d, scope
  <1>2. /\ Len(staged'.messages) = Len(staged.messages) /\ staged'.enums = staged.enums
        /\ \A i \in 1 .. Len(staged.messages) :
              staged'.messages[i] = IF i = linked THEN m ELSE staged.messages[i]
    BY <1>1 DEF MessagePut
  <1>3. m.fields = fields /\ m.ranges = d.ranges
    OBVIOUS
  <1> HIDE DEF m
  <1>4. Len(staged.messages) \in Nat /\ Len(staged.enums) \in Nat
    BY ShapeLens
  <1>5. Grown(staged, staged')
    BY <1>2, <1>4 DEF Grown
  <1>6. MessageGood(staged', m)
    <2>1. FieldsLinked(staged, scope, d, fields)
      BY <1>1 DEF MessageMade
    <2>2. ASSUME NEW j \in 1 .. Len(fields)
          PROVE  /\ FieldGood(staged', fields[j])
                 /\ ~ InRanges(d.ranges, fields[j].number)
                 /\ \A l \in 1 .. j - 1 : fields[l].number # fields[j].number
      <3>1. /\ fields[j].number \in Int
            /\ FieldLinked(staged, scope, d.fields[j], fields[j])
            /\ ~ InRanges(d.ranges, fields[j].number)
            /\ \A l \in 1 .. j - 1 : fields[l].number # fields[j].number
        BY <2>1 DEF FieldsLinked
      <3>2. FieldGood(staged, fields[j])
        BY <3>1, LinkedGood
      <3> QED BY <1>5, <3>1, <3>2, FieldGrows
    <2>3. ASSUME NEW r \in Range(d.ranges) PROVE r[1] \in Int /\ r[2] \in Int
      <3>1. r \in Int \X Int
        BY <1>d, FilesAssumption
      <3> QED BY <3>1
    <2> QED BY <1>3, <2>2, <2>3 DEF MessageGood, FieldsGood
  <1>7. ASSUME NEW i \in n + 1 .. Len(staged'.messages)
        PROVE  MessageGood(staged', staged'.messages[i])
    <2>1. i \in 1 .. Len(staged.messages) /\ i \in n + 1 .. Len(staged.messages)
      BY <1>2, <1>4
    <2>2. CASE i = linked
      BY <1>2, <1>6, <2>1, <2>2
    <2>3. CASE i # linked
      <3>1. MessageGood(staged, staged.messages[i]) /\ staged'.messages[i] = staged.messages[i]
        BY <1>2, <2>1, <2>3 DEF MessagesGood
      <3> QED BY <1>5, <3>1, MessageGrows
    <2> QED BY <2>2, <2>3
  <1> QED BY <1>7 DEF MessagesGood

\* The definitions where the messages stay as they are.
LEMMA DefsStay ==
    ASSUME NEW P, Shape(P), NEW Q, SameTypes(P, Q)
    PROVE  /\ \A m : MessageGood(P, m) => MessageGood(Q, m)
           /\ \A fd, extendee : ExtensionGood(P, fd, extendee) => ExtensionGood(Q, fd, extendee)
           /\ \A s : ServiceGood(P, s) => ServiceGood(Q, s)
           /\ Grown(P, Q)
  <1>1. Q.messages = P.messages /\ Q.enums = P.enums
    BY DEF SameTypes
  <1>2. Grown(P, Q)
    BY <1>1, ShapeLens DEF Grown
  <1> QED BY <1>1, <1>2, MessageGrows, MethodGrows, ExtensionStays

LEMMA SameDefs ==
    ASSUME NEW P, Shape(P), NEW Q, SameTypes(P, Q), SameServices(P, Q),
           SameExtensions(P, Q), NEW n, NEW k, NEW l
    PROVE  /\ MessagesGood(P, n) => MessagesGood(Q, n)
           /\ ExtensionsGood(P, k) => ExtensionsGood(Q, k)
           /\ ServicesGood(P, l) => ServicesGood(Q, l)
           /\ FieldsTyped(P, n, k) => FieldsTyped(Q, n, k)
  <1>1. /\ Q.messages = P.messages /\ Q.services = P.services
        /\ Q.extensions = P.extensions
    BY DEF SameTypes, SameServices, SameExtensions
  <1> QED BY <1>1, DefsStay DEF MessagesGood, ExtensionsGood, ServicesGood, FieldsTyped

LEMMA ServiceComesGood ==
    ASSUME Shape(staged), IsSeq(Item.d.methods), ServiceComes, TypesGood(staged, Total), NEW n, NEW k \in Nat,
           NEW l, MessagesGood(staged, n), ServicesGood(staged, k), ExtensionsGood(staged, l)
    PROVE  /\ MessagesGood(staged', n) /\ ServicesGood(staged', k)
           /\ ExtensionsGood(staged', l)
  <1> DEFINE d == Item.d
             parent == Item.parent
             scope == Scope(Item.file)
             ms == [i \in DOMAIN d.methods |-> LinkedMethod(staged, d.methods[i])]
             s == [fullName |-> Append(parent, d.name), methods |-> ms]
  <1>1. /\ ServiceAdded(staged, staged', parent, d) /\ ServiceMade(staged, scope, parent, d)
    BY DEF ServiceComes
  <1>d. DOMAIN d.methods = 1 .. Len(d.methods)
    <2>1. IsSeq(d.methods)
      OBVIOUS
    <2> HIDE DEF d
    <2> QED BY <2>1, SeqFacts
  <1> HIDE DEF d, parent, scope
  <1>2. /\ SameTypes(staged, staged') /\ SameExtensions(staged, staged')
        /\ staged'.services = Append(staged.services, s)
    BY <1>1 DEF ServiceAdded
  <1>3. s.methods = ms
    OBVIOUS
  <1> HIDE DEF s
  <1>4. IsSeq(staged.services) /\ Len(staged.services) \in Nat
    BY ShapeLens DEF Shape
  <1>5. /\ Len(staged'.services) = Len(staged.services) + 1
        /\ \A i \in 1 .. Len(staged.services) : staged'.services[i] = staged.services[i]
        /\ staged'.services[Len(staged.services) + 1] = s
    BY <1>2, <1>4, AppendFacts
  <1>6. ServiceGood(staged, s)
    <2>1. DOMAIN ms = DOMAIN d.methods
          /\ \A i \in DOMAIN d.methods : ms[i] = LinkedMethod(staged, d.methods[i])
      OBVIOUS
    <2> HIDE DEF ms
    <2>2. ASSUME NEW i \in DOMAIN d.methods
          PROVE  MethodGood(staged, LinkedMethod(staged, d.methods[i]))
      <3> DEFINE m == LinkedMethod(staged, d.methods[i])
      <3>1. MessageSeen(staged, scope, m.input) /\ MessageSeen(staged, scope, m.output)
        BY <1>1, <1>d DEF ServiceMade
      <3> HIDE DEF m
      <3>2. m.input \in 1 .. Len(staged.messages) /\ m.output \in 1 .. Len(staged.messages)
        BY <3>1, SeenGood
      <3> QED BY <3>2 DEF MethodGood, m
    <2> QED BY <1>3, <2>1, <2>2 DEF ServiceGood
  <1>7. ASSUME NEW i \in k + 1 .. Len(staged'.services)
        PROVE  ServiceGood(staged', staged'.services[i])
    <2>1. CASE i = Len(staged.services) + 1
      BY <1>2, <1>5, <1>6, <2>1, DefsStay
    <2>2. CASE i # Len(staged.services) + 1
      <3>1. i \in k + 1 .. Len(staged.services) /\ i \in 1 .. Len(staged.services)
        BY <1>4, <1>5, <2>2
      <3>2. ServiceGood(staged, staged.services[i])
        BY <3>1 DEF ServicesGood
      <3> QED BY <1>2, <1>5, <3>1, <3>2, DefsStay
    <2> QED BY <2>1, <2>2
  <1>8. staged'.messages = staged.messages /\ staged'.extensions = staged.extensions
    BY <1>2 DEF SameTypes, SameExtensions
  <1>9. MessagesGood(staged', n) /\ ExtensionsGood(staged', l)
    BY <1>2, <1>8, DefsStay DEF MessagesGood, ExtensionsGood
  <1> QED BY <1>7, <1>9 DEF ServicesGood

LEMMA ExtensionComesGood ==
    ASSUME Shape(staged), Item.d.number \in Int, ExtensionComes, TypesGood(staged, Total),
           NEW n, NEW k, NEW l \in Nat,
           MessagesGood(staged, n), ServicesGood(staged, k), ExtensionsGood(staged, l)
    PROVE  /\ MessagesGood(staged', n) /\ ServicesGood(staged', k)
           /\ ExtensionsGood(staged', l)
  <1> DEFINE d == Item.d
             parent == Item.parent
             scope == Scope(Item.file)
             fqn == Append(parent, d.name)
  <1>1. ExtensionAdded(staged, staged', scope, parent, d)
    BY DEF ExtensionComes
  <1>d. d.number \in Int
    OBVIOUS
  <1> HIDE DEF d, parent, scope
  <1>2. SameTypes(staged, staged') /\ SameServices(staged, staged')
    BY <1>1 DEF ExtensionAdded
  <1>3. PICK fd, extendee :
         /\ staged'.extensions = Append(staged.extensions,
              [fullName |-> fqn, field |-> fd, extendee |-> extendee])
         /\ FieldLinked(staged, scope, d, fd)
         /\ MessageSeen(staged, scope, extendee)
         /\ InRanges(staged.messages[extendee].ranges, fd.number)
         /\ ~ (fd.kind.k = "message"
                 /\ staged.messages[fd.kind.i].options.mapEntry)
    BY <1>1 DEF ExtensionAdded
  <1> DEFINE x == [fullName |-> fqn, field |-> fd, extendee |-> extendee]
  <1>4. staged'.extensions = Append(staged.extensions, x)
        /\ x.field = fd /\ x.extendee = extendee
    BY <1>3
  <1> HIDE DEF x, fqn
  <1>5. IsSeq(staged.extensions) /\ Len(staged.extensions) \in Nat
    BY ShapeLens DEF Shape
  <1>6. /\ Len(staged'.extensions) = Len(staged.extensions) + 1
        /\ \A i \in 1 .. Len(staged.extensions) :
              staged'.extensions[i] = staged.extensions[i]
        /\ staged'.extensions[Len(staged.extensions) + 1] = x
    BY <1>4, <1>5, AppendFacts
  <1>7. ExtensionGood(staged, fd, extendee)
    <2>1. extendee \in 1 .. Len(staged.messages)
      BY <1>3, SeenGood
    <2>2. fd.number \in Int
      BY <1>d, <1>3 DEF FieldLinked
    <2>3. FieldGood(staged, fd)
      BY <1>3, <2>2, LinkedGood
    <2> QED BY <1>3, <2>1, <2>3 DEF ExtensionGood
  <1>8. ASSUME NEW i \in l + 1 .. Len(staged'.extensions)
        PROVE  ExtensionGood(staged', staged'.extensions[i].field, staged'.extensions[i].extendee)
    <2>1. CASE i = Len(staged.extensions) + 1
      <3>1. staged'.extensions[i].field = fd /\ staged'.extensions[i].extendee = extendee
        BY <1>4, <1>6, <2>1
      <3> QED BY <1>2, <1>7, <3>1, DefsStay
    <2>2. CASE i # Len(staged.extensions) + 1
      <3>1. i \in l + 1 .. Len(staged.extensions) /\ i \in 1 .. Len(staged.extensions)
        BY <1>5, <1>6, <2>2
      <3>2. ExtensionGood(staged, staged.extensions[i].field, staged.extensions[i].extendee)
        BY <3>1 DEF ExtensionsGood
      <3>3. staged'.extensions[i] = staged.extensions[i]
        BY <1>6, <3>1
      <3> QED BY <1>2, <3>2, <3>3, DefsStay
    <2> QED BY <2>1, <2>2
  <1>9. staged'.messages = staged.messages /\ staged'.services = staged.services
    BY <1>2 DEF SameTypes, SameServices
  <1>10. MessagesGood(staged', n) /\ ServicesGood(staged', k)
    BY <1>2, <1>9, DefsStay DEF MessagesGood, ServicesGood
  <1> QED BY <1>8, <1>10 DEF ExtensionsGood

LEMMA DefsPrimed ==
    ASSUME MessagesGood(staged', Len(pool.messages)),
           ExtensionsGood(staged', Len(pool.extensions)),
           ServicesGood(staged', Len(pool.services)), pool' = pool,
           pass' = "index" =>
              FieldsTyped(staged', Len(pool.messages), Len(pool.extensions))
    PROVE  StagedDefs'
  <1>1. MessagesGood(staged, Len(pool.messages))'
    BY DEF MessagesGood, MessageGood, FieldsGood, FieldGood
  <1>2. ExtensionsGood(staged, Len(pool.extensions))'
    BY DEF ExtensionsGood, ExtensionGood, FieldGood
  <1>3. ServicesGood(staged, Len(pool.services))'
    BY DEF ServicesGood, ServiceGood, MethodGood
  <1>4. pass' = "index" =>
              FieldsTyped(staged, Len(pool.messages), Len(pool.extensions))'
    BY DEF FieldsTyped, MessageTyped, EnumTyped
  <1> QED BY <1>1, <1>2, <1>3, <1>4 DEF StagedDefs

LEMMA NoneGood ==
    ASSUME NEW P, NEW Q, Shape(Q)
    PROVE  /\ SameExtensions(Q, P) => ExtensionsGood(P, Len(Q.extensions))
           /\ SameServices(Q, P) => ServicesGood(P, Len(Q.services))
  <1>1. Len(Q.extensions) \in Nat /\ Len(Q.services) \in Nat
    BY ShapeLens
  <1> QED BY <1>1 DEF SameExtensions, SameServices, ExtensionsGood, ServicesGood

LEMMA DefsWalk ==
    ASSUME BaseInv, StagedTypes, StagedTables, StagedDefs, Walks
    PROVE  StagedDefs'
  <1>1. CallOK /\ Shape(pool) /\ Shape(staged) /\ NamesTyped(staged)
    BY DEF BaseInv, CallInv, RoundsOK, CallOK, PoolsTyped
  <1>2. todo # <<>> /\ pass' = pass /\ news' = news /\ pool' = pool
    BY <1>1, WalkTodo
  <1>3. Effects /\ Shape(staged')
    BY <1>1, WalkEffects, WalkShape
  <1>4. /\ Len(pool.messages) \in Nat /\ Len(pool.extensions) \in Nat
        /\ Len(pool.services) \in Nat
    BY <1>1, ShapeLens
  <1>5. ItemOK(Item) /\ TypesGood(staged, Total)
    BY <1>1, <1>2, ItemFacts DEF StagedTypes
  <1>6. /\ MessagesGood(staged, Len(pool.messages))
        /\ ExtensionsGood(staged, Len(pool.extensions))
        /\ ServicesGood(staged, Len(pool.services))
        /\ pass = "index" =>
             FieldsTyped(staged, Len(pool.messages), Len(pool.extensions))
    BY DEF StagedDefs
  <1>7. ASSUME MessagesGood(staged', Len(pool.messages)), pass \in {"register", "link"}
        PROVE  StagedDefs'
    <2>1. StagedTables'
      BY TablesWalk
    <2>2. SameServices(pool, staged') /\ SameExtensions(pool, staged')
      BY <1>2, <1>7, <2>1 DEF StagedTables, SameServices, SameExtensions
    <2>3. /\ ExtensionsGood(staged', Len(pool.extensions))
          /\ ServicesGood(staged', Len(pool.services))
      BY <1>1, <2>2, NoneGood
    <2> QED BY <1>2, <1>7, <2>3, DefsPrimed
  <1>8. CASE MessageComes
    BY <1>1, <1>3, <1>4, <1>6, <1>7, <1>8, MessageComesGood DEF MessageComes, Visiting
  <1>9. CASE EnumComes
    <2>1. pass = "register"
      BY <1>9 DEF EnumComes, Visiting
    <2> DEFINE fqn == Fqn(Item)
               file == Item.file
    <2>2. EnumAdded(staged, staged', fqn, file)
      BY <1>9 DEF EnumComes
    <2> HIDE DEF fqn, file
    <2>3. EnumEntered(staged, staged', fqn, file)
      BY <1>1, <2>2, EnumAddedFacts
    <2>4. staged'.messages = staged.messages /\ Grown(staged, staged')
      BY <1>1, <2>3, ShapeLens DEF EnumEntered, Grown
    <2> QED BY <1>6, <1>7, <2>1, <2>4, MessagesStay
  <1>10. ASSUME NEW fields, MessageGets(fields) PROVE StagedDefs'
    <2>1. pass = "link" /\ Item.k = "message"
      BY <1>10 DEF MessageGets, Visiting
    <2>2. Item.d \in MessageDefs
      BY <1>5, <2>1 DEF ItemOK
    <2> QED BY <1>1, <1>3, <1>4, <1>5, <1>6, <1>7, <1>10, <2>1, <2>2, MessageGetsGood
  <1>11. CASE EnumGets
    <2>1. /\ pass = "link" /\ staged'.messages = staged.messages
          /\ Len(staged'.enums) = Len(staged.enums)
      BY <1>11 DEF EnumGets, EnumPut, Visiting
    <2>2. Grown(staged, staged')
      BY <1>1, <2>1, ShapeLens DEF Grown
    <2> QED BY <1>6, <1>7, <2>1, <2>2, MessagesStay
  <1>12. CASE ServiceComes
    <2>1. pass = "services" /\ Item.k = "service"
      BY <1>12 DEF ServiceComes, Visiting
    <2>m. IsSeq(Item.d.methods)
      BY <1>5, <2>1 DEF ItemOK
    <2>2. /\ MessagesGood(staged', Len(pool.messages))
          /\ ExtensionsGood(staged', Len(pool.extensions))
          /\ ServicesGood(staged', Len(pool.services))
      BY <1>1, <1>4, <1>5, <1>6, <1>12, <2>m, ServiceComesGood
    <2> QED BY <1>2, <2>1, <2>2, DefsPrimed
  <1>13. CASE ExtensionComes
    <2>1. pass = "services" /\ Item.k = "extension"
      BY <1>13 DEF ExtensionComes, Visiting
    <2>2. Item.d.number \in Int
      BY <1>5, <2>1 DEF ItemOK
    <2>3. /\ MessagesGood(staged', Len(pool.messages))
          /\ ExtensionsGood(staged', Len(pool.extensions))
          /\ ServicesGood(staged', Len(pool.services))
      BY <1>1, <1>4, <1>5, <1>6, <1>13, <2>2, ExtensionComesGood
    <2> QED BY <1>2, <2>1, <2>3, DefsPrimed
  <1>14. CASE NestedOpens \/ ItemOwned
    <2>1. /\ SameTypes(staged, staged') /\ SameServices(staged, staged')
          /\ SameExtensions(staged, staged')
      BY <1>14 DEF NestedOpens, ItemOwned, SymbolsIndexed, SameTypes, SameServices,
                   SameExtensions
    <2> QED BY <1>1, <1>2, <1>6, <2>1, SameDefs, DefsPrimed
  <1> QED BY <1>3, <1>8, <1>9, <1>10, <1>11, <1>12, <1>13, <1>14 DEF Effects

LEMMA FinalGood ==
    ASSUME NEW P, NEW n, TypesGood(P, n), NEW fd, DOMAIN fd = FieldFields, FieldGood(P, fd)
    PROVE  /\ FieldGood(P, FinalField(P, fd)) /\ EnumTyped(FinalField(P, fd))
           /\ FinalField(P, fd).number = fd.number
           /\ FinalField(P, fd).kind = fd.kind
  <1> DEFINE g == FinalField(P, fd)
             i == fd.kind.i
  <1>1. /\ g.number = fd.number /\ g.kind = fd.kind
        /\ g.enumType = IF fd.enumType = "none" /\ fd.kind.k = "enum"
                          THEN P.enums[i].type ELSE fd.enumType
    BY FinalFieldFacts DEF SameField
  <1> HIDE DEF g
  <1>2. CASE fd.kind.k = "enum"
    <2>1. i \in 1 .. Len(P.enums) /\ fd.enumType \in {"none", "open", "closed"}
      BY <1>2 DEF FieldGood
    <2> HIDE DEF i
    <2>2. P.enums[i].type \in {"open", "closed"}
      BY <2>1 DEF TypesGood
    <2>3. g.enumType \in {"open", "closed"}
      BY <1>1, <1>2, <2>1, <2>2
    <2>4. FieldGood(P, g)
      BY <1>1, <1>2, <2>3 DEF FieldGood
    <2> QED BY <1>1, <2>3, <2>4 DEF EnumTyped, g
  <1>3. CASE fd.kind.k # "enum"
    <2>1. g.enumType = fd.enumType
      BY <1>1, <1>3
    <2>2. FieldGood(P, g)
      BY <1>1, <2>1 DEF FieldGood
    <2> QED BY <1>1, <1>3, <2>2 DEF EnumTyped, g
  <1> QED BY <1>2, <1>3

LEMMA SettledDefs ==
    ASSUME NEW P, Shape(P), NEW Q, NEW t, TypesGood(P, t), NEW n \in Nat, NEW k \in Nat,
           Settled(P, Q, n + 1, k + 1), NEW l,
           MessagesGood(P, n), ExtensionsGood(P, k), ServicesGood(P, l)
    PROVE  /\ MessagesGood(Q, n) /\ ExtensionsGood(Q, k) /\ ServicesGood(Q, l)
           /\ FieldsTyped(Q, n, k)
  <1>1. /\ SameServices(P, Q) /\ Q.enums = P.enums
        /\ Len(Q.messages) = Len(P.messages)
        /\ Len(Q.extensions) = Len(P.extensions)
    BY DEF Settled
  <1>2. Len(P.messages) \in Nat /\ Len(P.enums) \in Nat /\ Len(P.extensions) \in Nat
    BY ShapeLens
  <1>3. Grown(P, Q)
    BY <1>1, <1>2 DEF Grown
  <1>4. ASSUME NEW i \in n + 1 .. Len(P.messages)
        PROVE  MessageGood(Q, Q.messages[i]) /\ MessageTyped(Q.messages[i])
    <2> DEFINE m == P.messages[i]
               r == Q.messages[i]
    <2>1. i \in 1 .. Len(P.messages) /\ ~ (i < n + 1)
      BY <1>2
    <2>2. r.ranges = m.ranges /\ FinalFields(P, m.fields, r.fields)
      BY <2>1 DEF Settled
    <2>3. MessageGood(P, m) /\ \A j \in 1 .. Len(m.fields) : DOMAIN m.fields[j] = FieldFields
      BY <2>1 DEF MessagesGood, Shape, MessageShape
    <2> HIDE DEF m, r
    <2>4. /\ Len(r.fields) = Len(m.fields)
          /\ \A j \in 1 .. Len(m.fields) : r.fields[j] = FinalField(P, m.fields[j])
      BY <2>2 DEF FinalFields
    <2>5. ASSUME NEW j \in 1 .. Len(m.fields)
          PROVE  /\ FieldGood(Q, r.fields[j]) /\ EnumTyped(r.fields[j])
                 /\ r.fields[j].number = m.fields[j].number
      <3> DEFINE f == m.fields[j]
      <3>1. FieldGood(P, f) /\ DOMAIN f = FieldFields
        BY <2>3 DEF MessageGood, FieldsGood
      <3>2. r.fields[j] = FinalField(P, f)
        BY <2>4
      <3> HIDE DEF f
      <3>3. /\ FieldGood(P, FinalField(P, f)) /\ EnumTyped(FinalField(P, f))
            /\ FinalField(P, f).number = f.number
        BY <3>1, FinalGood
      <3>4. FieldGood(Q, FinalField(P, f))
        BY <1>3, <3>3, FieldGrows
      <3> QED BY <3>2, <3>3, <3>4 DEF f
    <2>6. ASSUME NEW j \in 1 .. Len(m.fields)
          PROVE  /\ ~ InRanges(r.ranges, r.fields[j].number)
                 /\ \A o \in 1 .. j - 1 : r.fields[o].number # r.fields[j].number
      <3>1. /\ ~ InRanges(m.ranges, m.fields[j].number)
            /\ \A o \in 1 .. j - 1 : m.fields[o].number # m.fields[j].number
        BY <2>3 DEF MessageGood, FieldsGood
      <3>2. r.fields[j].number = m.fields[j].number
        BY <2>5
      <3>3. ASSUME NEW o \in 1 .. j - 1
            PROVE  r.fields[o].number = m.fields[o].number
        <4>1. Len(m.fields) \in Nat
          <5>1. IsSeq(m.fields)
            BY <2>1 DEF Shape, MessageShape, m
          <5> QED BY <5>1, SeqFacts
        <4>2. o \in 1 .. Len(m.fields)
          BY <4>1
        <4> QED BY <2>5, <4>2
      <3> QED BY <2>2, <3>1, <3>2, <3>3
    <2>7. MessageGood(Q, r)
      BY <2>2, <2>3, <2>4, <2>5, <2>6 DEF MessageGood, FieldsGood
    <2>8. MessageTyped(r)
      BY <2>4, <2>5 DEF MessageTyped
    <2> QED BY <2>7, <2>8 DEF r
  <1>5. \A i \in 1 .. Len(P.messages) :
              /\ Q.messages[i].ranges = P.messages[i].ranges
              /\ Q.messages[i].options = P.messages[i].options
    BY DEF Settled
  <1>6. ASSUME NEW i \in k + 1 .. Len(P.extensions)
        PROVE  /\ ExtensionGood(Q, Q.extensions[i].field, Q.extensions[i].extendee)
               /\ EnumTyped(Q.extensions[i].field)
    <2> DEFINE f == P.extensions[i].field
               e == P.extensions[i].extendee
    <2>1. i \in 1 .. Len(P.extensions) /\ ~ (i < k + 1)
      BY <1>2
    <2>2. Q.extensions[i].extendee = e /\ Q.extensions[i].field = FinalField(P, f)
      BY <2>1 DEF Settled
    <2>3. ExtensionGood(P, f, e) /\ DOMAIN f = FieldFields
      BY <2>1 DEF ExtensionsGood, Shape, ExtensionShape
    <2> HIDE DEF f, e
    <2>4. FieldGood(P, f)
      BY <2>3 DEF ExtensionGood
    <2> DEFINE g == FinalField(P, f)
    <2>5. FieldGood(P, g) /\ EnumTyped(g) /\ g.number = f.number /\ g.kind = f.kind
      BY <2>3, <2>4, FinalGood
    <2>6. Q.extensions[i].field = g
      BY <2>2
    <2> HIDE DEF g
    <2>7. ExtensionGood(P, g, e)
      BY <2>3, <2>5 DEF ExtensionGood
    <2>8. ExtensionGood(Q, g, e)
      BY <1>3, <1>5, <2>7, ExtensionStays
    <2> QED BY <2>2, <2>5, <2>6, <2>8
  <1>7. ServicesGood(Q, l)
    BY <1>1, <1>3, MethodGrows DEF ServicesGood, SameServices
  <1> QED BY <1>1, <1>4, <1>6, <1>7 DEF MessagesGood, ExtensionsGood, FieldsTyped

LEMMA DefsSwitch ==
    ASSUME BaseInv, StagedTypes, StagedDefs, Switches
    PROVE  StagedDefs'
  <1>1. pool' = pool /\ news' = news
    BY DEF Switches, TypesRegistered, TypesLinked, FieldsFinal
  <1>2. Shape(pool) /\ Shape(staged) /\ TypesGood(staged, Total)
    BY DEF BaseInv, CallInv, RoundsOK, CallOK, StagedTypes
  <1>3. CASE TypesRegistered \/ TypesLinked
    <2>1. staged' = staged /\ pass' \in {"link", "services"}
      BY <1>3 DEF TypesRegistered, TypesLinked
    <2> QED BY <1>1, <2>1, DefsPrimed DEF StagedDefs
  <1>4. CASE FieldsFinal
    <2>1. staged' = Finalized(staged, Len(pool.messages) + 1, Len(pool.extensions) + 1)
      BY <1>4 DEF FieldsFinal
    <2>2. Settled(staged, staged', Len(pool.messages) + 1, Len(pool.extensions) + 1)
      BY <1>2, <2>1, FinalizedFacts
    <2>3. Len(pool.messages) \in Nat /\ Len(pool.extensions) \in Nat
      BY <1>2, ShapeLens
    <2>4. /\ MessagesGood(staged', Len(pool.messages))
          /\ ExtensionsGood(staged', Len(pool.extensions))
          /\ ServicesGood(staged', Len(pool.services))
          /\ FieldsTyped(staged', Len(pool.messages), Len(pool.extensions))
      <3> DEFINE n == Len(pool.messages)
                 k == Len(pool.extensions)
                 l == Len(pool.services)
      <3>1. /\ n \in Nat /\ k \in Nat /\ Settled(staged, staged', n + 1, k + 1)
            /\ MessagesGood(staged, n) /\ ExtensionsGood(staged, k)
            /\ ServicesGood(staged, l)
        BY <2>2, <2>3 DEF StagedDefs
      <3> HIDE DEF n, k, l
      <3>2. /\ MessagesGood(staged', n) /\ ExtensionsGood(staged', k)
            /\ ServicesGood(staged', l) /\ FieldsTyped(staged', n, k)
        BY <1>2, <3>1, SettledDefs
      <3> QED BY <3>2 DEF n, k, l
    <2> QED BY <1>1, <2>4, DefsPrimed
  <1> QED BY <1>3, <1>4 DEF Switches

LEMMA DefsBegun ==
    ASSUME BaseInv, Begun
    PROVE  StagedDefs'
  <1>1. pass' = "register" /\ staged' = WithFiles(pool, news') /\ pool' = pool
    BY DEF Begun
  <1>2. Shape(pool)
    BY DEF BaseInv, CallInv, RoundsOK
  <1>3. FilesNamed(pool, staged', news')
    BY <1>1, <1>2, WithFilesFacts
  <1>4. /\ SameServices(pool, staged') /\ SameExtensions(pool, staged')
        /\ staged'.messages = pool.messages
    BY <1>3 DEF FilesNamed, SameTypes
  <1>5. MessagesGood(staged', Len(pool.messages))
    BY <1>2, <1>4, ShapeLens DEF MessagesGood
  <1> QED BY <1>1, <1>2, <1>4, <1>5, NoneGood, DefsPrimed

\* The old definitions and the new ones are those of the staged pool.
LEMMA DefsJoin ==
    ASSUME NEW P, Shape(P), NEW Q, Shape(Q), OldTypes(P, Q), OldDefs(P, Q), PoolDefs(P),
           MessagesGood(Q, Len(P.messages)), ExtensionsGood(Q, Len(P.extensions)),
           ServicesGood(Q, Len(P.services)),
           FieldsTyped(Q, Len(P.messages), Len(P.extensions))
    PROVE  PoolDefs(Q)
  <1>1. /\ Len(P.messages) \in Nat /\ Len(P.enums) \in Nat
        /\ Len(P.services) \in Nat /\ Len(P.extensions) \in Nat
        /\ Len(Q.messages) \in Nat /\ Len(Q.enums) \in Nat
        /\ Len(Q.services) \in Nat /\ Len(Q.extensions) \in Nat
    BY ShapeLens
  <1>2. Grown(P, Q)
    BY <1>1 DEF Grown, OldTypes
  <1>3. \A i \in 1 .. Len(P.messages) : Q.messages[i] = P.messages[i]
    BY DEF OldTypes
  <1>4. ASSUME NEW i \in 0 + 1 .. Len(Q.messages)
        PROVE  MessageGood(Q, Q.messages[i]) /\ MessageTyped(Q.messages[i])
    <2>1. CASE i \in 1 .. Len(P.messages)
      <3>1. i \in 0 + 1 .. Len(P.messages)
        BY <2>1
      <3>2. MessageGood(P, P.messages[i]) /\ MessageTyped(P.messages[i])
        BY <3>1 DEF PoolDefs, MessagesGood, FieldsTyped
      <3> QED BY <1>2, <1>3, <2>1, <3>2, MessageGrows
    <2>2. CASE i \in Len(P.messages) + 1 .. Len(Q.messages)
      BY <2>2 DEF MessagesGood, FieldsTyped
    <2> QED BY <1>1, <2>1, <2>2
  <1>5. ASSUME NEW i \in 0 + 1 .. Len(Q.extensions)
        PROVE  /\ ExtensionGood(Q, Q.extensions[i].field, Q.extensions[i].extendee)
               /\ EnumTyped(Q.extensions[i].field)
    <2>1. CASE i \in 1 .. Len(P.extensions)
      <3>1. i \in 0 + 1 .. Len(P.extensions)
        BY <2>1
      <3>2. /\ ExtensionGood(P, P.extensions[i].field, P.extensions[i].extendee)
            /\ EnumTyped(P.extensions[i].field)
        BY <3>1 DEF PoolDefs, ExtensionsGood, FieldsTyped
      <3>3. ExtensionGood(Q, P.extensions[i].field, P.extensions[i].extendee)
        BY <1>2, <1>3, <3>2, ExtensionStays
      <3>4. Q.extensions[i] = P.extensions[i]
        BY <2>1 DEF OldDefs
      <3> QED BY <3>2, <3>3, <3>4
    <2>2. CASE i \in Len(P.extensions) + 1 .. Len(Q.extensions)
      BY <2>2 DEF ExtensionsGood, FieldsTyped
    <2> QED BY <1>1, <2>1, <2>2
  <1>6. ASSUME NEW i \in 0 + 1 .. Len(Q.services)
        PROVE  ServiceGood(Q, Q.services[i])
    <2>1. CASE i \in 1 .. Len(P.services)
      <3>1. i \in 0 + 1 .. Len(P.services)
        BY <2>1
      <3>2. ServiceGood(P, P.services[i])
        BY <3>1 DEF PoolDefs, ServicesGood
      <3>3. Q.services[i] = P.services[i]
        BY <2>1 DEF OldDefs
      <3> QED BY <1>2, <3>2, <3>3, MethodGrows
    <2>2. CASE i \in Len(P.services) + 1 .. Len(Q.services)
      BY <2>2 DEF ServicesGood
    <2> QED BY <1>1, <2>1, <2>2
  <1> QED BY <1>4, <1>5, <1>6 DEF PoolDefs, MessagesGood, ExtensionsGood, ServicesGood,
                                   FieldsTyped

LEMMA DefsWhole ==
    ASSUME BaseInv, StagedTypes, StagedTables, StagedDefs, PoolDefs(pool), pass = "index"
    PROVE  PoolDefs(Whole)
  <1>1. Shape(pool) /\ Shape(staged) /\ IsSeq(news)
    BY SeqOver DEF BaseInv, CallInv, RoundsOK, CallOK
  <1>2. PoolDefs(staged)
    BY <1>1, DefsJoin DEF StagedTypes, StagedTables, StagedDefs
  <1>3. /\ SameTypes(staged, Whole) /\ SameServices(staged, Whole)
        /\ SameExtensions(staged, Whole)
    BY <1>1, WholeFacts DEF FilesAdded
  <1> QED BY <1>1, <1>2, <1>3, SameDefs DEF PoolDefs

LEMMA DefsStep ==
    ASSUME BaseInv, TypesInv, TablesInv, DefsInv, CallSteps, RoundSteps
    PROVE  DefsInv'
  <1>1. PoolDefs(pool) /\ PoolDefs(past.before)
    BY DEF DefsInv
  <1>2. ASSUME Committed PROVE PoolDefs(Whole)
    <2>1. pass = "index"
      BY <1>2 DEF Committed
    <2> QED BY <2>1, DefsWhole DEF TypesInv, TablesInv, DefsInv
  <1>3. PoolDefs(pool') /\ PoolDefs(past'.before)
    BY <1>1, <1>2, PoolSteps
  <1>4. PoolDefs(pool)' /\ PoolDefs(past.before)'
    BY <1>3 DEF PoolDefs, MessagesGood, MessageGood, FieldsGood, FieldGood, ExtensionsGood,
       ExtensionGood, ServicesGood, ServiceGood, MethodGood, FieldsTyped, MessageTyped,
       EnumTyped
  <1>5. ASSUME pass' # "idle" PROVE StagedDefs'
    <2>1. CASE pass = "idle"
      <3>1. Begun \/ Walks
        BY <1>5, <2>1, OnSteps
      <3>2. ~ Walks
        BY <2>1, WalkTodo DEF BaseInv, CallInv
      <3> QED BY <3>1, <3>2, DefsBegun
    <2>2. CASE pass # "idle"
      <3>1. StagedDefs /\ StagedTypes /\ StagedTables
        BY <2>2 DEF DefsInv, TypesInv, TablesInv
      <3>2. ~ Begun
        BY <2>2 DEF Begun
      <3>3. ASSUME Still PROVE StagedDefs'
        BY <3>1, <3>3, DefsPrimed DEF Still, StagedDefs
      <3> QED BY <1>5, <3>1, <3>2, <3>3, OnSteps, DefsSwitch, DefsWalk
    <2> QED BY <2>1, <2>2
  <1> QED BY <1>4, <1>5 DEF DefsInv

LEMMA DefsInit == ASSUME Init PROVE DefsInv
  <1>1. pool = EmptyPool /\ pass = "idle" /\ past = NoPast
    BY DEF Init
  <1>2. past.before = EmptyPool
    BY <1>1 DEF NoPast
  <1>3. /\ EmptyPool.messages = <<>> /\ EmptyPool.services = <<>>
        /\ EmptyPool.extensions = <<>>
    BY DEF EmptyPool
  <1>4. PoolDefs(EmptyPool)
    BY <1>3, EmptyFacts DEF PoolDefs, MessagesGood, ExtensionsGood, ServicesGood, FieldsTyped
  <1> QED BY <1>1, <1>2, <1>4 DEF DefsInv

(***************************************************************************)
(* What is legal in a pool.                                                *)
(***************************************************************************)
LEMMA ImageCount ==
    ASSUME NEW S, IsFiniteSet(S), NEW f, DOMAIN f = S, f = [x \in S |-> f[x]],
           \A x, y \in S : f[x] = f[y] => x = y
    PROVE  /\ IsFiniteSet({f[x] : x \in S})
           /\ Cardinality({f[x] : x \in S}) = Cardinality(S)
  <1> DEFINE T == {f[x] : x \in S}
  <1>1. f \in [S -> T]
    OBVIOUS
  <1>2. f \in Bijection(S, T)
    BY <1>1 DEF Bijection, Injection, Surjection, IsInjective
  <1>3. ExistsBijection(S, T)
    BY <1>2 DEF ExistsBijection
  <1> HIDE DEF T
  <1>4. IsFiniteSet(T) /\ Cardinality(T) = Cardinality(S)
    BY <1>3, FS_Bijection
  <1> QED BY <1>4 DEF T

\* The numbers of a list of fields, where no two have the same.
LEMMA FieldNumbers ==
    ASSUME NEW fields, IsSeq(fields),
           \A i \in 1 .. Len(fields) : \A j \in 1 .. i - 1 :
              fields[j].number # fields[i].number
    PROVE  LET A == {fd.number : fd \in Range(fields)}
           IN  IsFiniteSet(A) /\ Cardinality(A) = Len(fields)
  <1> DEFINE n == Len(fields)
             A == {fd.number : fd \in Range(fields)}
             f == [i \in 1 .. n |-> fields[i].number]
  <1>1. n \in Nat /\ Range(fields) = {fields[i] : i \in 1 .. n}
    BY SeqFacts
  <1>2. IsFiniteSet(1 .. n) /\ Cardinality(1 .. n) = n
    <2> HIDE DEF n
    <2>1. 1 \in Int /\ n \in Int
      BY <1>1
    <2>2. IsFiniteSet(1 .. n) /\ Cardinality(1 .. n) = IF 1 > n THEN 0 ELSE n - 1 + 1
      BY <2>1, FS_Interval
    <2> QED BY <1>1, <2>2
  <1>3. ASSUME NEW i \in 1 .. n, NEW j \in 1 .. n, f[i] = f[j] PROVE i = j
    <2>1. fields[i].number = fields[j].number
      BY <1>3
    <2>2. i < j => i \in 1 .. j - 1
      BY <1>1
    <2>3. j < i => j \in 1 .. i - 1
      BY <1>1
    <2>4. i < j \/ j < i \/ i = j
      BY <1>1
    <2> QED BY <2>1, <2>2, <2>3, <2>4
  <1>4. DOMAIN f = 1 .. n /\ f = [i \in 1 .. n |-> f[i]]
    OBVIOUS
  <1>5. A = {f[i] : i \in 1 .. n}
    BY <1>1
  <1> HIDE DEF f, n
  <1>6. IsFiniteSet({f[i] : i \in 1 .. n}) /\ Cardinality({f[i] : i \in 1 .. n}) = Cardinality(1 .. n)
    <2> DEFINE S == 1 .. n
    <2>1. \A i, j \in S : f[i] = f[j] => i = j
      BY <1>3
    <2>2. IsFiniteSet(S) /\ DOMAIN f = S /\ f = [i \in S |-> f[i]]
      BY <1>2, <1>4
    <2> HIDE DEF S
    <2>3. IsFiniteSet({f[i] : i \in S}) /\ Cardinality({f[i] : i \in S}) = Cardinality(S)
      BY <2>1, <2>2, ImageCount
    <2> QED BY <2>3 DEF S
  <1> QED BY <1>2, <1>5, <1>6 DEF n

\* The numbers of the extensions of a message.
LEMMA ExtensionNumbers ==
    ASSUME NEW P, Shape(P), TablesGood(P), NEW m
    PROVE  LET exts == {x \in Range(P.extensions) : x.extendee = m}
               B == {x.field.number : x \in exts}
           IN  /\ IsFiniteSet(B) /\ Cardinality(B) = Cardinality(exts)
               /\ Cardinality(exts) \in Nat
  <1> DEFINE n == Len(P.extensions)
             R == Range(P.extensions)
             exts == {x \in R : x.extendee = m}
             f == [x \in exts |-> x.field.number]
  <1>1. n \in Nat /\ R = {P.extensions[i] : i \in 1 .. n} /\ DOMAIN P.extensions = 1 .. n
    BY SeqFacts DEF Shape
  <1>2. P.extensions \in Surjection(1 .. n, R)
    <2>1. P.extensions \in [1 .. n -> R]
      <3>1. P.extensions \in Seq(Range(P.extensions))
        BY DEF Shape, IsSeq
      <3> QED BY <3>1, <1>1
    <2> QED BY <1>1, <2>1 DEF Surjection
  <1>3. IsFiniteSet(1 .. n)
    BY <1>1, FS_Interval
  <1>4. IsFiniteSet(R)
    <2> HIDE DEF R, n
    <2> QED BY <1>2, <1>3, FS_Surjection
  <1>5. IsFiniteSet(exts)
    <2>1. exts \in SUBSET R
      OBVIOUS
    <2> HIDE DEF exts, R
    <2> QED BY <1>4, <2>1, FS_Subset
  <1>6. ASSUME NEW x \in exts, NEW y \in exts, f[x] = f[y] PROVE x = y
    <2>1. PICK i \in 1 .. n : x = P.extensions[i]
      BY <1>1
    <2>2. PICK j \in 1 .. n : y = P.extensions[j]
      BY <1>1
    <2>3. x.field.number = y.field.number /\ x.extendee = y.extendee
      BY <1>6
    <2>4. ExtensionKey(x) = ExtensionKey(y)
      BY <2>3 DEF ExtensionKey
    <2>5. IndexedAs(P, x.fullName, ExtensionKey(x), i) /\ IndexedAs(P, y.fullName, ExtensionKey(y), j)
      BY <2>1, <2>2 DEF TablesGood
    <2>6. i = j
      BY <2>4, <2>5 DEF IndexedAs
    <2> QED BY <2>1, <2>2, <2>6
  <1>7. DOMAIN f = exts /\ f = [x \in exts |-> f[x]]
    OBVIOUS
  <1>8. {x.field.number : x \in exts} = {f[x] : x \in exts}
    OBVIOUS
  <1>9. Cardinality(exts) \in Nat
    <2> HIDE DEF exts
    <2> QED BY <1>5, FS_CardinalityType
  <1>10. IsFiniteSet({f[x] : x \in exts}) /\ Cardinality({f[x] : x \in exts}) = Cardinality(exts)
    <2> HIDE DEF exts, f
    <2> QED BY <1>5, <1>6, <1>7, ImageCount
  <1> QED BY <1>8, <1>9, <1>10

LEMMA NumbersGood ==
    ASSUME NEW P, Shape(P), TablesGood(P), PoolDefs(P), NEW m \in 1 .. Len(P.messages)
    PROVE  NumbersLegal(P, m)
  <1> DEFINE msg == P.messages[m]
             exts == {x \in Range(P.extensions) : x.extendee = m}
             A == {fd.number : fd \in Range(msg.fields)}
             B == {x.field.number : x \in exts}
  <1>1. Len(P.messages) \in Nat /\ Len(P.extensions) \in Nat
    BY ShapeLens
  <1>2. IsSeq(msg.fields)
    BY DEF Shape, MessageShape
  <1>3. MessageGood(P, msg)
    BY <1>1 DEF PoolDefs, MessagesGood
  <1>4. /\ \A j \in 1 .. Len(msg.fields) : ~ InRanges(msg.ranges, msg.fields[j].number)
        /\ \A i \in 1 .. Len(msg.fields) : \A j \in 1 .. i - 1 :
              msg.fields[j].number # msg.fields[i].number
        /\ \A r \in Range(msg.ranges) : r[1] \in Int /\ r[2] \in Int
    BY <1>3 DEF MessageGood, FieldsGood
  <1>5. IsFiniteSet(A) /\ Cardinality(A) = Len(msg.fields) /\ Len(msg.fields) \in Nat
    <2> HIDE DEF msg
    <2> QED BY <1>2, <1>4, FieldNumbers, SeqFacts
  <1>6. IsFiniteSet(B) /\ Cardinality(B) = Cardinality(exts) /\ Cardinality(exts) \in Nat
    BY ExtensionNumbers
  <1>7. ASSUME NEW x \in exts
        PROVE  InRanges(msg.ranges, x.field.number) /\ x.field.number \in Int
    <2>1. PICK i \in 1 .. Len(P.extensions) : x = P.extensions[i]
      <3>1. Range(P.extensions) = {P.extensions[i] : i \in 1 .. Len(P.extensions)}
        BY SeqFacts DEF Shape
      <3> QED BY <3>1
    <2>2. ExtensionGood(P, P.extensions[i].field, P.extensions[i].extendee)
      BY <1>1, <2>1 DEF PoolDefs, ExtensionsGood
    <2> QED BY <2>1, <2>2 DEF ExtensionGood, FieldGood
  <1>8. A \cap B = {}
    <2>1. \A a \in A : ~ InRanges(msg.ranges, a)
      <3>1. Range(msg.fields) = {msg.fields[i] : i \in 1 .. Len(msg.fields)}
        BY <1>2, SeqFacts
      <3> QED BY <3>1, <1>4
    <2>2. \A b \in B : InRanges(msg.ranges, b)
      BY <1>7
    <2> HIDE DEF A, B
    <2> QED BY <2>1, <2>2
  <1>9. Cardinality(A \cup B) = Len(msg.fields) + Cardinality(exts)
    <2>1. Cardinality({}) = 0
      BY FS_EmptySet
    <2> HIDE DEF A, B, exts, msg
    <2>2. Cardinality(A \cup B) = Cardinality(A) + Cardinality(B) - Cardinality(A \cap B)
      BY <1>5, <1>6, FS_Union
    <2>3. Len(msg.fields) \in Nat /\ Cardinality(exts) \in Nat
      BY <1>5, <1>6
    <2>4. Cardinality(A \cap B) = 0
      BY <1>8, <2>1
    <2>5. Cardinality(A) = Len(msg.fields) /\ Cardinality(B) = Cardinality(exts)
      BY <1>5, <1>6
    <2> DEFINE a == Len(msg.fields)
               b == Cardinality(exts)
    <2>6. a \in Nat /\ b \in Nat /\ Cardinality(A \cup B) = a + b - 0
      BY <2>2, <2>3, <2>4, <2>5
    <2> HIDE DEF a, b
    <2>7. a + b - 0 = a + b
      BY <2>6
    <2> QED BY <2>6, <2>7 DEF a, b
  <1>10. ASSUME NEW x \in exts
         PROVE  \E r \in Range(msg.ranges) : x.field.number \in r[1] .. r[2] - 1
    <2>1. PICK i \in DOMAIN msg.ranges :
             msg.ranges[i][1] <= x.field.number /\ x.field.number < msg.ranges[i][2]
      BY <1>7, <1>10 DEF InRanges
    <2>2. msg.ranges[i] \in Range(msg.ranges)
      BY DEF Range
    <2> DEFINE r == msg.ranges[i]
               k == x.field.number
    <2>3. r[1] \in Int /\ r[2] \in Int /\ k \in Int
      BY <1>4, <1>7, <1>10, <2>2
    <2>4. r[1] <= k /\ k < r[2]
      BY <2>1
    <2> HIDE DEF r, k
    <2>5. k \in r[1] .. r[2] - 1
      BY <2>3, <2>4
    <2> QED BY <2>2, <2>5 DEF r, k
  <1> QED BY <1>9, <1>10 DEF NumbersLegal

LEMMA FirstOf3 ==
    ASSUME NEW a, NEW b, NEW c, First(<<a, b, c>>) = "ok"
    PROVE  a = "ok" /\ b = "ok" /\ c = "ok"
  <1> DEFINE s == <<a, b, c>>
  <1>1. DOMAIN s = 1 .. 3
    OBVIOUS
  <1>2. s[1] = a /\ s[2] = b /\ s[3] = c
    OBVIOUS
  <1> HIDE DEF s
  <1>3. \A i \in 1 .. 3 : s[i] = "ok"
    BY <1>1, FirstOk DEF s
  <1> QED BY <1>2, <1>3

\* A field that is legal in a file of a syntax.
FieldLegal(P, fd, proto3) ==
    fd.kind.k = "enum" =>
        LET enum == P.enums[fd.kind.i]
            closed == enum.type = "closed" /\ fd.enumType = "closed"
        IN  /\ fd.card # "map" /\ proto3 => ~ closed
            /\ fd.card = "singular" /\ fd.presence = "implicit" => ~ closed
            /\ fd.card = "map" => Head(enum.values).number = 0

LEMMA EnumFieldOk ==
    ASSUME NEW P, EnumsFilled(P), NEW fd, FieldGood(P, fd), NEW proto3 \in BOOLEAN,
           EnumFieldErr(P, fd, proto3) = "ok"
    PROVE  FieldLegal(P, fd, proto3)
  <1> SUFFICES ASSUME fd.kind.k = "enum" PROVE FieldLegal(P, fd, proto3)
    BY DEF FieldLegal
  <1> DEFINE enum == P.enums[fd.kind.i]
             first == /\ fd.card = "map" /\ fd.kind.k = "enum"
                      /\ P.enums[fd.kind.i].values # <<>>
                      /\ Head(P.enums[fd.kind.i].values).number # 0
             second == proto3 /\ ClosedEnumIn(P, fd)
             third == /\ ~ proto3 /\ fd.card = "singular" /\ fd.kind.k = "enum"
                      /\ fd.presence = "implicit" /\ fd.enumType = "closed"
  <1>1. First(<<Check(first, "MapEnumFirstValueNotZero"),
                Check(second, "Proto3ClosedEnumField"),
                Check(third, "ImplicitPresenceClosedEnum")>>) = "ok"
    BY Zenon DEF EnumFieldErr
  <1>2. ~ first /\ ~ second /\ ~ third
    <2> HIDE DEF first, second, third
    <2>1. /\ Check(first, "MapEnumFirstValueNotZero") = "ok"
          /\ Check(second, "Proto3ClosedEnumField") = "ok"
          /\ Check(third, "ImplicitPresenceClosedEnum") = "ok"
      BY <1>1, FirstOf3
    <2>2. /\ "MapEnumFirstValueNotZero" # "ok" /\ "Proto3ClosedEnumField" # "ok"
          /\ "ImplicitPresenceClosedEnum" # "ok"
      OBVIOUS
    <2> QED BY <2>1, <2>2, CheckOk
  <1>3. enum.values # <<>>
    BY DEF FieldGood, EnumsFilled
  <1>4. fd.card = "map" => Head(enum.values).number = 0
    BY <1>2, <1>3
  <1>5. fd.card # "map" /\ proto3 => ~ (fd.enumType = "closed")
    BY <1>2 DEF ClosedEnumIn
  <1>6. fd.card = "singular" => fd.card # "map"
    OBVIOUS
  <1>7. fd.card = "singular" /\ fd.presence = "implicit" => ~ (fd.enumType = "closed")
    BY <1>2, <1>5, <1>6
  <1> HIDE DEF enum
  <1> QED BY <1>4, <1>5, <1>7 DEF FieldLegal, enum

MessageLegal(P, m) ==
    \A i \in 1 .. Len(P.messages[m].fields) :
        FieldLegal(P, P.messages[m].fields[i],
                   P.files[P.messageFile[m]].syntax = "proto3")
EnumFieldsLegal(P) == \A m \in 1 .. Len(P.messages) : MessageLegal(P, m)

LEMMA MessageEnumsLegal ==
    ASSUME NEW P, Shape(P), NEW m \in 1 .. Len(P.messages), MessageLegal(P, m)
    PROVE  EnumsLegal(P, m)
  <1>1. IsSeq(P.messages[m].fields)
    BY DEF Shape, MessageShape
  <1>2. Range(P.messages[m].fields)
          = {P.messages[m].fields[i] : i \in 1 .. Len(P.messages[m].fields)}
    BY <1>1, SeqFacts
  <1> QED BY <1>2 DEF MessageLegal, FieldLegal, EnumsLegal

\* The check of a call's messages.
LEMMA LinkedEnumOk ==
    ASSUME NEW P, Shape(P), EnumsFilled(P), NEW n \in Nat, n <= Len(P.messages),
           MessagesGood(P, n), LinkedEnumErr(P, n + 1) = "ok"
    PROVE  \A m \in n + 1 .. Len(P.messages) : MessageLegal(P, m)
  <1> DEFINE N == Len(P.messages) - (n + 1) + 1
             proto3(m) == P.files[P.messageFile[m]].syntax = "proto3"
             errs(m) == [i \in DOMAIN P.messages[m].fields |->
                            EnumFieldErr(P, P.messages[m].fields[i], proto3(m))]
             all == [j \in 1 .. N |-> First(errs((n + 1) + j - 1))]
  <1>1. First(all) = "ok"
    BY Zenon DEF LinkedEnumErr
  <1>2. N \in Nat /\ Len(P.messages) \in Nat
    BY ShapeLens
  <1>3. ASSUME NEW j \in 1 .. N PROVE First(errs((n + 1) + j - 1)) = "ok"
    <2>1. DOMAIN all = 1 .. N
      OBVIOUS
    <2>2. all[j] = First(errs((n + 1) + j - 1))
      OBVIOUS
    <2> HIDE DEF all, N, errs
    <2>3. all[j] = "ok"
      BY <1>1, <1>2, <2>1, FirstOk
    <2> QED BY <2>2, <2>3
  <1>4. ASSUME NEW m \in n + 1 .. Len(P.messages) PROVE MessageLegal(P, m)
    <2>1. m - n \in 1 .. N /\ (n + 1) + (m - n) - 1 = m
      BY <1>2
    <2>2. First(errs((n + 1) + (m - n) - 1)) = "ok"
      <3> HIDE DEF errs
      <3> QED BY <1>3, <2>1
    <2>3. First(errs(m)) = "ok"
      <3> HIDE DEF errs
      <3> QED BY <2>1, <2>2
    <2> DEFINE fields == P.messages[m].fields
               e == errs(m)
    <2>4. m \in 1 .. Len(P.messages)
      BY <1>2
    <2>5. IsSeq(fields) /\ Len(fields) \in Nat /\ DOMAIN fields = 1 .. Len(fields)
      <3>1. IsSeq(fields)
        BY <2>4 DEF Shape, MessageShape
      <3> QED BY <3>1, SeqFacts
    <2>6. MessageGood(P, P.messages[m])
      BY DEF MessagesGood
    <2>7. ASSUME NEW i \in 1 .. Len(fields) PROVE FieldLegal(P, fields[i], proto3(m))
      <3>1. DOMAIN e = 1 .. Len(fields) /\ e[i] = EnumFieldErr(P, fields[i], proto3(m))
        BY <2>5
      <3>2. FieldGood(P, fields[i])
        BY <2>6 DEF MessageGood, FieldsGood
      <3>3. e[i] = "ok"
        <4> HIDE DEF e
        <4>1. First(e) = "ok"
          BY <2>3 DEF e
        <4> HIDE DEF fields, proto3
        <4> QED BY <2>5, <3>1, <4>1, FirstOk
      <3>4. proto3(m) \in BOOLEAN
        OBVIOUS
      <3> HIDE DEF e, fields, proto3
      <3> QED BY <3>1, <3>2, <3>3, <3>4, EnumFieldOk
    <2> QED BY <2>7 DEF MessageLegal
  <1> QED BY <1>4

\* A message that was legal stays so in a pool with more files.
LEMMA OldMessageLegal ==
    ASSUME NEW P, Shape(P), NEW Q, Shape(Q), OldTypes(P, Q), TypesGood(P, Len(P.files)),
           \A i \in 1 .. Len(P.files) : Q.files[i] = P.files[i],
           NEW m \in 1 .. Len(P.messages), MessageGood(P, P.messages[m]), MessageLegal(P, m)
    PROVE  MessageLegal(Q, m)
  <1>1. Q.messages[m] = P.messages[m] /\ Q.messageFile[m] = P.messageFile[m]
    BY DEF OldTypes
  <1>2. Q.files[Q.messageFile[m]] = P.files[P.messageFile[m]]
    <2>1. P.messageFile[m] \in 1 .. Len(P.files)
      BY DEF TypesGood
    <2> QED BY <1>1, <2>1
  <1> DEFINE fields == P.messages[m].fields
             proto3 == P.files[P.messageFile[m]].syntax = "proto3"
  <1>3. ASSUME NEW i \in 1 .. Len(fields), FieldLegal(P, fields[i], proto3)
        PROVE  FieldLegal(Q, fields[i], proto3)
    <2> SUFFICES ASSUME fields[i].kind.k = "enum" PROVE FieldLegal(Q, fields[i], proto3)
      BY DEF FieldLegal
    <2>1. FieldGood(P, fields[i])
      BY DEF MessageGood, FieldsGood
    <2>2. Q.enums[fields[i].kind.i] = P.enums[fields[i].kind.i]
      BY <2>1 DEF FieldGood, OldTypes
    <2> HIDE DEF fields, proto3
    <2> QED BY <1>3, <2>2 DEF FieldLegal
  <1>4. \A i \in 1 .. Len(fields) : FieldLegal(P, fields[i], proto3)
    BY DEF MessageLegal
  <1>5. Q.messages[m].fields = fields
    BY <1>1
  <1>6. (Q.files[Q.messageFile[m]].syntax = "proto3") = proto3
    BY <1>2
  <1> HIDE DEF fields, proto3
  <1>7. \A i \in 1 .. Len(fields) : FieldLegal(Q, fields[i], proto3)
    BY <1>3, <1>4
  <1> QED BY <1>5, <1>6, <1>7 DEF MessageLegal

LEMMA LegalWhole ==
    ASSUME BaseInv, TypesInv, StagedDefs, Committed, PoolDefs(pool), EnumFieldsLegal(pool)
    PROVE  EnumFieldsLegal(Whole)
  <1>1. Shape(pool) /\ Shape(staged) /\ IsSeq(news) /\ pass = "index"
    BY SeqOver DEF BaseInv, CallInv, RoundsOK, CallOK, Committed
  <1>2. StagedTypes /\ PoolTypes(pool) /\ staged.files = pool.files
    BY <1>1 DEF TypesInv, BaseInv, CallInv, CallOK
  <1>3. FilesAdded(staged, Whole, news)
    BY <1>1, WholeFacts
  <1>4. /\ Shape(Whole) /\ SameTypes(staged, Whole)
        /\ DOMAIN staged.symbols = DOMAIN Whole.symbols
        /\ \A i \in 1 .. Len(pool.files) : Whole.files[i] = pool.files[i]
    BY <1>2, <1>3 DEF FilesAdded
  <1> DEFINE n == Len(pool.messages)
             W == Whole
             P == pool
  <1>5. OldTypes(P, W)
    BY <1>1, <1>2, <1>4, SameOld DEF StagedTypes
  <1>6. n \in Nat /\ n <= Len(W.messages) /\ Len(W.messages) \in Nat
    <2>1. Len(P.messages) \in Nat /\ Len(W.messages) \in Nat
      BY <1>1, <1>4, ShapeLens
    <2> HIDE DEF W, P
    <2> QED BY <1>5, <2>1 DEF OldTypes, P
  <1>7. EnumsFilled(W)
    BY <1>1, <1>2, TypesWhole DEF PoolTypes
  <1>8. MessagesGood(W, n)
    <2>1. MessagesGood(staged, n)
      BY DEF StagedDefs
    <2>2. SameServices(staged, Whole) /\ SameExtensions(staged, Whole)
      BY <1>3 DEF FilesAdded
    <2> HIDE DEF n
    <2> QED BY <1>1, <1>4, <2>1, <2>2, SameDefs
  <1>9. LinkedEnumErr(W, n + 1) = "ok"
    BY DEF Committed
  <1>10. Shape(W) /\ Shape(P) /\ TypesGood(P, Len(P.files)) /\ PoolDefs(P)
         /\ EnumFieldsLegal(P) /\ \A i \in 1 .. Len(P.files) : W.files[i] = P.files[i]
    BY <1>1, <1>2, <1>4 DEF PoolTypes
  <1>11. n = Len(P.messages)
    OBVIOUS
  <1> HIDE DEF W, n, P
  <1>12. \A m \in n + 1 .. Len(W.messages) : MessageLegal(W, m)
    BY <1>6, <1>7, <1>8, <1>9, <1>10, LinkedEnumOk
  <1>13. ASSUME NEW m \in 1 .. n PROVE MessageLegal(W, m)
    <2>1. MessageGood(P, P.messages[m])
      BY <1>10, <1>11 DEF PoolDefs, MessagesGood
    <2>2. MessageLegal(P, m)
      BY <1>10, <1>11 DEF EnumFieldsLegal
    <2> QED BY <1>5, <1>10, <1>11, <2>1, <2>2, OldMessageLegal
  <1>14. ASSUME NEW m \in 1 .. Len(W.messages) PROVE MessageLegal(W, m)
    <2>1. m \in 1 .. n \/ m \in n + 1 .. Len(W.messages)
      BY <1>6
    <2> QED BY <1>12, <1>13, <2>1
  <1> QED BY <1>14 DEF EnumFieldsLegal, W

LegalInv == EnumFieldsLegal(pool) /\ EnumFieldsLegal(past.before)

LEMMA LegalStep ==
    ASSUME BaseInv, TypesInv, DefsInv, LegalInv, CallSteps, RoundSteps
    PROVE  LegalInv'
  <1>1. EnumFieldsLegal(pool) /\ EnumFieldsLegal(past.before)
    BY DEF LegalInv
  <1>2. ASSUME Committed PROVE EnumFieldsLegal(Whole)
    <2>1. pass # "idle"
      BY <1>2 DEF Committed
    <2>2. StagedDefs /\ PoolDefs(pool)
      BY <2>1 DEF DefsInv
    <2> QED BY <1>1, <1>2, <2>2, LegalWhole
  <1>3. EnumFieldsLegal(pool') /\ EnumFieldsLegal(past'.before)
    BY <1>1, <1>2, PoolSteps
  <1> QED BY <1>3 DEF LegalInv, EnumFieldsLegal, MessageLegal, FieldLegal

LEMMA LegalInit == ASSUME Init PROVE LegalInv
  <1>1. pool = EmptyPool /\ past.before = EmptyPool
    BY DEF Init, NoPast
  <1>2. EmptyPool.messages = <<>>
    BY DEF EmptyPool
  <1>3. EnumFieldsLegal(EmptyPool)
    BY <1>2, EmptyFacts DEF EnumFieldsLegal
  <1> QED BY <1>1, <1>3 DEF LegalInv

\* No extension is of a map entry.
LEMMA ExtensionsLegal ==
    ASSUME NEW P, Shape(P), PoolDefs(P)
    PROVE  \A x \in Range(P.extensions) :
              x.field.kind.k = "message" => ~ P.messages[x.field.kind.i].options.mapEntry
  <1> SUFFICES ASSUME NEW i \in 1 .. Len(P.extensions)
               PROVE  ~ (P.extensions[i].field.kind.k = "message"
                           /\ P.messages[P.extensions[i].field.kind.i].options.mapEntry)
    <2>1. Range(P.extensions) = {P.extensions[i] : i \in 1 .. Len(P.extensions)}
      <3>1. IsSeq(P.extensions)
        BY DEF Shape
      <3> DEFINE xs == P.extensions
      <3> HIDE DEF xs
      <3>2. IsSeq(xs)
        BY <3>1 DEF xs
      <3> QED BY <3>2, SeqFacts DEF xs
    <2> QED BY <2>1
  <1>1. i \in 0 + 1 .. Len(P.extensions)
    OBVIOUS
  <1>2. ExtensionGood(P, P.extensions[i].field, P.extensions[i].extendee)
    BY <1>1 DEF PoolDefs, ExtensionsGood
  <1> QED BY <1>2 DEF ExtensionGood

\* For any files, what the passes check one by one holds of the whole pool:
\* numbers within a message and its extensions, closed enums, map entries.
THEOREM PoolStaysLegal == Spec => []PoolLegal
  <1> DEFINE Inv == BaseInv /\ TypesInv /\ TablesInv /\ DefsInv /\ LegalInv
  <1>1. Init => Inv
    BY BaseInit, TypesInit, TablesInit, DefsInit, LegalInit
  <1>2. Inv /\ [Next]_vars => Inv'
    BY NextSteps, BaseStep, TypesStep, TablesStep, DefsStep, LegalStep DEF BaseInv
  <1>3. Inv => PoolLegal
    <2> SUFFICES ASSUME Inv PROVE PoolLegal
      OBVIOUS
    <2>1. /\ Shape(pool) /\ TablesGood(pool) /\ PoolDefs(pool) /\ EnumFieldsLegal(pool)
      BY DEF BaseInv, CallInv, RoundsOK, TablesInv, PoolTables, DefsInv, LegalInv
    <2>2. DOMAIN pool.messages = 1 .. Len(pool.messages)
      BY <2>1, ShapeLens
    <2>3. ASSUME NEW m \in 1 .. Len(pool.messages)
          PROVE  NumbersLegal(pool, m) /\ EnumsLegal(pool, m)
      BY <2>1, NumbersGood, MessageEnumsLegal DEF EnumFieldsLegal
    <2>4. \A x \in Range(pool.extensions) :
             x.field.kind.k = "message" => ~ pool.messages[x.field.kind.i].options.mapEntry
      BY <2>1, ExtensionsLegal
    <2> QED BY <2>2, <2>3, <2>4 DEF PoolLegal
  <1> QED BY <1>1, <1>2, <1>3, PTL DEF Spec

(***************************************************************************)
(* The owners of symbols.  A walk visits the least set of items that has   *)
(* its roots and what they enclose; so all walks over types visit the same *)
(* items, and what the last one indexes is what the others registered.     *)
(***************************************************************************)
Closed(S, roots) == roots \subseteq S /\ \A x \in S : Range(Expand(x)) \subseteq S
LeastOf(S, roots) == Closed(S, roots) /\ \A R : Closed(R, roots) => S \subseteq R
\* A walk that visited V and has the items in `ahead` before it.
Walked(V, roots, ahead) ==
    /\ roots \subseteq V \cup ahead
    /\ \A x \in V : Range(Expand(x)) \subseteq V \cup ahead
    /\ \A S : Closed(S, roots) => V \cup ahead \subseteq S

LEMMA WalkedStart ==
    ASSUME NEW roots PROVE Walked({}, roots, roots)
  BY DEF Walked, Closed

LEMMA WalkedOn ==
    ASSUME NEW V, NEW roots, NEW ahead, NEW x, NEW rest, ahead = {x} \cup rest,
           Walked(V, roots, ahead)
    PROVE  Walked(V \cup {x}, roots, Range(Expand(x)) \cup rest)
  <1> DEFINE W == V \cup {x}
             A == Range(Expand(x)) \cup rest
  <1>1. roots \subseteq W \cup A
    BY DEF Walked
  <1>2. \A y \in W : Range(Expand(y)) \subseteq W \cup A
    BY DEF Walked
  <1>3. ASSUME NEW S, Closed(S, roots) PROVE W \cup A \subseteq S
    <2>1. V \cup ahead \subseteq S
      BY <1>3 DEF Walked
    <2>2. x \in S
      BY <2>1
    <2>3. Range(Expand(x)) \subseteq S
      BY <1>3, <2>2 DEF Closed
    <2> QED BY <2>1, <2>2, <2>3
  <1> HIDE DEF W, A
  <1>4. Walked(W, roots, A)
    BY <1>1, <1>2, <1>3 DEF Walked
  <1> QED BY <1>4 DEF W, A

LEMMA WalkedEnd ==
    ASSUME NEW V, NEW roots, Walked(V, roots, {})
    PROVE  LeastOf(V, roots)
  BY DEF Walked, LeastOf, Closed

LEMMA LeastSame ==
    ASSUME NEW V, NEW W, NEW roots, LeastOf(V, roots), LeastOf(W, roots)
    PROVE  V = W
  BY DEF LeastOf

Passes == {"register", "link", "services", "index"}
PassesBefore(p) ==
    CASE p = "link"     -> {"register"}
      [] p = "services" -> {"register", "link"}
      [] p = "index"    -> {"register", "link", "services"}
      [] OTHER          -> {}
Roots(p) ==
    CASE p \in {"register", "link"} -> Range(AllTypes(news))
      [] p = "services"             -> Range(AllServices(news))
      [] OTHER                      -> Range(AllDefinitions(news))

\* The names that the visit of an item registers.
MembersOf(x) ==
    IF x.k = "message"
      THEN OneofSymbols(Fqn(x), x.d) \cup Inside(Fqn(x), x.d.fields)
      ELSE Inside(x.parent, x.d.values)
MadeBy(x) ==
    CASE x.k = "service"   -> Inside(Fqn(x), x.d.methods) \cup {Fqn(x)}
      [] x.k = "extension" -> {Fqn(x)}
      [] OTHER             -> {}
Gains(p, x) ==
    CASE p = "register" -> {Fqn(x)}
      [] p = "link"     -> MembersOf(x)
      [] p = "services" -> MadeBy(x)
      [] OTHER          -> {}
\* Of the items V that each pass visited, one registered s, from file f.
Claimed(V, s, f) == \E p \in Passes : \E x \in V[p] : s \in Gains(p, x) /\ x.file = f

\* Q is P with the names of the items V, each from one file.
Owned(P, Q, V) ==
    /\ \A s : s \in DOMAIN Q.symbols
                <=> s \in DOMAIN P.symbols \/ \E f : Claimed(V, s, f)
    /\ \A s, f : Claimed(V, s, f) => s \notin DOMAIN P.symbols
    /\ \A s, f, g : Claimed(V, s, f) /\ Claimed(V, s, g) => f = g
\* Q knows the files of the symbols that P knows and of those of the items W.
Filed(P, Q, V, W) ==
    /\ \A s : s \in DOMAIN Q.symbolFile
                <=> s \in DOMAIN P.symbolFile \/ \E x \in W : s \in SymbolsOf(x)
    /\ \A s \in DOMAIN P.symbolFile : Q.symbolFile[s] = P.symbolFile[s]
    /\ \A s \in DOMAIN Q.symbolFile :
          s \notin DOMAIN P.symbolFile => Claimed(V, s, Q.symbolFile[s])

\* In pass p item x is visited too, and R is Q with the names it registers.
OneMore(V, W, p, x) ==
    \A q \in Passes : W[q] = IF q = p THEN V[p] \cup {x} ELSE V[q]
Gained(Q, R, p, x) ==
    /\ DOMAIN R.symbols = DOMAIN Q.symbols \cup Gains(p, x)
    /\ Gains(p, x) \cap DOMAIN Q.symbols = {}

LEMMA OwnedOn ==
    ASSUME NEW P, NEW Q, NEW R, NEW V, NEW W, Owned(P, Q, V), NEW p \in Passes, NEW x,
           OneMore(V, W, p, x), Gained(Q, R, p, x)
    PROVE  /\ Owned(P, R, W)
           /\ \A s, f : Claimed(W, s, f)
                <=> (Claimed(V, s, f) \/ (s \in Gains(p, x) /\ f = x.file))
  <1>2. ASSUME NEW s, NEW f
        PROVE  Claimed(W, s, f)
                 <=> (Claimed(V, s, f) \/ (s \in Gains(p, x) /\ f = x.file))
    BY Zenon DEF Claimed, OneMore
  <1>3. \A s : s \in Gains(p, x) => s \notin DOMAIN Q.symbols
    BY DEF Gained
  <1>4. \A s : s \in DOMAIN P.symbols => s \in DOMAIN Q.symbols
    BY DEF Owned
  <1>5. \A s, f : Claimed(V, s, f) => s \in DOMAIN Q.symbols
    BY DEF Owned
  <1>6. \A s : s \in DOMAIN R.symbols
                <=> s \in DOMAIN P.symbols \/ \E f : Claimed(W, s, f)
    BY <1>2 DEF Owned, Gained
  <1>7. \A s, f : Claimed(W, s, f) => s \notin DOMAIN P.symbols
    BY <1>2, <1>3, <1>4 DEF Owned
  <1>8. \A s, f, g : Claimed(W, s, f) /\ Claimed(W, s, g) => f = g
    BY <1>2, <1>3, <1>5 DEF Owned
  <1> QED BY <1>2, <1>6, <1>7, <1>8 DEF Owned

\* A step on an item registers the names of that item.
LEMMA EffectGains ==
    ASSUME CallOK, todo # <<>>, Effects
    PROVE  /\ Gained(staged, staged', pass, Item)
           /\ pass # "index" => staged'.symbolFile = staged.symbolFile
  <1>1. CASE MessageComes
    BY <1>1 DEF MessageComes, MessageAdded, Visiting, Gains, Gained, SameFiles
  <1>2. CASE EnumComes
    BY <1>2 DEF EnumComes, EnumAdded, Visiting, Gains, Gained, SameFiles
  <1>3. ASSUME NEW fields, MessageGets(fields)
        PROVE  /\ Gained(staged, staged', pass, Item)
               /\ pass # "index" => staged'.symbolFile = staged.symbolFile
    BY <1>3 DEF MessageGets, MessagePut, MessageMade, Visiting, Gains, Gained, MembersOf, SameFiles
  <1>4. CASE EnumGets
    BY <1>4 DEF EnumGets, EnumPut, Visiting, Gains, Gained, MembersOf, SameFiles
  <1>5. CASE ServiceComes
    <2>1. Fqn(Item) = Append(Item.parent, Item.d.name)
      BY DEF Fqn
    <2> QED BY <1>5, <2>1 DEF ServiceComes, ServiceAdded, ServiceMade, Visiting, Gains, Gained,
               MadeBy, SameFiles
  <1>6. CASE ExtensionComes
    <2>1. Fqn(Item) = Append(Item.parent, Item.d.name)
      BY DEF Fqn
    <2> QED BY <1>6, <2>1 DEF ExtensionComes, ExtensionAdded, Visiting, Gains, Gained, MadeBy,
               SameFiles
  <1>7. CASE NestedOpens
    BY <1>7 DEF NestedOpens, Visiting, Gains, Gained, MadeBy
  <1>8. CASE ItemOwned
    BY <1>8 DEF ItemOwned, SymbolsIndexed, Gains, Gained
  <1> QED BY <1>1, <1>2, <1>3, <1>4, <1>5, <1>6, <1>7, <1>8 DEF Effects

\* The extensions that a message encloses, as items.
ExtensionsIn(x) ==
    {ItemOf("extension", d, Fqn(x), x.file, ItemFeats(x)) : d \in Range(x.d.extensions)}
\* The items of the walk over services, from those of the walk over types.
NestedAll(T) ==
    Decls(news) \cup {AsNested(x) : x \in Messages(T)}
      \cup UNION {ExtensionsIn(x) : x \in Messages(T)}

LEMMA MessageExpands ==
    ASSUME NEW x, ItemOK(x), x.k = "message"
    PROVE  /\ \A d \in Range(x.d.nested) :
                ItemOf("message", d, Fqn(x), x.file, ItemFeats(x)) \in Range(Expand(x))
           /\ \A y \in Range(Expand(x)) :
                y.k = "message" => /\ AsNested(y) \in Range(Expand(AsNested(x)))
                                   /\ y.d \in Range(x.d.nested)
           /\ Range(Expand(AsNested(x)))
                = ExtensionsIn(x) \cup
                  {AsNested(ItemOf("message", d, Fqn(x), x.file, ItemFeats(x))) :
                      d \in Range(x.d.nested)}
           /\ IsSeq(x.d.extensions) /\ x.d \in MessageDefs
  <1> DEFINE P == Fqn(x)
             F == ItemFeats(x)
             A == Items("message", x.d.nested, P, x.file, F)
             B == Items("enum", x.d.enums, P, x.file, F)
             z == AsNested(x)
             C == Items("extension", x.d.extensions, P, x.file, F)
             D == Items("nested", x.d.nested, P, x.file, F)
  <1>1. x.d \in MessageDefs
    BY DEF ItemOK
  <1>2. IsSeq(x.d.enums) /\ IsSeq(x.d.extensions) /\ x.d.nested \in Seq(MessageDefs)
    BY <1>1, FilesAssumption DEF Encloses
  <1>3. IsSeq(x.d.nested)
    BY <1>2, SeqOver
  <1>4. Expand(x) = A \o B
    BY DEF Expand, NestedTypes
  <1>5. /\ z.k = "nested" /\ z.d = x.d /\ z.file = x.file /\ Fqn(z) = P
        /\ ItemFeats(z) = F
    BY DEF AsNested, ItemOf, Fqn, ItemFeats
  <1>6. Expand(z) = C \o D
    BY <1>5 DEF Expand
  <1> HIDE DEF P, F, z
  <1>7. /\ IsSeq(A) /\ Range(A) = {ItemOf("message", d, P, x.file, F) : d \in Range(x.d.nested)}
        /\ IsSeq(B) /\ Range(B) = {ItemOf("enum", d, P, x.file, F) : d \in Range(x.d.enums)}
        /\ IsSeq(C) /\ Range(C) = {ItemOf("extension", d, P, x.file, F) : d \in Range(x.d.extensions)}
        /\ IsSeq(D) /\ Range(D) = {ItemOf("nested", d, P, x.file, F) : d \in Range(x.d.nested)}
    <2>1. IsSeq(A) /\ Range(A) = {ItemOf("message", d, P, x.file, F) : d \in Range(x.d.nested)}
      BY <1>2, <1>3, ItemsFacts
    <2>2. IsSeq(B) /\ Range(B) = {ItemOf("enum", d, P, x.file, F) : d \in Range(x.d.enums)}
      BY <1>2, <1>3, ItemsFacts
    <2>3. IsSeq(C) /\ Range(C) = {ItemOf("extension", d, P, x.file, F) : d \in Range(x.d.extensions)}
      BY <1>2, <1>3, ItemsFacts
    <2>4. IsSeq(D) /\ Range(D) = {ItemOf("nested", d, P, x.file, F) : d \in Range(x.d.nested)}
      BY <1>3, ItemsFacts
    <2> QED BY <2>1, <2>2, <2>3, <2>4
  <1> HIDE DEF A, B, C, D
  <1>8. Range(Expand(x)) = Range(A) \cup Range(B) /\ Range(Expand(z)) = Range(C) \cup Range(D)
    BY <1>4, <1>6, <1>7, ConcatFacts
  <1>9. \A d : AsNested(ItemOf("message", d, P, x.file, F)) = ItemOf("nested", d, P, x.file, F)
    BY DEF AsNested, ItemOf
  <1>10. \A d \in Range(x.d.nested) : ItemOf("message", d, P, x.file, F) \in Range(Expand(x))
    BY <1>7, <1>8
  <1>11. ASSUME NEW y \in Range(Expand(x)), y.k = "message"
         PROVE  AsNested(y) \in Range(Expand(z)) /\ y.d \in Range(x.d.nested)
    <2>1. y \notin Range(B)
      BY <1>7, <1>11 DEF ItemOf
    <2>2. PICK d \in Range(x.d.nested) : y = ItemOf("message", d, P, x.file, F)
      BY <1>7, <1>8, <2>1
    <2>3. AsNested(y) = ItemOf("nested", d, P, x.file, F) /\ y.d = d
      BY <1>9, <2>2 DEF ItemOf
    <2> QED BY <1>7, <1>8, <2>3
  <1>12. Range(D) = {AsNested(ItemOf("message", d, P, x.file, F)) : d \in Range(x.d.nested)}
    BY <1>7, <1>9
  <1>13. Range(C) = ExtensionsIn(x)
    BY <1>7 DEF ExtensionsIn, P, F
  <1> QED BY <1>1, <1>2, <1>8, <1>10, <1>11, <1>12, <1>13 DEF P, F, z

LEMMA NestedClosed ==
    ASSUME CallInv, NEW T, LeastOf(T, Range(AllTypes(news))),
           \A x \in T : ItemOK(x)
    PROVE  Closed(NestedAll(T), Range(AllServices(news)))
  <1> DEFINE R == Range(AllTypes(news))
             N == NestedAll(T)
  <1>1. scenario \in Scenarios /\ news \in Seq(scenario) /\ Len(pool.files) \in Nat
    BY ShapeLens DEF CallInv, RoundsOK, CallOK
  <1>2. /\ Range(AllServices(news)) = Decls(news) \cup {AsNested(x) : x \in Messages(R)}
        /\ \A x \in Decls(news) : ItemOK(x) /\ x.k \in {"service", "extension"}
    BY <1>1, RootFacts
  <1>3. R \subseteq T /\ \A x \in T : Range(Expand(x)) \subseteq T
    BY DEF LeastOf, Closed
  <1>4. Range(AllServices(news)) \subseteq N
    BY <1>2, <1>3 DEF NestedAll, Messages
  <1>5. Range(<<>>) = {}
    BY EmptyFacts
  <1>6. \A y : y.k \notin {"message", "nested"} => Range(Expand(y)) = {}
    BY <1>5 DEF Expand
  <1>7. ASSUME NEW y \in N PROVE Range(Expand(y)) \subseteq N
    <2>1. CASE y \in Decls(news)
      BY <1>2, <1>6, <2>1
    <2>2. ASSUME NEW x \in Messages(T), y = AsNested(x) PROVE Range(Expand(y)) \subseteq N
      <3>1. x \in T /\ x.k = "message" /\ ItemOK(x)
        BY DEF Messages
      <3> DEFINE child(d) == ItemOf("message", d, Fqn(x), x.file, ItemFeats(x))
      <3>2. /\ \A d \in Range(x.d.nested) : child(d) \in Range(Expand(x))
            /\ Range(Expand(y)) = ExtensionsIn(x) \cup {AsNested(child(d)) : d \in Range(x.d.nested)}
        BY <2>2, <3>1, MessageExpands
      <3>3. \A d \in Range(x.d.nested) : child(d) \in T /\ child(d).k = "message"
        <4>1. \A d : child(d).k = "message"
          BY DEF ItemOf
        <4> HIDE DEF child
        <4> QED BY <1>3, <3>1, <3>2, <4>1
      <3> HIDE DEF child
      <3>4. \A d \in Range(x.d.nested) : AsNested(child(d)) \in N
        BY <3>3 DEF NestedAll, Messages
      <3>5. ExtensionsIn(x) \subseteq N
        BY DEF NestedAll
      <3> HIDE DEF N
      <3> QED BY <3>2, <3>4, <3>5
    <2>3. ASSUME NEW x \in Messages(T), y \in ExtensionsIn(x) PROVE Range(Expand(y)) \subseteq N
      <3>1. y.k = "extension"
        BY <2>3 DEF ExtensionsIn, ItemOf
      <3> QED BY <1>6, <3>1
    <2> QED BY <2>1, <2>2, <2>3 DEF NestedAll
  <1> QED BY <1>4, <1>7 DEF Closed

LEMMA NestedVisited ==
    ASSUME CallInv, NEW T, LeastOf(T, Range(AllTypes(news))), \A x \in T : ItemOK(x),
           NEW V, LeastOf(V, Range(AllServices(news)))
    PROVE  V = NestedAll(T)
  <1> DEFINE R == Range(AllTypes(news))
             S == {x \in T : x.k = "message" => AsNested(x) \in V}
  <1>1. scenario \in Scenarios /\ news \in Seq(scenario) /\ Len(pool.files) \in Nat
    BY ShapeLens DEF CallInv, RoundsOK, CallOK
  <1>2. Range(AllServices(news)) = Decls(news) \cup {AsNested(x) : x \in Messages(R)}
    BY <1>1, RootFacts
  <1>3. R \subseteq T /\ \A x \in T : Range(Expand(x)) \subseteq T
    BY DEF LeastOf, Closed
  <1>4. Decls(news) \subseteq V /\ (\A x \in Messages(R) : AsNested(x) \in V)
        /\ \A y \in V : Range(Expand(y)) \subseteq V
    BY <1>2 DEF LeastOf, Closed
  <1>5. R \subseteq S
    BY <1>3, <1>4 DEF Messages
  <1>6. ASSUME NEW x \in S, NEW y \in Range(Expand(x)) PROVE y \in S
    <2>1. x \in T /\ y \in T /\ ItemOK(x) /\ ItemOK(y)
      BY <1>3, <1>6
    <2>2. ASSUME y.k = "message" PROVE AsNested(y) \in V
      <3>1. x.k = "message"
        <4>1. x.k = "nested" => y.k # "message"
          BY <1>6, <2>1, ExpandFacts
        <4>2. x.k \notin {"message", "nested"} => Expand(x) = <<>>
          BY <2>1, ExpandFacts
        <4>3. Range(<<>>) = {}
          BY EmptyFacts
        <4> QED BY <1>6, <2>2, <4>1, <4>2, <4>3
      <3>2. AsNested(y) \in Range(Expand(AsNested(x)))
        BY <1>6, <2>1, <2>2, <3>1, MessageExpands
      <3>3. AsNested(x) \in V
        BY <3>1
      <3> QED BY <1>4, <3>2, <3>3
    <2> QED BY <2>1, <2>2
  <1>7. T \subseteq S
    <2>1. Closed(S, R)
      <3> HIDE DEF S
      <3> QED BY <1>5, <1>6 DEF Closed
    <2> HIDE DEF S
    <2> QED BY <2>1 DEF LeastOf
  <1>8. ASSUME NEW x \in Messages(T) PROVE AsNested(x) \in V /\ ExtensionsIn(x) \subseteq V
    <2>1. x \in T /\ x.k = "message" /\ ItemOK(x)
      BY DEF Messages
    <2>2. AsNested(x) \in V
      BY <1>7, <2>1
    <2>3. ExtensionsIn(x) \subseteq Range(Expand(AsNested(x)))
      BY <2>1, MessageExpands
    <2> QED BY <1>4, <2>2, <2>3
  <1>9. NestedAll(T) \subseteq V
    BY <1>4, <1>8 DEF NestedAll
  <1>10. V \subseteq NestedAll(T)
    BY NestedClosed DEF LeastOf
  <1> QED BY <1>9, <1>10

LEMMA SymbolParts ==
    ASSUME NEW x
    PROVE  /\ x.k = "message" => SymbolsOf(x) = {Fqn(x)} \cup MembersOf(x)
                                    \cup Inside(Fqn(x), x.d.extensions)
           /\ x.k = "enum" => SymbolsOf(x) = {Fqn(x)} \cup MembersOf(x)
           /\ x.k \in {"service", "extension"} => SymbolsOf(x) = MadeBy(x)
  BY DEF SymbolsOf, MembersOf, OneofSymbols, MadeBy

LEMMA ExtensionsMade ==
    ASSUME NEW x, NEW s, NEW f
    PROVE  (\E y \in ExtensionsIn(x) : s \in MadeBy(y) /\ y.file = f)
              <=> (s \in Inside(Fqn(x), x.d.extensions) /\ x.file = f)
  <1> DEFINE e(d) == ItemOf("extension", d, Fqn(x), x.file, ItemFeats(x))
  <1>1. \A d : e(d).k = "extension" /\ e(d).file = x.file /\ Fqn(e(d)) = Append(Fqn(x), d.name)
    <2>1. \A d : /\ e(d).k = "extension" /\ e(d).file = x.file
                 /\ e(d).parent = Fqn(x) /\ e(d).d = d
      BY DEF ItemOf
    <2>2. \A d : Fqn(e(d)) = Append(e(d).parent, e(d).d.name)
      BY DEF Fqn
    <2> HIDE DEF e
    <2>3. ASSUME NEW d PROVE Fqn(e(d)) = Append(Fqn(x), d.name)
      BY <2>1, <2>2, Zenon
    <2> QED BY <2>1, <2>3
  <1>2. ExtensionsIn(x) = {e(d) : d \in Range(x.d.extensions)}
    BY DEF ExtensionsIn
  <1> HIDE DEF e
  <1>3. \A d : MadeBy(e(d)) = {Append(Fqn(x), d.name)}
    BY <1>1 DEF MadeBy
  <1>4. Inside(Fqn(x), x.d.extensions) = {Append(Fqn(x), d.name) : d \in Range(x.d.extensions)}
    BY DEF Inside, Range
  <1>5. (\E y \in ExtensionsIn(x) : s \in MadeBy(y) /\ y.file = f)
           <=> \E d \in Range(x.d.extensions) : s \in MadeBy(e(d)) /\ e(d).file = f
    BY <1>2
  <1>6. \A d : s \in MadeBy(e(d)) /\ e(d).file = f
                 <=> s = Append(Fqn(x), d.name) /\ x.file = f
    BY <1>1, <1>3
  <1>7. s \in Inside(Fqn(x), x.d.extensions)
           <=> \E d \in Range(x.d.extensions) : s = Append(Fqn(x), d.name)
    BY <1>4
  <1> QED BY <1>5, <1>6, <1>7

\* What the walks registered is what the last walk indexes.
LEMMA ClaimsAgree ==
    ASSUME NEW T, NEW V, V["register"] = T, V["link"] = T,
           V["services"] = NestedAll(T),
           \A x \in T : x.k \in {"message", "enum"},
           \A x \in Decls(news) : x.k \in {"service", "extension"}
    PROVE  \A s, f : Claimed(V, s, f)
              <=> \E x \in T \cup Decls(news) : s \in SymbolsOf(x) /\ x.file = f
  <1> SUFFICES ASSUME NEW s, NEW f
               PROVE  Claimed(V, s, f)
                        <=> \E x \in T \cup Decls(news) : s \in SymbolsOf(x) /\ x.file = f
    OBVIOUS
  <1> DEFINE A == \E x \in T : s = Fqn(x) /\ x.file = f
             B == \E x \in T : s \in MembersOf(x) /\ x.file = f
             C == \E x \in NestedAll(T) : s \in MadeBy(x) /\ x.file = f
             D == \E x \in Decls(news) : s \in MadeBy(x) /\ x.file = f
             E == \E x \in Messages(T) : s \in Inside(Fqn(x), x.d.extensions) /\ x.file = f
  <1>1. Claimed(V, s, f) <=> A \/ B \/ C
    BY DEF Claimed, Passes, Gains
  <1>2. C <=> D \/ E
    <2>1. \A x \in Messages(T) : MadeBy(AsNested(x)) = {}
      BY DEF AsNested, ItemOf, MadeBy
    <2>2. ASSUME C PROVE D \/ E
      <3>1. PICK y \in NestedAll(T) : s \in MadeBy(y) /\ y.file = f
        BY <2>2
      <3>2. CASE y \in Decls(news)
        BY <3>1, <3>2
      <3>3. ASSUME NEW x \in Messages(T), y = AsNested(x) PROVE FALSE
        BY <2>1, <3>1, <3>3
      <3>4. ASSUME NEW x \in Messages(T), y \in ExtensionsIn(x) PROVE E
        <4>1. s \in Inside(Fqn(x), x.d.extensions) /\ x.file = f
          BY <3>1, <3>4, ExtensionsMade
        <4> QED BY <4>1
      <3> HIDE DEF D, E
      <3> QED BY <3>2, <3>3, <3>4 DEF NestedAll, D
    <2>3. ASSUME D PROVE C
      BY <2>3 DEF NestedAll
    <2>4. ASSUME E PROVE C
      <3>1. PICK x \in Messages(T) : s \in Inside(Fqn(x), x.d.extensions) /\ x.file = f
        BY <2>4
      <3>2. PICK y \in ExtensionsIn(x) : s \in MadeBy(y) /\ y.file = f
        BY <3>1, ExtensionsMade
      <3>3. y \in NestedAll(T)
        BY <3>2 DEF NestedAll
      <3> QED BY <3>2, <3>3
    <2> QED BY <2>2, <2>3, <2>4
  <1>3. ASSUME A \/ B \/ D \/ E
        PROVE  \E x \in T \cup Decls(news) : s \in SymbolsOf(x) /\ x.file = f
    BY <1>3, SymbolParts DEF Messages
  <1>4. ASSUME NEW x \in T \cup Decls(news), s \in SymbolsOf(x), x.file = f
        PROVE  A \/ B \/ D \/ E
    BY <1>4, SymbolParts DEF Messages
  <1> HIDE DEF A, B, C, D, E
  <1> QED BY <1>1, <1>2, <1>3, <1>4

\* The items of the last walk.
LEMMA IndexLeast ==
    ASSUME CallInv, NEW T, LeastOf(T, Range(AllTypes(news)))
    PROVE  LeastOf(T \cup Decls(news), Roots("index"))
  <1> DEFINE R == Range(AllTypes(news))
             D == Decls(news)
  <1>1. scenario \in Scenarios /\ news \in Seq(scenario) /\ Len(pool.files) \in Nat
    BY ShapeLens DEF CallInv, RoundsOK, CallOK
  <1>2. Range(AllDefinitions(news)) = R \cup D /\ \A x \in D : x.k \in {"service", "extension"}
    BY <1>1, RootFacts
  <1>3. Roots("index") = R \cup D
    BY <1>2 DEF Roots
  <1>4. \A x \in D : Range(Expand(x)) = {}
    <2>1. Range(<<>>) = {}
      BY EmptyFacts
    <2> QED BY <1>2, <2>1 DEF Expand
  <1> HIDE DEF R, D
  <1>5. Closed(T \cup D, R \cup D)
    BY <1>4 DEF LeastOf, Closed, R
  <1>6. ASSUME NEW S, Closed(S, R \cup D) PROVE T \cup D \subseteq S
    <2>1. Closed(S, R) /\ D \subseteq S
      BY <1>6 DEF Closed
    <2> QED BY <2>1 DEF LeastOf, R
  <1>7. LeastOf(T \cup D, R \cup D)
    BY <1>5, <1>6 DEF LeastOf
  <1> QED BY <1>3, <1>7 DEF D

ItemKnown(p, x) == ItemOK(x) /\ x.k \in PassKinds(p) /\ x.file \in NewNumbers
\* How far the walk of pass p is.
Progress(V, p) ==
    /\ p = pass => Walked(V[p], Roots(p), Range(todo))
    /\ p \in PassesBefore(pass) => LeastOf(V[p], Roots(p))
    /\ p \notin PassesBefore(pass) \cup {pass} => V[p] = {}
OwnersOf(V) ==
    /\ DOMAIN V = Passes
    /\ \A p \in Passes : Progress(V, p) /\ \A x \in V[p] : ItemKnown(p, x)
    /\ Owned(pool, staged, V)
    /\ Filed(pool, staged, V, V["index"])
StagedOwners == \E V : OwnersOf(V)
PoolOwners(P) ==
    /\ DOMAIN P.symbolFile = DOMAIN P.symbols
    /\ \A s \in DOMAIN P.symbolFile : P.symbolFile[s] \in 1 .. Len(P.files)
OwnersInv ==
    /\ PoolOwners(pool) /\ PoolOwners(past.before)
    /\ pass # "idle" => StagedOwners

\* In the last pass, the items and their names are known.
LEMMA IndexItems ==
    ASSUME CallInv, pass = "index", NEW V, OwnersOf(V)
    PROVE  \E X : /\ LeastOf(X, Roots("index"))
                  /\ \A s, f : Claimed(V, s, f)
                        <=> \E x \in X : s \in SymbolsOf(x) /\ x.file = f
  <1> DEFINE T == V["register"]
             R == Range(AllTypes(news))
  <1>1. /\ LeastOf(V["register"], R) /\ LeastOf(V["link"], R)
        /\ LeastOf(V["services"], Range(AllServices(news)))
    <2>1. \A p \in {"register", "link", "services"} : LeastOf(V[p], Roots(p))
      BY DEF OwnersOf, Progress, Passes, PassesBefore
    <2> QED BY <2>1 DEF Roots
  <1>2. V["link"] = T
    BY <1>1, LeastSame
  <1>3. \A x \in T : ItemOK(x) /\ x.k \in {"message", "enum"}
    BY DEF OwnersOf, ItemKnown, Passes, PassKinds
  <1>4. V["services"] = NestedAll(T)
    BY <1>1, <1>3, NestedVisited
  <1>5. \A x \in Decls(news) : x.k \in {"service", "extension"}
    <2>1. scenario \in Scenarios /\ news \in Seq(scenario) /\ Len(pool.files) \in Nat
      BY ShapeLens DEF CallInv, RoundsOK, CallOK
    <2> QED BY <2>1, RootFacts
  <1>6. LeastOf(T \cup Decls(news), Roots("index"))
    BY <1>1, IndexLeast
  <1>7. \A s, f : Claimed(V, s, f)
              <=> \E x \in T \cup Decls(news) : s \in SymbolsOf(x) /\ x.file = f
    <2> DEFINE U == T
    <2>1. V["register"] = U /\ V["link"] = U /\ V["services"] = NestedAll(U)
          /\ \A x \in U : x.k \in {"message", "enum"}
      BY <1>2, <1>3, <1>4
    <2> HIDE DEF U
    <2>2. \A s, f : Claimed(V, s, f)
              <=> \E x \in U \cup Decls(news) : s \in SymbolsOf(x) /\ x.file = f
      BY <1>5, <2>1, ClaimsAgree
    <2> QED BY <2>2 DEF U
  <1> QED BY <1>6, <1>7

LEMMA FiledSame ==
    ASSUME NEW P, NEW Q, NEW R, NEW V, NEW W, NEW X, Filed(P, Q, V, X),
           R.symbolFile = Q.symbolFile, \A s, f : Claimed(V, s, f) => Claimed(W, s, f)
    PROVE  Filed(P, R, W, X)
  BY DEF Filed

LEMMA FiledOn ==
    ASSUME NEW P, NEW Q, NEW R, NEW V, NEW W, NEW X, Filed(P, Q, V, X), NEW x,
           SymbolsIndexed(Q, R, x), \A s, f : Claimed(V, s, f) => Claimed(W, s, f),
           \A s \in SymbolsOf(x) : Claimed(V, s, x.file) /\ s \notin DOMAIN P.symbolFile
    PROVE  Filed(P, R, W, X \cup {x})
  <1> DEFINE N == SymbolsOf(x)
  <1>1. /\ DOMAIN R.symbolFile = DOMAIN Q.symbolFile \cup N
        /\ \A s \in N : R.symbolFile[s] = x.file
        /\ \A s \in DOMAIN Q.symbolFile : s \notin N => R.symbolFile[s] = Q.symbolFile[s]
    BY DEF SymbolsIndexed
  <1>2. \A s : s \in DOMAIN R.symbolFile
                <=> s \in DOMAIN P.symbolFile \/ \E y \in X \cup {x} : s \in SymbolsOf(y)
    BY <1>1 DEF Filed
  <1>3. \A s \in DOMAIN P.symbolFile : R.symbolFile[s] = P.symbolFile[s]
    BY <1>1 DEF Filed
  <1>4. \A s \in DOMAIN R.symbolFile :
          s \notin DOMAIN P.symbolFile => Claimed(W, s, R.symbolFile[s])
    BY <1>1 DEF Filed
  <1> QED BY <1>2, <1>3, <1>4 DEF Filed

LEMMA SameRoots ==
    ASSUME news' = news, pool' = pool, NEW p
    PROVE  Roots(p)' = Roots(p) /\ NewNumbers' = NewNumbers
  BY DEF Roots, NewNumbers, AllTypes, AllServices, AllDefinitions

LEMMA OwnersWalk ==
    ASSUME BaseInv, PoolOwners(pool), NEW V, OwnersOf(V), Walks
    PROVE  \E W : /\ OwnersOf(W)'
                  /\ \A s, f : Claimed(V, s, f) => Claimed(W, s, f)
                  /\ \A s \in Gains(pass, Item) : Claimed(W, s, Item.file)
  <1>1. OwnersOf(V)
    OBVIOUS
  <1>2. CallInv /\ CallOK /\ NamesTyped(staged) /\ Shape(staged)
    BY DEF BaseInv, CallInv, CallOK, PoolsTyped
  <1>3. /\ todo # <<>> /\ pass' = pass /\ news' = news /\ pool' = pool
        /\ Range(todo') = Range(Expand(Item)) \cup Range(Tail(todo)) /\ pass # "idle"
    BY <1>2, WalkTodo
  <1>4. Effects
    BY <1>2, WalkEffects
  <1>5. /\ Gained(staged, staged', pass, Item)
        /\ pass # "index" => staged'.symbolFile = staged.symbolFile
    BY <1>2, <1>3, <1>4, EffectGains
  <1>6. /\ ItemKnown(pass, Item) /\ Range(todo) = {Item} \cup Range(Tail(todo))
    BY <1>2, <1>3, ItemFacts DEF ItemKnown
  <1>7. pass \in Passes
    BY <1>2, <1>3 DEF CallOK, Passes
  <1>8. PICK W : W = [V EXCEPT ![pass] = @ \cup {Item}]
    OBVIOUS
  <1>9. DOMAIN V = Passes /\ DOMAIN W = Passes
        /\ \A p \in Passes : W[p] = IF p = pass THEN V[p] \cup {Item} ELSE V[p]
    BY <1>1, <1>7, <1>8 DEF OwnersOf
  <1>10. Owned(pool, staged', W)
         /\ \A s, f : Claimed(W, s, f)
              <=> (Claimed(V, s, f) \/ (s \in Gains(pass, Item) /\ f = Item.file))
    <2>1. Owned(pool, staged, V)
      BY <1>1 DEF OwnersOf
    <2>2. OneMore(V, W, pass, Item)
      BY <1>9 DEF OneMore
    <2> QED BY <1>5, <1>7, <2>1, <2>2, OwnedOn
  <1>11. Filed(pool, staged', W, W["index"])
    <2>1. Filed(pool, staged, V, V["index"])
      BY <1>1 DEF OwnersOf
    <2>2. CASE pass # "index"
      <3>1. W["index"] = V["index"]
        BY <1>9, <2>2 DEF Passes
      <3> QED BY <1>5, <1>10, <2>1, <2>2, <3>1, FiledSame
    <2>3. CASE pass = "index"
      <3>1. SymbolsIndexed(staged, staged', Item)
        BY <1>4, <2>3 DEF Effects, MessageComes, EnumComes, MessageGets, EnumGets,
           ServiceComes, ExtensionComes, NestedOpens, ItemOwned, Visiting
      <3>2. W["index"] = V["index"] \cup {Item}
        BY <1>9, <2>3 DEF Passes
      <3>3. PICK X : /\ LeastOf(X, Roots("index"))
                     /\ \A s, f : Claimed(V, s, f)
                          <=> \E x \in X : s \in SymbolsOf(x) /\ x.file = f
        BY <1>1, <1>2, <2>3, IndexItems
      <3>4. Item \in X
        <4>1. Walked(V["index"], Roots("index"), Range(todo))
          BY <1>1, <2>3 DEF OwnersOf, Progress, Passes
        <4> QED BY <1>6, <3>3, <4>1 DEF Walked, LeastOf
      <3>5. ASSUME NEW s \in SymbolsOf(Item)
            PROVE  Claimed(V, s, Item.file) /\ s \notin DOMAIN pool.symbolFile
        <4>1. Claimed(V, s, Item.file)
          BY <3>3, <3>4
        <4>2. s \notin DOMAIN pool.symbols
          BY <1>1, <4>1 DEF OwnersOf, Owned
        <4> QED BY <4>1, <4>2 DEF PoolOwners
      <3>6. \A s, f : Claimed(V, s, f) => Claimed(W, s, f)
        BY <1>10
      <3>7. Filed(pool, staged', W, V["index"] \cup {Item})
        BY <2>1, <3>1, <3>5, <3>6, FiledOn
      <3> QED BY <3>2, <3>7
    <2> QED BY <2>2, <2>3
  <1>12. ASSUME NEW p \in Passes PROVE Progress(W, p)'
    <2>1. Progress(V, p)
      BY <1>1 DEF OwnersOf
    <2>2. Roots(p)' = Roots(p)
      BY <1>3, SameRoots
    <2>3. ASSUME p = pass PROVE Walked(W[p], Roots(p), Range(todo'))
      <3>1. Walked(V[p], Roots(p), Range(todo))
        BY <2>1, <2>3 DEF Progress
      <3>2. Walked(V[p] \cup {Item}, Roots(p), Range(Expand(Item)) \cup Range(Tail(todo)))
        BY <1>6, <3>1, WalkedOn
      <3> QED BY <1>3, <1>9, <2>3, <3>2
    <2>4. p # pass => W[p] = V[p]
      BY <1>9
    <2>5. pass \notin PassesBefore(pass)
      BY DEF PassesBefore
    <2>6. /\ p = pass => Walked(W[p], Roots(p), Range(todo'))
          /\ p \in PassesBefore(pass) => LeastOf(W[p], Roots(p))
          /\ p \notin PassesBefore(pass) \cup {pass} => W[p] = {}
      BY <2>1, <2>3, <2>4, <2>5 DEF Progress
    <2> QED BY <1>3, <2>2, <2>6 DEF Progress
  <1>13. ASSUME NEW p \in Passes, NEW x \in W[p] PROVE ItemKnown(p, x)'
    <2>1. ItemKnown(p, x)
      BY <1>1, <1>6, <1>9 DEF OwnersOf
    <2>2. NewNumbers' = NewNumbers
      BY <1>3, SameRoots
    <2> QED BY <2>1, <2>2 DEF ItemKnown
  <1>14. OwnersOf(W)'
    BY <1>3, <1>9, <1>10, <1>11, <1>12, <1>13 DEF OwnersOf
  <1> QED BY <1>10, <1>14

LEMMA FiledNone ==
    ASSUME NEW P, NEW Q, Q.symbolFile = P.symbolFile, NEW V
    PROVE  Filed(P, Q, V, {})
  BY DEF Filed

LEMMA OwnersStill ==
    ASSUME NEW V, OwnersOf(V), Still
    PROVE  OwnersOf(V)'
  <1>1. OwnersOf(V)
    OBVIOUS
  <1>2. /\ pool' = pool /\ staged' = staged /\ pass' = pass /\ news' = news
        /\ todo' = todo
    BY DEF Still
  <1>3. ASSUME NEW p \in Passes
        PROVE  Progress(V, p)' /\ \A x \in V[p] : ItemKnown(p, x)'
    <2>1. Roots(p)' = Roots(p) /\ NewNumbers' = NewNumbers
      BY <1>2, SameRoots
    <2>2. Progress(V, p) /\ \A x \in V[p] : ItemKnown(p, x)
      BY <1>1 DEF OwnersOf
    <2> QED BY <1>2, <2>1, <2>2 DEF Progress, ItemKnown
  <1> QED BY <1>1, <1>2, <1>3 DEF OwnersOf

LEMMA OwnersBegun ==
    ASSUME BaseInv, Begun, NEW V, V = [p \in Passes |-> {}]
    PROVE  OwnersOf(V)'
  <1>1. Shape(pool) /\ pool' = pool /\ pass' = "register" /\ todo' = AllTypes(news')
        /\ staged' = WithFiles(pool, news')
    BY DEF BaseInv, CallInv, RoundsOK, Begun
  <1>2. FilesNamed(pool, staged', news')
    BY <1>1, WithFilesFacts
  <1>3. staged'.symbols = pool.symbols /\ staged'.symbolFile = pool.symbolFile
    BY <1>2 DEF FilesNamed
  <1>4. DOMAIN V = Passes /\ \A p \in Passes : V[p] = {}
    OBVIOUS
  <1>5. \A s, f : ~ Claimed(V, s, f)
    BY <1>4 DEF Claimed
  <1>6. Owned(pool, staged', V)
    BY <1>3, <1>5 DEF Owned
  <1>7. Filed(pool, staged', V, V["index"])
    <2>1. V["index"] = {}
      BY <1>4 DEF Passes
    <2> QED BY <1>3, <2>1, FiledNone
  <1>8. Range(todo') = Roots("register")'
    BY <1>1 DEF Roots, AllTypes
  <1>9. ASSUME NEW p \in Passes PROVE Progress(V, p)'
    <2>1. V[p] = {}
      BY <1>4
    <2>2. p = "register" => Walked(V[p], Roots(p)', Range(todo'))
      BY <1>8, <2>1, WalkedStart
    <2>3. PassesBefore(pass') = {}
      BY <1>1 DEF PassesBefore
    <2>4. PassesBefore(pass)' = {}
      BY <2>3 DEF PassesBefore
    <2> QED BY <1>1, <2>1, <2>2, <2>4 DEF Progress
  <1> QED BY <1>1, <1>4, <1>6, <1>7, <1>9 DEF OwnersOf

LEMMA OwnersSwitch ==
    ASSUME BaseInv, NEW V, OwnersOf(V), Switches
    PROVE  OwnersOf(V)'
  <1>1. OwnersOf(V)
    OBVIOUS
  <1>2. /\ todo = <<>> /\ news' = news /\ pool' = pool
        /\ pass \in Passes /\ pass' \in Passes
        /\ PassesBefore(pass)' = PassesBefore(pass) \cup {pass}
        /\ pass' \notin PassesBefore(pass) \cup {pass}
    BY DEF Switches, TypesRegistered, TypesLinked, FieldsFinal, Passes, PassesBefore
  <1>3. /\ staged'.symbols = staged.symbols /\ staged'.symbolFile = staged.symbolFile
        /\ Range(todo') = Roots(pass')
    <2>1. CASE TypesRegistered
      BY <2>1 DEF TypesRegistered, Roots
    <2>2. CASE TypesLinked
      BY <2>2 DEF TypesLinked, Roots
    <2>3. CASE FieldsFinal
      <3>1. Shape(staged)
        BY DEF BaseInv, CallInv, CallOK
      <3>2. Settled(staged, staged', Len(pool.messages) + 1, Len(pool.extensions) + 1)
        BY <2>3, <3>1, FinalizedFacts DEF FieldsFinal
      <3> QED BY <2>3, <3>2 DEF FieldsFinal, Settled, SameFiles, Roots
    <2> QED BY <2>1, <2>2, <2>3 DEF Switches
  <1>4. Owned(pool, staged', V) /\ Filed(pool, staged', V, V["index"])
    <2>1. Owned(pool, staged, V) /\ Filed(pool, staged, V, V["index"])
      BY <1>1 DEF OwnersOf
    <2>2. Owned(pool, staged', V)
      BY <1>3, <2>1 DEF Owned
    <2>3. Filed(pool, staged', V, V["index"])
      BY <1>3, <2>1, FiledSame
    <2> QED BY <2>2, <2>3
  <1>5. Range(todo) = {}
    BY <1>2, EmptyFacts
  <1>6. ASSUME NEW p \in Passes PROVE Progress(V, p)'
    <2>1. Progress(V, p)
      BY <1>1 DEF OwnersOf
    <2>2. Roots(p)' = Roots(p)
      BY <1>2, SameRoots
    <2>3. ASSUME p = pass' PROVE Walked(V[p], Roots(p), Range(todo'))
      <3>1. V[p] = {}
        BY <1>2, <2>1, <2>3 DEF Progress
      <3>2. Range(todo') = Roots(p)
        BY <1>3, <2>3
      <3> QED BY <3>1, <3>2, WalkedStart
    <2>4. ASSUME p = pass PROVE LeastOf(V[p], Roots(p))
      <3>1. Walked(V[p], Roots(p), {})
        BY <1>5, <2>1, <2>4 DEF Progress
      <3> QED BY <3>1, WalkedEnd
    <2>5. /\ p \in PassesBefore(pass)' => LeastOf(V[p], Roots(p))
          /\ p \notin PassesBefore(pass)' \cup {pass'} => V[p] = {}
      BY <1>2, <2>1, <2>4 DEF Progress
    <2> QED BY <2>2, <2>3, <2>5 DEF Progress
  <1>7. ASSUME NEW p \in Passes, NEW x \in V[p] PROVE ItemKnown(p, x)'
    <2>1. ItemKnown(p, x)
      BY <1>1 DEF OwnersOf
    <2>2. NewNumbers' = NewNumbers
      BY <1>2, SameRoots
    <2> QED BY <2>1, <2>2 DEF ItemKnown
  <1> QED BY <1>1, <1>2, <1>4, <1>6, <1>7 DEF OwnersOf

\* At the end, every symbol has its file.
LEMMA FiledAll ==
    ASSUME CallInv, PoolOwners(pool), NEW V, OwnersOf(V), pass = "index", todo = <<>>
    PROVE  DOMAIN staged.symbolFile = DOMAIN staged.symbols
  <1>1. PICK X : /\ LeastOf(X, Roots("index"))
                 /\ \A s, f : Claimed(V, s, f)
                       <=> \E x \in X : s \in SymbolsOf(x) /\ x.file = f
    BY IndexItems
  <1>2. V["index"] = X
    <2>1. Range(todo) = {}
      BY EmptyFacts
    <2>2. Walked(V["index"], Roots("index"), {})
      BY <2>1 DEF OwnersOf, Progress, Passes
    <2> QED BY <1>1, <2>2, WalkedEnd, LeastSame
  <1>3. \A s : s \in DOMAIN staged.symbolFile
                <=> s \in DOMAIN pool.symbolFile \/ \E x \in X : s \in SymbolsOf(x)
    BY <1>2 DEF OwnersOf, Filed
  <1>4. \A s : s \in DOMAIN staged.symbols
                <=> s \in DOMAIN pool.symbols \/ \E f : Claimed(V, s, f)
    BY DEF OwnersOf, Owned
  <1>5. \A s : (\E x \in X : s \in SymbolsOf(x)) <=> \E f : Claimed(V, s, f)
    BY <1>1
  <1> QED BY <1>3, <1>4, <1>5 DEF PoolOwners

LEMMA OwnersWhole ==
    ASSUME BaseInv, PoolOwners(pool), StagedOwners, pass = "index", todo = <<>>
    PROVE  PoolOwners(Whole)
  <1>1. PICK V : OwnersOf(V)
    BY DEF StagedOwners
  <1>2. /\ CallInv /\ Shape(staged) /\ Shape(pool) /\ IsSeq(news)
        /\ staged.files = pool.files
    BY SeqOver DEF BaseInv, CallInv, CallOK, RoundsOK
  <1>3. DOMAIN staged.symbolFile = DOMAIN staged.symbols
    BY <1>1, <1>2, FiledAll
  <1>4. /\ Whole.symbols = staged.symbols /\ Whole.symbolFile = staged.symbolFile
        /\ Len(Whole.files) = Len(pool.files) + Len(news)
    BY <1>2, WholeFacts DEF FilesAdded
  <1>5. Len(pool.files) \in Nat /\ Len(news) \in Nat
    BY <1>2, ShapeLens, SeqFacts
  <1>6. ASSUME NEW s \in DOMAIN staged.symbolFile
        PROVE  staged.symbolFile[s] \in 1 .. Len(pool.files) + Len(news)
    <2>1. CASE s \in DOMAIN pool.symbolFile
      <3>1. staged.symbolFile[s] = pool.symbolFile[s]
        BY <1>1, <2>1 DEF OwnersOf, Filed
      <3>2. pool.symbolFile[s] \in 1 .. Len(pool.files)
        BY <2>1 DEF PoolOwners
      <3> QED BY <1>5, <3>1, <3>2
    <2>2. CASE s \notin DOMAIN pool.symbolFile
      <3>1. Claimed(V, s, staged.symbolFile[s])
        BY <1>1, <2>2 DEF OwnersOf, Filed
      <3>2. staged.symbolFile[s] \in NewNumbers
        BY <1>1, <3>1 DEF Claimed, OwnersOf, ItemKnown
      <3> QED BY <1>5, <3>2 DEF NewNumbers
    <2> QED BY <2>1, <2>2
  <1> QED BY <1>3, <1>4, <1>6 DEF PoolOwners

LEMMA OwnersStep ==
    ASSUME BaseInv, OwnersInv, CallSteps, RoundSteps
    PROVE  OwnersInv'
  <1>1. PoolOwners(pool) /\ PoolOwners(past.before)
    BY DEF OwnersInv
  <1>2. ASSUME Committed PROVE PoolOwners(Whole)
    <2>1. pass = "index" /\ todo = <<>>
      BY <1>2 DEF Committed
    <2> QED BY <1>1, <2>1, OwnersWhole DEF OwnersInv
  <1>3. PoolOwners(pool') /\ PoolOwners(past'.before)
    BY <1>1, <1>2, PoolSteps
  <1>4. PoolOwners(pool)' /\ PoolOwners(past.before)'
    BY <1>3 DEF PoolOwners
  <1>5. ASSUME pass' # "idle" PROVE StagedOwners'
    <2>1. CASE Begun
      <3>1. PICK V : V = [p \in Passes |-> {}]
        OBVIOUS
      <3> QED BY <2>1, <3>1, OwnersBegun DEF StagedOwners
    <2>2. ASSUME pass # "idle", Still \/ Switches \/ Walks PROVE StagedOwners'
      <3>1. PICK V : OwnersOf(V)
        BY <2>2 DEF OwnersInv, StagedOwners
      <3>2. ASSUME Walks PROVE \E W : OwnersOf(W)'
        BY <1>1, <3>1, <3>2, OwnersWalk
      <3>3. ASSUME Still \/ Switches PROVE OwnersOf(V)'
        BY <3>1, <3>3, OwnersStill, OwnersSwitch
      <3> QED BY <2>2, <3>2, <3>3 DEF StagedOwners
    <2>3. Walks => pass # "idle"
      BY WalkTodo DEF BaseInv, CallInv
    <2> QED BY <1>5, <2>1, <2>2, <2>3, OnSteps
  <1> QED BY <1>4, <1>5 DEF OwnersInv

LEMMA OwnersInit == ASSUME Init PROVE OwnersInv
  <1>1. pool = EmptyPool /\ pass = "idle" /\ past.before = EmptyPool
    BY DEF Init, NoPast
  <1>2. EmptyPool.symbols = <<>> /\ EmptyPool.symbolFile = <<>>
    BY DEF EmptyPool
  <1>3. PoolOwners(EmptyPool)
    BY <1>2, EmptyFacts DEF PoolOwners
  <1> QED BY <1>1, <1>3 DEF OwnersInv

LEMMA RangeOf ==
    ASSUME NEW s, IsSeq(s)
    PROVE  /\ \A x : x \in Range(s) <=> \E i \in 1 .. Len(s) : x = s[i]
           /\ DOMAIN s = 1 .. Len(s)
  BY SeqFacts

LEMMA GoodNamesLead ==
    ASSUME NEW P, Shape(P), PoolTypes(P), PoolTables(P)
    PROVE  NamesLead(P)
  <1> DEFINE M == {m.fullName : m \in Range(P.messages)}
             E == {e.fullName : e \in Range(P.enums)}
  <1>1. /\ IsSeq(P.messages) /\ IsSeq(P.enums) /\ IsSeq(P.services) /\ IsSeq(P.files)
    BY DEF Shape
  <1>2. /\ \A n \in DOMAIN P.byName : HasEntry(P, n, P.byName[n])
        /\ \A i \in 1 .. Len(P.messages) : P.messages[i].fullName \in DOMAIN P.byName
        /\ \A i \in 1 .. Len(P.enums) : P.enums[i].fullName \in DOMAIN P.byName
    BY DEF PoolTypes, TypesGood, Leads
  <1>3. M = {P.messages[i].fullName : i \in 1 .. Len(P.messages)}
        /\ E = {P.enums[i].fullName : i \in 1 .. Len(P.enums)}
    <2>1. Range(P.messages) = {P.messages[i] : i \in 1 .. Len(P.messages)}
      BY <1>1, SeqFacts
    <2>2. Range(P.enums) = {P.enums[i] : i \in 1 .. Len(P.enums)}
      BY <1>1, SeqFacts
    <2> QED BY <2>1, <2>2
  <1> HIDE DEF M, E
  <1>4. DOMAIN P.byName \subseteq M \cup E
    BY <1>2, <1>3 DEF HasEntry
  <1>5. M \cup E \subseteq DOMAIN P.byName
    BY <1>2, <1>3
  <1>6. \A n \in DOMAIN P.byName : TypeNamed(P, P.byName[n]) = n
    BY <1>2 DEF HasEntry, TypeNamed
  <1>7. \A n \in DOMAIN P.serviceByName : P.services[P.serviceByName[n]].fullName = n
    BY DEF PoolTables, TablesGood, ServiceNamed
  <1>8. \A n \in DOMAIN P.fileByName : P.files[P.fileByName[n]].name = n
    BY DEF PoolTables, NamesFiles
  <1> QED BY <1>4, <1>5, <1>6, <1>7, <1>8 DEF NamesLead, M, E

LEMMA GoodFilesKnown ==
    ASSUME NEW P, Shape(P), PoolOwners(P)
    PROVE  FilesKnown(P)
  <1>1. DOMAIN P.files = 1 .. Len(P.files)
    BY ShapeLens
  <1>2. Range(P.symbolFile) \subseteq DOMAIN P.files
    BY <1>1 DEF PoolOwners, Range
  <1> QED BY <1>2 DEF FilesKnown, Shape, PoolOwners

LEMMA GoodRefers ==
    ASSUME NEW P, Shape(P), NEW fd, FieldGood(P, fd), EnumTyped(fd)
    PROVE  Refers(P, fd)
  <1>1. DOMAIN P.messages = 1 .. Len(P.messages) /\ DOMAIN P.enums = 1 .. Len(P.enums)
    BY ShapeLens
  <1>2. /\ "message" # "enum" /\ "message" # "scalar" /\ "enum" # "scalar"
        /\ "none" \notin {"open", "closed"}
    OBVIOUS
  <1>3. CASE fd.kind.k = "message"
    BY <1>1, <1>2, <1>3 DEF FieldGood, Refers
  <1>4. CASE fd.kind.k = "enum"
    BY <1>1, <1>2, <1>4 DEF FieldGood, Refers, EnumTyped
  <1>5. CASE fd.kind.k = "scalar"
    BY <1>2, <1>5 DEF Refers
  <1> QED BY <1>3, <1>4, <1>5 DEF FieldGood

LEMMA GoodFieldsRefer ==
    ASSUME NEW P, Shape(P), PoolDefs(P)
    PROVE  FieldsRefer(P)
  <1>1. ASSUME NEW m \in Range(P.messages), NEW fd \in Range(m.fields) PROVE Refers(P, fd)
    <2>1. PICK i \in 1 .. Len(P.messages) : m = P.messages[i]
      <3>1. IsSeq(P.messages)
        BY DEF Shape
      <3> QED BY <3>1, RangeOf
    <2>2. i \in 0 + 1 .. Len(P.messages) /\ IsSeq(m.fields)
      BY <2>1 DEF Shape, MessageShape
    <2>3. PICK j \in 1 .. Len(m.fields) : fd = m.fields[j]
      BY <2>2, RangeOf
    <2>4. FieldGood(P, fd) /\ EnumTyped(fd)
      BY <2>1, <2>2, <2>3 DEF PoolDefs, MessagesGood, MessageGood, FieldsGood, FieldsTyped,
         MessageTyped
    <2> QED BY <2>4, GoodRefers
  <1>2. ASSUME NEW x \in Range(P.extensions) PROVE Refers(P, x.field)
    <2>1. PICK i \in 1 .. Len(P.extensions) : x = P.extensions[i]
      <3>1. IsSeq(P.extensions)
        BY DEF Shape
      <3> QED BY <3>1, RangeOf
    <2>2. i \in 0 + 1 .. Len(P.extensions)
      OBVIOUS
    <2>3. FieldGood(P, x.field) /\ EnumTyped(x.field)
      BY <2>1, <2>2 DEF PoolDefs, ExtensionsGood, ExtensionGood, FieldsTyped
    <2> QED BY <2>3, GoodRefers
  <1> QED BY <1>1, <1>2 DEF FieldsRefer

LEMMA GoodExtensions ==
    ASSUME NEW P, Shape(P), TablesGood(P)
    PROVE  ExtensionsIndexed(P)
  <1>1. DOMAIN P.extensions = 1 .. Len(P.extensions)
    BY ShapeLens
  <1>2. \A i \in DOMAIN P.extensions :
           IndexedAs(P, P.extensions[i].fullName, ExtensionKey(P.extensions[i]), i)
    BY <1>1 DEF TablesGood
  <1>3. Range(P.extensionByExtendee) = DOMAIN P.extensions
    <2> DEFINE by == P.extensionByExtendee
    <2>1. \A k \in DOMAIN by : by[k] \in DOMAIN P.extensions
      BY <1>1 DEF TablesGood
    <2>2. \A i \in DOMAIN P.extensions : \E k \in DOMAIN by : by[k] = i
      BY <1>2 DEF IndexedAs
    <2> HIDE DEF by
    <2>3. Range(by) = DOMAIN P.extensions
      BY <2>1, <2>2 DEF Range
    <2> QED BY <2>3 DEF by
  <1>4. Range(P.extensionByName) = DOMAIN P.extensions
    <2> DEFINE by == P.extensionByName
    <2>1. \A n \in DOMAIN by : by[n] \in DOMAIN P.extensions
      BY <1>1 DEF TablesGood
    <2>2. \A i \in DOMAIN P.extensions : \E n \in DOMAIN by : by[n] = i
      BY <1>2 DEF IndexedAs
    <2> HIDE DEF by
    <2>3. Range(by) = DOMAIN P.extensions
      BY <2>1, <2>2 DEF Range
    <2> QED BY <2>3 DEF by
  <1>5. ASSUME NEW i \in DOMAIN P.extensions
        PROVE  LET x == P.extensions[i] IN
               /\ P.extensionByName[x.fullName] = i
               /\ P.extensionByExtendee[<<x.extendee, x.field.number>>] = i
    BY <1>2 DEF IndexedAs, ExtensionKey
  <1> QED BY <1>3, <1>4, <1>5 DEF ExtensionsIndexed

PoolInv == BaseInv /\ TypesInv /\ TablesInv /\ DefsInv /\ OwnersInv

LEMMA PoolInvInit == Init => PoolInv
  BY BaseInit, TypesInit, TablesInit, DefsInit, OwnersInit DEF PoolInv

LEMMA PoolInvStep == PoolInv /\ [Next]_vars => PoolInv'
  BY NextSteps, BaseStep, TypesStep, TablesStep, DefsStep, OwnersStep DEF BaseInv, PoolInv

\* For any files, the tables of a pool that a caller can see describe the same
\* definitions, however many calls failed before.
THEOREM PoolStaysConsistent == Spec => []PoolConsistent
  <1>1. PoolInv => PoolConsistent
    <2> SUFFICES ASSUME PoolInv PROVE PoolConsistent
      OBVIOUS
    <2>1. /\ Shape(pool) /\ PoolTypes(pool) /\ PoolTables(pool) /\ PoolDefs(pool)
          /\ PoolOwners(pool) /\ TablesGood(pool)
      BY DEF PoolInv, BaseInv, CallInv, RoundsOK, TypesInv, TablesInv, PoolTables, DefsInv,
         OwnersInv
    <2> QED BY <2>1, GoodNamesLead, GoodFilesKnown, GoodFieldsRefer, GoodExtensions
        DEF PoolConsistent
  <1> QED BY <1>1, PoolInvInit, PoolInvStep, PTL DEF Spec

(***************************************************************************)
(* What the definitions of a file refer to is in files that it may see.    *)
(***************************************************************************)
\* Q has the same files as P, under the same names.
Sight(P, Q) == Q.files = P.files /\ Q.fileByName = P.fileByName

LEMMA SightSees ==
    ASSUME NEW P, NEW Q, Sight(P, Q), NEW a, NEW b, MaySee(P, a, b)
    PROVE  MaySee(Q, a, b)
  BY DEF Sight, MaySee, Known, Public

FieldSees(P, W, file, fd) == fd.kind.k # "scalar" => MaySee(W, file, DefFile(P, fd.kind))
MessageSees(P, W, file, fields) ==
    \A j \in 1 .. Len(fields) : FieldSees(P, W, file, fields[j])
ExtensionSees(P, W, file, x) ==
    MaySee(W, file, P.messageFile[x.extendee]) /\ FieldSees(P, W, file, x.field)
MethodSees(P, W, file, m) ==
    /\ MaySee(W, file, P.messageFile[m.input])
    /\ MaySee(W, file, P.messageFile[m.output])
ServiceSees(P, W, file, s) ==
    \A j \in DOMAIN s.methods : MethodSees(P, W, file, s.methods[j])

\* The definitions of P from a number on; W is P with the files of the call.
MessagesSee(P, W, n) ==
    \A i \in n + 1 .. Len(P.messages) :
        MessageSees(P, W, P.messageFile[i], P.messages[i].fields)
ExtensionsSee(P, W, V, n) ==
    \A i \in n + 1 .. Len(P.extensions) :
        \E f : /\ Claimed(V, P.extensions[i].fullName, f)
               /\ ExtensionSees(P, W, f, P.extensions[i])
ServicesSee(P, W, V, n) ==
    \A i \in n + 1 .. Len(P.services) :
        \E f : /\ Claimed(V, P.services[i].fullName, f)
               /\ ServiceSees(P, W, f, P.services[i])

\* The types of P are in Q, in the same files.
FilesKept(P, Q) ==
    /\ \A i \in 1 .. Len(P.messages) : Q.messageFile[i] = P.messageFile[i]
    /\ \A i \in 1 .. Len(P.enums) : Q.enumFile[i] = P.enumFile[i]

LEMMA FieldSeesOn ==
    ASSUME NEW P, NEW Q, FilesKept(P, Q), NEW W, NEW X, Sight(W, X), NEW file, NEW fd,
           FieldGood(P, fd), FieldSees(P, W, file, fd)
    PROVE  FieldSees(Q, X, file, fd)
  <1> SUFFICES ASSUME fd.kind.k # "scalar" PROVE MaySee(X, file, DefFile(Q, fd.kind))
    BY DEF FieldSees
  <1>1. DefFile(Q, fd.kind) = DefFile(P, fd.kind)
    BY DEF FieldGood, FilesKept, DefFile
  <1>2. MaySee(W, file, DefFile(P, fd.kind))
    BY DEF FieldSees
  <1> QED BY <1>1, <1>2, SightSees

LEMMA MessageSeesOn ==
    ASSUME NEW P, NEW Q, FilesKept(P, Q), NEW W, NEW X, Sight(W, X), NEW file, NEW m,
           MessageGood(P, m), MessageSees(P, W, file, m.fields)
    PROVE  MessageSees(Q, X, file, m.fields)
  <1> SUFFICES ASSUME NEW j \in 1 .. Len(m.fields)
               PROVE  FieldSees(Q, X, file, m.fields[j])
    BY DEF MessageSees
  <1>1. FieldGood(P, m.fields[j]) /\ FieldSees(P, W, file, m.fields[j])
    BY DEF MessageGood, FieldsGood, MessageSees
  <1> QED BY <1>1, FieldSeesOn

LEMMA ExtensionSeesOn ==
    ASSUME NEW P, NEW Q, FilesKept(P, Q), NEW W, NEW X, Sight(W, X), NEW file, NEW x,
           ExtensionGood(P, x.field, x.extendee), ExtensionSees(P, W, file, x)
    PROVE  ExtensionSees(Q, X, file, x)
  <1>1. FieldGood(P, x.field) /\ x.extendee \in 1 .. Len(P.messages)
    BY DEF ExtensionGood
  <1>2. FieldSees(P, W, file, x.field) /\ MaySee(W, file, P.messageFile[x.extendee])
    BY DEF ExtensionSees
  <1>3. FieldSees(Q, X, file, x.field)
    BY <1>1, <1>2, FieldSeesOn
  <1>4. Q.messageFile[x.extendee] = P.messageFile[x.extendee]
    BY <1>1 DEF FilesKept
  <1>5. MaySee(X, file, Q.messageFile[x.extendee])
    BY <1>2, <1>4, SightSees
  <1> QED BY <1>3, <1>5 DEF ExtensionSees

LEMMA ServiceSeesOn ==
    ASSUME NEW P, NEW Q, FilesKept(P, Q), NEW W, NEW X, Sight(W, X), NEW file, NEW s,
           ServiceGood(P, s), ServiceSees(P, W, file, s)
    PROVE  ServiceSees(Q, X, file, s)
  <1> SUFFICES ASSUME NEW j \in DOMAIN s.methods
               PROVE  MethodSees(Q, X, file, s.methods[j])
    BY DEF ServiceSees
  <1> DEFINE m == s.methods[j]
  <1>1. MethodGood(P, m) /\ MethodSees(P, W, file, m)
    BY DEF ServiceGood, ServiceSees
  <1> HIDE DEF m
  <1>2. Q.messageFile[m.input] = P.messageFile[m.input]
        /\ Q.messageFile[m.output] = P.messageFile[m.output]
    BY <1>1 DEF MethodGood, FilesKept
  <1>3. MaySee(X, file, P.messageFile[m.input]) /\ MaySee(X, file, P.messageFile[m.output])
    BY <1>1, SightSees DEF MethodSees
  <1>4. MethodSees(Q, X, file, m)
    BY <1>2, <1>3 DEF MethodSees
  <1> QED BY <1>4 DEF m

\* Definitions that stay as they are, in a pool with more types.
LEMMA MessagesSeeOn ==
    ASSUME NEW P, NEW Q, FilesKept(P, Q), NEW W, NEW X, Sight(W, X), NEW n,
           MessagesGood(P, n), MessagesSee(P, W, n),
           Q.messages = P.messages, Q.messageFile = P.messageFile
    PROVE  MessagesSee(Q, X, n)
  <1> SUFFICES ASSUME NEW i \in n + 1 .. Len(P.messages)
               PROVE  MessageSees(Q, X, P.messageFile[i], P.messages[i].fields)
    BY DEF MessagesSee
  <1>1. MessageGood(P, P.messages[i])
        /\ MessageSees(P, W, P.messageFile[i], P.messages[i].fields)
    BY DEF MessagesGood, MessagesSee
  <1> QED BY <1>1, MessageSeesOn

LEMMA ExtensionsSeeOn ==
    ASSUME NEW P, NEW Q, FilesKept(P, Q), NEW W, NEW X, Sight(W, X), NEW n,
           ExtensionsGood(P, n), NEW V, NEW U, ExtensionsSee(P, W, V, n),
           Q.extensions = P.extensions, \A s, f : Claimed(V, s, f) => Claimed(U, s, f)
    PROVE  ExtensionsSee(Q, X, U, n)
  <1> SUFFICES ASSUME NEW i \in n + 1 .. Len(P.extensions)
               PROVE  \E f : /\ Claimed(U, P.extensions[i].fullName, f)
                             /\ ExtensionSees(Q, X, f, P.extensions[i])
    BY DEF ExtensionsSee
  <1>1. PICK f : /\ Claimed(V, P.extensions[i].fullName, f)
                 /\ ExtensionSees(P, W, f, P.extensions[i])
    BY DEF ExtensionsSee
  <1>2. ExtensionGood(P, P.extensions[i].field, P.extensions[i].extendee)
    BY DEF ExtensionsGood
  <1>3. ExtensionSees(Q, X, f, P.extensions[i])
    BY <1>1, <1>2, ExtensionSeesOn
  <1> QED BY <1>1, <1>3

LEMMA ServicesSeeOn ==
    ASSUME NEW P, NEW Q, FilesKept(P, Q), NEW W, NEW X, Sight(W, X), NEW n,
           ServicesGood(P, n), NEW V, NEW U, ServicesSee(P, W, V, n),
           Q.services = P.services, \A s, f : Claimed(V, s, f) => Claimed(U, s, f)
    PROVE  ServicesSee(Q, X, U, n)
  <1> SUFFICES ASSUME NEW i \in n + 1 .. Len(P.services)
               PROVE  \E f : /\ Claimed(U, P.services[i].fullName, f)
                             /\ ServiceSees(Q, X, f, P.services[i])
    BY DEF ServicesSee
  <1>1. PICK f : /\ Claimed(V, P.services[i].fullName, f)
                 /\ ServiceSees(P, W, f, P.services[i])
    BY DEF ServicesSee
  <1>2. ServiceGood(P, P.services[i])
    BY DEF ServicesGood
  <1>3. ServiceSees(Q, X, f, P.services[i])
    BY <1>1, <1>2, ServiceSeesOn
  <1> QED BY <1>1, <1>3

\* What the scope of an item sees, its file may see.
LEMMA ScopeSees ==
    ASSUME CallInv, opts.importVisibility, todo # <<>>, NEW b \in Scope(Item.file).visible
    PROVE  MaySee(Whole, Item.file, b)
  <1>1. Item.file \in NewNumbers /\ pass # "idle"
    BY ItemFacts DEF CallInv
  <1>2. staged.files = pool.files /\ Shape(staged) /\ news \in Seq(scenario)
    BY <1>1 DEF CallInv, CallOK
  <1>3. IsSeq(news)
    BY <1>2, SeqOver
  <1>4. IsSeq(staged.files) /\ {"files", "fileByName"} \subseteq DOMAIN staged
    BY <1>2 DEF Shape, PoolFields
  <1>5. Len(staged.files) \in Nat /\ Len(news) \in Nat
    BY <1>3, <1>4, SeqFacts
  <1>6. Item.file \in 1 .. Len(staged.files) + Len(news)
    BY <1>1, <1>2, <1>5 DEF NewNumbers
  <1>7. b \in VisibleFiles(Item.file)
    BY DEF Scope
  <1> QED BY <1>3, <1>4, <1>6, <1>7, VisibleSees

LEMMA LinkedSees ==
    ASSUME CallInv, opts.importVisibility, todo # <<>>, NEW P, NEW fd,
           Resolved(P, Scope(Item.file), fd.kind)
    PROVE  FieldSees(P, Whole, Item.file, fd)
  <1> SUFFICES ASSUME fd.kind.k # "scalar"
               PROVE  MaySee(Whole, Item.file, DefFile(P, fd.kind))
    BY DEF FieldSees
  <1>1. DefFile(P, fd.kind) \in Scope(Item.file).visible
    BY DEF Resolved
  <1> QED BY <1>1, ScopeSees

\* The files of the call are the same ones all along.
LEMMA SightStays ==
    ASSUME Shape(staged), Shape(staged'), staged'.files = staged.files,
           staged'.fileByName = staged.fileByName, news' = news
    PROVE  Sight(Whole, Whole')
  <1>1. Whole.files = staged.files \o news /\ Whole.fileByName = staged.fileByName
    BY NewsFiles DEF Whole
  <1>2. Whole'.files = staged'.files \o news' /\ Whole'.fileByName = staged'.fileByName
    BY NewsFiles DEF Whole
  <1> QED BY <1>1, <1>2 DEF Sight

\* Types that are not changed, or only at the end.
LEMMA SameFilesKept ==
    ASSUME NEW P, NEW Q, Q.messageFile = P.messageFile, Q.enumFile = P.enumFile
    PROVE  FilesKept(P, Q)
  BY DEF FilesKept

LEMMA EffectsKeep ==
    ASSUME Shape(staged), Effects
    PROVE  FilesKept(staged, staged')
  <1>1. ASSUME MessageComes PROVE FilesKept(staged, staged')
    <2>1. MessageAdded(staged, staged', Fqn(Item), Item.d, Item.file)
      BY <1>1 DEF MessageComes
    <2>2. MessageEntered(staged, staged', Fqn(Item), Item.d, Item.file)
      BY <2>1, MessageAddedFacts
    <2> QED BY <2>2 DEF MessageEntered, FilesKept
  <1>2. ASSUME EnumComes PROVE FilesKept(staged, staged')
    <2>1. EnumAdded(staged, staged', Fqn(Item), Item.file)
      BY <1>2 DEF EnumComes
    <2>2. EnumEntered(staged, staged', Fqn(Item), Item.file)
      BY <2>1, EnumAddedFacts
    <2> QED BY <2>2 DEF EnumEntered, FilesKept
  <1>3. ASSUME NEW fields, MessageGets(fields) PROVE FilesKept(staged, staged')
    BY <1>3, SameFilesKept DEF MessageGets, MessagePut
  <1>4. ASSUME EnumGets PROVE FilesKept(staged, staged')
    BY <1>4, SameFilesKept DEF EnumGets, EnumPut
  <1>5. ASSUME ServiceComes PROVE FilesKept(staged, staged')
    BY <1>5, SameFilesKept DEF ServiceComes, ServiceAdded, SameTypes
  <1>6. ASSUME ExtensionComes PROVE FilesKept(staged, staged')
    BY <1>6, SameFilesKept DEF ExtensionComes, ExtensionAdded, SameTypes
  <1>7. ASSUME NestedOpens PROVE FilesKept(staged, staged')
    BY <1>7, SameFilesKept DEF NestedOpens
  <1>8. ASSUME ItemOwned PROVE FilesKept(staged, staged')
    BY <1>8, SameFilesKept DEF ItemOwned, SymbolsIndexed, SameTypes
  <1> QED BY <1>1, <1>2, <1>3, <1>4, <1>5, <1>6, <1>7, <1>8 DEF Effects

\* A message that comes has no fields yet.
LEMMA MessageComesSees ==
    ASSUME Shape(staged), Shape(staged'), MessageComes, NEW W, NEW X, Sight(W, X),
           NEW n \in Nat, MessagesGood(staged, n), MessagesSee(staged, W, n)
    PROVE  MessagesSee(staged', X, n)
  <1>1. MessageEntered(staged, staged', Fqn(Item), Item.d, Item.file)
    BY MessageAddedFacts DEF MessageComes
  <1>2. FilesKept(staged, staged')
    BY EffectsKeep DEF Effects
  <1>3. Len(staged.messages) \in Nat /\ Len(staged'.messages) = Len(staged.messages) + 1
    BY <1>1 DEF MessageEntered
  <1> SUFFICES ASSUME NEW i \in n + 1 .. Len(staged'.messages)
               PROVE  MessageSees(staged', X, staged'.messageFile[i], staged'.messages[i].fields)
    BY DEF MessagesSee
  <1>4. CASE i <= Len(staged.messages)
    <2>1. i \in n + 1 .. Len(staged.messages) /\ i \in 1 .. Len(staged.messages)
      BY <1>3, <1>4
    <2>2. staged'.messages[i] = staged.messages[i]
          /\ staged'.messageFile[i] = staged.messageFile[i]
      BY <1>1, <2>1 DEF MessageEntered
    <2>3. MessageGood(staged, staged.messages[i])
      BY <2>1 DEF MessagesGood
    <2>4. MessageSees(staged, W, staged.messageFile[i], staged.messages[i].fields)
      BY <2>1 DEF MessagesSee
    <2>5. MessageSees(staged', X, staged.messageFile[i], staged.messages[i].fields)
      BY <1>2, <2>3, <2>4, MessageSeesOn
    <2> QED BY <2>2, <2>5
  <1>5. CASE i > Len(staged.messages)
    <2>1. i = Len(staged.messages) + 1
      BY <1>3, <1>5
    <2>2. staged'.messages[i] = Placeholder(Fqn(Item), Item.d)
      BY <1>1, <2>1 DEF MessageEntered
    <2>3. staged'.messages[i].fields = <<>>
      BY <2>2 DEF Placeholder
    <2>4. Len(staged'.messages[i].fields) = 0
      BY <2>3, EmptyFacts
    <2> QED BY <2>4 DEF MessageSees
  <1> QED BY <1>3, <1>4, <1>5

\* A message that gets its fields.
LEMMA MessageGetsSees ==
    ASSUME CallInv, opts.importVisibility, StagedTypes, Shape(staged'), NEW fields,
           MessageGets(fields), Sight(Whole, Whole'),
           NEW n \in Nat, MessagesGood(staged, n), MessagesSee(staged, Whole, n)
    PROVE  MessagesSee(staged', Whole', n)
  <1>1. Shape(staged) /\ todo # <<>> /\ pass = "link" /\ Item.k = "message"
    BY DEF CallInv, CallOK, MessageGets, Visiting
  <1>2. FilesKept(staged, staged')
    BY <1>1, EffectsKeep DEF Effects
  <1>3. MessagePut(staged, staged', Fqn(Item), Item.d, fields, linked)
    BY DEF MessageGets
  <1>4. MessageMade(staged, Scope(Item.file), Fqn(Item), Item.d, fields)
    BY DEF MessageGets
  <1>5. staged.messageFile[linked] = Item.file
    BY <1>1, ItemRecorded DEF Recorded
  <1>6. MessageSees(staged, Whole, Item.file, fields)
    <2> SUFFICES ASSUME NEW j \in 1 .. Len(fields)
                 PROVE  FieldSees(staged, Whole, Item.file, fields[j])
      BY DEF MessageSees
    <2>1. FieldLinked(staged, Scope(Item.file), Item.d.fields[j], fields[j])
      BY <1>4 DEF MessageMade, FieldsLinked
    <2>2. Resolved(staged, Scope(Item.file), fields[j].kind)
      BY <2>1 DEF FieldLinked
    <2> QED BY <1>1, <2>2, LinkedSees
  <1>7. ASSUME NEW j \in 1 .. Len(fields) PROVE FieldGood(staged, fields[j])
    <2>1. FieldLinked(staged, Scope(Item.file), Item.d.fields[j], fields[j])
          /\ fields[j].number \in Int
      BY <1>4 DEF MessageMade, FieldsLinked
    <2>2. TypesGood(staged, Total)
      BY DEF StagedTypes
    <2> QED BY <2>1, <2>2, LinkedGood
  <1>8. MessageSees(staged', Whole', Item.file, fields)
    <2> SUFFICES ASSUME NEW j \in 1 .. Len(fields)
                 PROVE  FieldSees(staged', Whole', Item.file, fields[j])
      BY DEF MessageSees
    <2>1. FieldSees(staged, Whole, Item.file, fields[j])
      BY <1>6 DEF MessageSees
    <2>2. FieldGood(staged, fields[j])
      BY <1>7
    <2> QED BY <1>2, <2>1, <2>2, FieldSeesOn
  <1> SUFFICES ASSUME NEW i \in n + 1 .. Len(staged'.messages)
               PROVE  MessageSees(staged', Whole', staged'.messageFile[i],
                                  staged'.messages[i].fields)
    BY DEF MessagesSee
  <1>9. Len(staged.messages) \in Nat
    BY <1>1, ShapeLens
  <1>10. /\ Len(staged'.messages) = Len(staged.messages)
         /\ staged'.messageFile = staged.messageFile
    BY <1>3 DEF MessagePut
  <1>11. i \in n + 1 .. Len(staged.messages) /\ i \in 1 .. Len(staged.messages)
    BY <1>9, <1>10
  <1>12. CASE i = linked
    <2>1. staged'.messages[i].fields = fields
      BY <1>3, <1>11, <1>12 DEF MessagePut
    <2> QED BY <1>5, <1>8, <1>10, <1>12, <2>1
  <1>13. CASE i # linked
    <2>1. staged'.messages[i] = staged.messages[i]
      BY <1>3, <1>11, <1>13 DEF MessagePut
    <2>2. MessageGood(staged, staged.messages[i])
      BY <1>11 DEF MessagesGood
    <2>3. MessageSees(staged, Whole, staged.messageFile[i], staged.messages[i].fields)
      BY <1>11 DEF MessagesSee
    <2>4. MessageSees(staged', Whole', staged.messageFile[i], staged.messages[i].fields)
      BY <1>2, <2>2, <2>3, MessageSeesOn
    <2> QED BY <1>10, <2>1, <2>4
  <1> QED BY <1>12, <1>13

\* A service that comes, of a file f that is claimed for it.
LEMMA ServiceComesSees ==
    ASSUME CallInv, opts.importVisibility, StagedTypes, Shape(staged'), ServiceComes,
           Sight(Whole, Whole'), NEW n \in Nat, ServicesGood(staged, n),
           NEW V, NEW U, ServicesSee(staged, Whole, V, n),
           \A s, f : Claimed(V, s, f) => Claimed(U, s, f),
           Claimed(U, Fqn(Item), Item.file)
    PROVE  ServicesSee(staged', Whole', U, n)
  <1>1. Shape(staged) /\ todo # <<>> /\ Item.k = "service"
    BY DEF CallInv, CallOK, ServiceComes, Visiting
  <1>2. FilesKept(staged, staged')
    BY <1>1, EffectsKeep DEF Effects
  <1>3. ServiceAdded(staged, staged', Item.parent, Item.d)
        /\ ServiceMade(staged, Scope(Item.file), Item.parent, Item.d)
    BY DEF ServiceComes
  <1>4. ItemOK(Item)
    BY <1>1, ItemFacts DEF CallInv
  <1>5. IsSeq(Item.d.methods)
    BY <1>1, <1>4 DEF ItemOK
  <1> DEFINE svc == [fullName |-> Fqn(Item),
                     methods |-> [i \in DOMAIN Item.d.methods |->
                                     LinkedMethod(staged, Item.d.methods[i])]]
  <1>6. staged'.services = Append(staged.services, svc)
    BY <1>3 DEF ServiceAdded, Fqn
  <1>7. ServiceSees(staged', Whole', Item.file, svc)
    <2> SUFFICES ASSUME NEW j \in DOMAIN svc.methods
                 PROVE  MethodSees(staged', Whole', Item.file, svc.methods[j])
      BY DEF ServiceSees
    <2> DEFINE m == LinkedMethod(staged, Item.d.methods[j])
    <2>1. svc.methods[j] = m /\ j \in 1 .. Len(Item.d.methods)
      BY <1>5, SeqFacts
    <2> HIDE DEF m
    <2>2. MessageSeen(staged, Scope(Item.file), m.input)
          /\ MessageSeen(staged, Scope(Item.file), m.output)
      BY <1>3, <2>1 DEF ServiceMade, m
    <2>3. staged.messageFile[m.input] \in Scope(Item.file).visible
          /\ staged.messageFile[m.output] \in Scope(Item.file).visible
      BY <2>2 DEF MessageSeen
    <2>4. MaySee(Whole, Item.file, staged.messageFile[m.input])
          /\ MaySee(Whole, Item.file, staged.messageFile[m.output])
      BY <1>1, <2>3, ScopeSees
    <2>5. MaySee(Whole', Item.file, staged.messageFile[m.input])
          /\ MaySee(Whole', Item.file, staged.messageFile[m.output])
      BY <2>4, SightSees
    <2>6. TypesGood(staged, Total)
      BY DEF StagedTypes
    <2>7. m.input \in 1 .. Len(staged.messages) /\ m.output \in 1 .. Len(staged.messages)
      BY <2>2, <2>6, SeenGood
    <2>8. staged'.messageFile[m.input] = staged.messageFile[m.input]
          /\ staged'.messageFile[m.output] = staged.messageFile[m.output]
      BY <1>2, <2>7 DEF FilesKept
    <2>9. MethodSees(staged', Whole', Item.file, m)
      BY <2>5, <2>8 DEF MethodSees
    <2> QED BY <2>1, <2>9
  <1>8. svc.fullName = Fqn(Item)
    OBVIOUS
  <1> HIDE DEF svc
  <1>9. IsSeq(staged.services)
    BY <1>1 DEF Shape
  <1>10. /\ Len(staged.services) \in Nat
         /\ Len(staged'.services) = Len(staged.services) + 1
         /\ \A i \in 1 .. Len(staged.services) : staged'.services[i] = staged.services[i]
         /\ staged'.services[Len(staged.services) + 1] = svc
    <2>1. Len(staged.services) \in Nat
      BY <1>9, SeqFacts
    <2> QED BY <1>6, <1>9, <2>1, AppendFacts
  <1> SUFFICES ASSUME NEW i \in n + 1 .. Len(staged'.services)
               PROVE  \E f : /\ Claimed(U, staged'.services[i].fullName, f)
                             /\ ServiceSees(staged', Whole', f, staged'.services[i])
    BY DEF ServicesSee
  <1>11. CASE i <= Len(staged.services)
    <2>1. i \in n + 1 .. Len(staged.services) /\ i \in 1 .. Len(staged.services)
      BY <1>10, <1>11
    <2>2. staged'.services[i] = staged.services[i] /\ ServiceGood(staged, staged.services[i])
      BY <1>10, <2>1 DEF ServicesGood
    <2>3. PICK f : /\ Claimed(V, staged.services[i].fullName, f)
                   /\ ServiceSees(staged, Whole, f, staged.services[i])
      BY <2>1 DEF ServicesSee
    <2>4. ServiceSees(staged', Whole', f, staged.services[i])
      BY <1>2, <2>2, <2>3, ServiceSeesOn
    <2> QED BY <2>2, <2>3, <2>4
  <1>12. CASE i > Len(staged.services)
    <2>1. staged'.services[i] = svc
      BY <1>10, <1>12
    <2> QED BY <1>7, <1>8, <2>1
  <1> QED BY <1>10, <1>11, <1>12

\* An extension that comes, of a file that is claimed for it.
LEMMA ExtensionComesSees ==
    ASSUME CallInv, opts.importVisibility, StagedTypes, Shape(staged'), ExtensionComes,
           Sight(Whole, Whole'), NEW n \in Nat, ExtensionsGood(staged, n),
           NEW V, NEW U, ExtensionsSee(staged, Whole, V, n),
           \A s, f : Claimed(V, s, f) => Claimed(U, s, f),
           Claimed(U, Fqn(Item), Item.file)
    PROVE  ExtensionsSee(staged', Whole', U, n)
  <1>1. Shape(staged) /\ todo # <<>> /\ Item.k = "extension" /\ TypesGood(staged, Total)
    BY DEF CallInv, CallOK, ExtensionComes, Visiting, StagedTypes
  <1>2. FilesKept(staged, staged')
    BY <1>1, EffectsKeep DEF Effects
  <1>3. ExtensionAdded(staged, staged', Scope(Item.file), Item.parent, Item.d)
    BY DEF ExtensionComes
  <1>4. Item.d.number \in Int
    BY <1>1, ItemFacts DEF CallInv, ItemOK
  <1>5. PICK fd, extendee :
          /\ staged'.extensions = Append(staged.extensions,
               [fullName |-> Append(Item.parent, Item.d.name), field |-> fd,
                extendee |-> extendee])
          /\ FieldLinked(staged, Scope(Item.file), Item.d, fd)
          /\ MessageSeen(staged, Scope(Item.file), extendee)
    BY <1>3 DEF ExtensionAdded
  <1> DEFINE ext == [fullName |-> Append(Item.parent, Item.d.name), field |-> fd,
                     extendee |-> extendee]
  <1>6. Append(Item.parent, Item.d.name) = Fqn(Item)
    BY DEF Fqn
  <1>7. ext.fullName = Fqn(Item) /\ ext.field = fd /\ ext.extendee = extendee
    BY <1>6
  <1>8. staged'.extensions = Append(staged.extensions, ext)
    BY <1>5
  <1> HIDE DEF ext
  <1>9. FieldSees(staged', Whole', Item.file, fd)
    <2>1. Resolved(staged, Scope(Item.file), fd.kind) /\ fd.number = Item.d.number
      BY <1>5 DEF FieldLinked
    <2>2. FieldSees(staged, Whole, Item.file, fd)
      BY <1>1, <2>1, LinkedSees
    <2>3. FieldGood(staged, fd)
      BY <1>1, <1>4, <1>5, <2>1, LinkedGood
    <2> QED BY <1>2, <2>2, <2>3, FieldSeesOn
  <1>10. MaySee(Whole', Item.file, staged'.messageFile[extendee])
    <2>1. staged.messageFile[extendee] \in Scope(Item.file).visible
      BY <1>5 DEF MessageSeen
    <2>2. MaySee(Whole, Item.file, staged.messageFile[extendee])
      BY <1>1, <2>1, ScopeSees
    <2>3. extendee \in 1 .. Len(staged.messages)
      BY <1>1, <1>5, SeenGood
    <2>4. staged'.messageFile[extendee] = staged.messageFile[extendee]
      BY <1>2, <2>3 DEF FilesKept
    <2> QED BY <2>2, <2>4, SightSees
  <1>11. ExtensionSees(staged', Whole', Item.file, ext)
    BY <1>7, <1>9, <1>10 DEF ExtensionSees
  <1>12. IsSeq(staged.extensions)
    BY <1>1 DEF Shape
  <1>13. /\ Len(staged.extensions) \in Nat
         /\ Len(staged'.extensions) = Len(staged.extensions) + 1
         /\ \A i \in 1 .. Len(staged.extensions) :
               staged'.extensions[i] = staged.extensions[i]
         /\ staged'.extensions[Len(staged.extensions) + 1] = ext
    <2>1. Len(staged.extensions) \in Nat
      BY <1>12, SeqFacts
    <2> QED BY <1>8, <1>12, <2>1, AppendFacts
  <1> SUFFICES ASSUME NEW i \in n + 1 .. Len(staged'.extensions)
               PROVE  \E f : /\ Claimed(U, staged'.extensions[i].fullName, f)
                             /\ ExtensionSees(staged', Whole', f, staged'.extensions[i])
    BY DEF ExtensionsSee
  <1>14. CASE i <= Len(staged.extensions)
    <2>1. i \in n + 1 .. Len(staged.extensions) /\ i \in 1 .. Len(staged.extensions)
      BY <1>13, <1>14
    <2>2. /\ staged'.extensions[i] = staged.extensions[i]
          /\ ExtensionGood(staged, staged.extensions[i].field, staged.extensions[i].extendee)
      BY <1>13, <2>1 DEF ExtensionsGood
    <2>3. PICK f : /\ Claimed(V, staged.extensions[i].fullName, f)
                   /\ ExtensionSees(staged, Whole, f, staged.extensions[i])
      BY <2>1 DEF ExtensionsSee
    <2>4. ExtensionSees(staged', Whole', f, staged.extensions[i])
      BY <1>2, <2>2, <2>3, ExtensionSeesOn
    <2> QED BY <2>2, <2>3, <2>4
  <1>15. CASE i > Len(staged.extensions)
    <2>1. staged'.extensions[i] = ext
      BY <1>13, <1>15
    <2> QED BY <1>7, <1>11, <2>1
  <1> QED BY <1>13, <1>14, <1>15

\* Fields whose enum types are settled refer to what they did.
LEMMA FinalSees ==
    ASSUME NEW P, NEW Q, FilesKept(P, Q), NEW W, NEW X, Sight(W, X), NEW file, NEW fields,
           NEW final, FinalFields(P, fields, final),
           \A j \in 1 .. Len(fields) :
              DOMAIN fields[j] = FieldFields /\ FieldGood(P, fields[j]),
           MessageSees(P, W, file, fields)
    PROVE  MessageSees(Q, X, file, final)
  <1> SUFFICES ASSUME NEW j \in 1 .. Len(final)
               PROVE  FieldSees(Q, X, file, final[j])
    BY DEF MessageSees
  <1>1. j \in 1 .. Len(fields) /\ final[j] = FinalField(P, fields[j])
    BY DEF FinalFields
  <1>2. DOMAIN fields[j] = FieldFields /\ FieldGood(P, fields[j])
    BY <1>1
  <1>3. FieldSees(P, W, file, fields[j])
    BY <1>1 DEF MessageSees
  <1>4. FieldSees(Q, X, file, fields[j])
    BY <1>2, <1>3, FieldSeesOn
  <1>5. final[j].kind = fields[j].kind
    BY <1>1, <1>2, FinalFieldFacts DEF SameField
  <1> QED BY <1>4, <1>5 DEF FieldSees

LEMMA SettledSees ==
    ASSUME NEW P, Shape(P), NEW Q, NEW W, NEW X, Sight(W, X),
           NEW n \in Nat, NEW k \in Nat, Settled(P, Q, n + 1, k + 1),
           MessagesGood(P, n), ExtensionsGood(P, k),
           NEW V, MessagesSee(P, W, n), ExtensionsSee(P, W, V, k)
    PROVE  MessagesSee(Q, X, n) /\ ExtensionsSee(Q, X, V, k)
  <1>1. FilesKept(P, Q)
    BY SameFilesKept DEF Settled
  <1>2. /\ Len(P.messages) \in Nat /\ Len(P.extensions) \in Nat
        /\ Len(Q.messages) = Len(P.messages) /\ Len(Q.extensions) = Len(P.extensions)
        /\ Q.messageFile = P.messageFile
    BY ShapeLens DEF Settled
  <1>3. MessagesSee(Q, X, n)
    <2> SUFFICES ASSUME NEW i \in n + 1 .. Len(Q.messages)
                 PROVE  MessageSees(Q, X, Q.messageFile[i], Q.messages[i].fields)
      BY DEF MessagesSee
    <2>1. i \in n + 1 .. Len(P.messages) /\ i \in 1 .. Len(P.messages) /\ ~ (i < n + 1)
      BY <1>2
    <2>2. FinalFields(P, P.messages[i].fields, Q.messages[i].fields)
      BY <2>1 DEF Settled
    <2>3. MessageShape(P.messages[i]) /\ MessageGood(P, P.messages[i])
      BY <2>1 DEF Shape, MessagesGood
    <2>4. \A j \in 1 .. Len(P.messages[i].fields) :
             /\ DOMAIN P.messages[i].fields[j] = FieldFields
             /\ FieldGood(P, P.messages[i].fields[j])
      BY <2>3 DEF MessageShape, MessageGood, FieldsGood
    <2>5. MessageSees(P, W, P.messageFile[i], P.messages[i].fields)
      BY <2>1 DEF MessagesSee
    <2>6. MessageSees(Q, X, P.messageFile[i], Q.messages[i].fields)
      BY <1>1, <2>2, <2>4, <2>5, FinalSees
    <2> QED BY <1>2, <2>6
  <1>4. ExtensionsSee(Q, X, V, k)
    <2> SUFFICES ASSUME NEW i \in k + 1 .. Len(Q.extensions)
                 PROVE  \E f : /\ Claimed(V, Q.extensions[i].fullName, f)
                               /\ ExtensionSees(Q, X, f, Q.extensions[i])
      BY DEF ExtensionsSee
    <2>1. i \in k + 1 .. Len(P.extensions) /\ i \in 1 .. Len(P.extensions) /\ ~ (i < k + 1)
      BY <1>2
    <2> DEFINE x == P.extensions[i]
               y == Q.extensions[i]
    <2>2. y.fullName = x.fullName /\ y.extendee = x.extendee /\ y.field = FinalField(P, x.field)
      BY <2>1 DEF Settled
    <2>3. DOMAIN x.field = FieldFields
      BY <2>1 DEF Shape, ExtensionShape
    <2>4. ExtensionGood(P, x.field, x.extendee)
      BY <2>1 DEF ExtensionsGood
    <2>5. PICK f : Claimed(V, x.fullName, f) /\ ExtensionSees(P, W, f, x)
      BY <2>1 DEF ExtensionsSee
    <2> HIDE DEF x, y
    <2>6. ExtensionSees(Q, X, f, x)
      BY <1>1, <2>4, <2>5, ExtensionSeesOn
    <2>7. y.field.kind = x.field.kind
      BY <2>2, <2>3, FinalFieldFacts DEF SameField
    <2>8. ExtensionSees(Q, X, f, y)
      BY <2>2, <2>6, <2>7 DEF ExtensionSees, FieldSees
    <2> QED BY <2>2, <2>5, <2>8 DEF x, y
  <1> QED BY <1>3, <1>4

\* The new definitions refer to what their files may see.  The file of a
\* service or an extension is the one that the items V claim for its name.
SeenOf(V) ==
    /\ MessagesSee(staged, Whole, Len(pool.messages))
    /\ ExtensionsSee(staged, Whole, V, Len(pool.extensions))
    /\ ServicesSee(staged, Whole, V, Len(pool.services))

LEMMA MessagesWalkSees ==
    ASSUME CallInv, opts.importVisibility, StagedTypes, Shape(staged), Shape(staged'),
           Effects, Sight(Whole, Whole'), NEW n \in Nat, MessagesGood(staged, n),
           MessagesSee(staged, Whole, n)
    PROVE  MessagesSee(staged', Whole', n)
  <1>1. FilesKept(staged, staged')
    BY EffectsKeep
  <1>2. CASE MessageComes
    BY <1>2, MessageComesSees
  <1>3. ASSUME NEW fields, MessageGets(fields) PROVE MessagesSee(staged', Whole', n)
    BY <1>3, MessageGetsSees
  <1>4. ASSUME EnumComes \/ EnumGets \/ ServiceComes \/ ExtensionComes \/ NestedOpens \/ ItemOwned
        PROVE  MessagesSee(staged', Whole', n)
    <2>1. staged'.messages = staged.messages /\ staged'.messageFile = staged.messageFile
      <3>1. CASE EnumComes
        BY <3>1 DEF EnumComes, EnumAdded
      <3>2. CASE EnumGets
        BY <3>2 DEF EnumGets, EnumPut
      <3>3. CASE ServiceComes
        BY <3>3 DEF ServiceComes, ServiceAdded, SameTypes
      <3>4. CASE ExtensionComes
        BY <3>4 DEF ExtensionComes, ExtensionAdded, SameTypes
      <3>5. CASE NestedOpens
        BY <3>5 DEF NestedOpens
      <3>6. CASE ItemOwned
        BY <3>6 DEF ItemOwned, SymbolsIndexed, SameTypes
      <3> QED BY <1>4, <3>1, <3>2, <3>3, <3>4, <3>5, <3>6
    <2> QED BY <1>1, <2>1, MessagesSeeOn
  <1> QED BY <1>2, <1>3, <1>4 DEF Effects

\* The item itself claims the name of its service or extension.
LEMMA OwnGain ==
    ASSUME pass = "services", todo # <<>>, Item.k \in {"service", "extension"}
    PROVE  Fqn(Item) \in Gains(pass, Item)
  BY DEF Gains, MadeBy

LEMMA SeenWalk ==
    ASSUME BaseInv, opts.importVisibility, StagedTypes, StagedDefs, PoolOwners(pool),
           NEW V, OwnersOf(V), SeenOf(V), Walks
    PROVE  \E W : OwnersOf(W)' /\ SeenOf(W)'
  <1>1. CallInv /\ CallOK /\ Shape(pool) /\ Shape(staged) /\ NamesTyped(staged)
    BY DEF BaseInv, CallInv, RoundsOK, CallOK, PoolsTyped
  <1>2. todo # <<>> /\ pass' = pass /\ news' = news /\ pool' = pool
    BY <1>1, WalkTodo
  <1>3. Effects
    BY <1>1, WalkEffects
  <1>4. Shape(staged') /\ staged'.files = staged.files
    BY <1>1, <1>3, WalkShape
  <1>5. /\ \/ DefsSame(staged, staged')
           \/ ServiceComes \/ ExtensionComes
        /\ staged'.fileByName = staged.fileByName
    BY <1>1, <1>3, DefsEffects
  <1>6. Sight(Whole, Whole') /\ FilesKept(staged, staged')
    BY <1>1, <1>2, <1>3, <1>4, <1>5, SightStays, EffectsKeep
  <1>7. PICK W : /\ OwnersOf(W)'
                 /\ \A s, f : Claimed(V, s, f) => Claimed(W, s, f)
                 /\ \A s \in Gains(pass, Item) : Claimed(W, s, Item.file)
    BY OwnersWalk
  <1> DEFINE n == Len(pool.messages)
             k == Len(pool.extensions)
             l == Len(pool.services)
  <1>8. n \in Nat /\ k \in Nat /\ l \in Nat
    BY <1>1, ShapeLens
  <1>9. MessagesGood(staged, n) /\ ExtensionsGood(staged, k) /\ ServicesGood(staged, l)
    BY DEF StagedDefs
  <1>10. /\ MessagesSee(staged, Whole, n) /\ ExtensionsSee(staged, Whole, V, k)
         /\ ServicesSee(staged, Whole, V, l)
    BY DEF SeenOf
  <1> HIDE DEF n, k, l
  <1>11. MessagesSee(staged', Whole', n)
    BY <1>1, <1>3, <1>4, <1>6, <1>8, <1>9, <1>10, MessagesWalkSees
  <1>12. ExtensionsSee(staged', Whole', W, k)
    <2>1. ASSUME ExtensionComes PROVE ExtensionsSee(staged', Whole', W, k)
      <3>1. Claimed(W, Fqn(Item), Item.file)
        BY <1>7, <2>1, OwnGain DEF ExtensionComes, Visiting
      <3> QED BY <1>1, <1>4, <1>6, <1>7, <1>8, <1>9, <1>10, <2>1, <3>1, ExtensionComesSees
    <2>2. ASSUME DefsSame(staged, staged') \/ ServiceComes
          PROVE  ExtensionsSee(staged', Whole', W, k)
      <3>1. staged'.extensions = staged.extensions
        BY <2>2 DEF DefsSame, ServiceComes, ServiceAdded, SameExtensions
      <3> QED BY <1>6, <1>7, <1>9, <1>10, <3>1, ExtensionsSeeOn
    <2> QED BY <1>5, <2>1, <2>2
  <1>13. ServicesSee(staged', Whole', W, l)
    <2>1. ASSUME ServiceComes PROVE ServicesSee(staged', Whole', W, l)
      <3>1. Claimed(W, Fqn(Item), Item.file)
        BY <1>7, <2>1, OwnGain DEF ServiceComes, Visiting
      <3> QED BY <1>1, <1>4, <1>6, <1>7, <1>8, <1>9, <1>10, <2>1, <3>1, ServiceComesSees
    <2>2. ASSUME DefsSame(staged, staged') \/ ExtensionComes
          PROVE  ServicesSee(staged', Whole', W, l)
      <3>1. staged'.services = staged.services
        BY <2>2 DEF DefsSame, ExtensionComes, ExtensionAdded, SameServices
      <3> QED BY <1>6, <1>7, <1>9, <1>10, <3>1, ServicesSeeOn
    <2> QED BY <1>5, <2>1, <2>2
  <1>14. SeenOf(W)'
    BY <1>2, <1>11, <1>12, <1>13 DEF SeenOf, n, k, l
  <1> QED BY <1>7, <1>14

LEMMA SeenSwitch ==
    ASSUME BaseInv, StagedTypes, StagedDefs, NEW V, SeenOf(V), Switches
    PROVE  SeenOf(V)'
  <1>1. pool' = pool /\ news' = news
    BY DEF Switches, TypesRegistered, TypesLinked, FieldsFinal
  <1>2. Shape(pool) /\ Shape(staged)
    BY DEF BaseInv, CallInv, RoundsOK, CallOK
  <1>3. CASE TypesRegistered \/ TypesLinked
    <2>1. staged' = staged
      BY <1>3 DEF TypesRegistered, TypesLinked
    <2>2. Whole' = Whole
      BY <1>1, <2>1 DEF Whole
    <2> QED BY <1>1, <2>1, <2>2 DEF SeenOf
  <1>4. CASE FieldsFinal
    <2>1. staged' = Finalized(staged, Len(pool.messages) + 1, Len(pool.extensions) + 1)
      BY <1>4 DEF FieldsFinal
    <2>2. Settled(staged, staged', Len(pool.messages) + 1, Len(pool.extensions) + 1)
      BY <1>2, <2>1, FinalizedFacts
    <2>3. Shape(staged') /\ staged'.files = staged.files
          /\ staged'.fileByName = staged.fileByName /\ staged'.services = staged.services
      BY <2>2 DEF Settled, SameFiles, SameServices
    <2>4. Sight(Whole, Whole')
      BY <1>1, <1>2, <2>3, SightStays
    <2>5. FilesKept(staged, staged')
      BY <2>2, SameFilesKept DEF Settled
    <2> DEFINE n == Len(pool.messages)
               k == Len(pool.extensions)
               l == Len(pool.services)
    <2>6. n \in Nat /\ k \in Nat /\ Settled(staged, staged', n + 1, k + 1)
      BY <1>2, <2>2, ShapeLens
    <2>7. MessagesGood(staged, n) /\ ExtensionsGood(staged, k) /\ ServicesGood(staged, l)
      BY DEF StagedDefs
    <2>8. /\ MessagesSee(staged, Whole, n) /\ ExtensionsSee(staged, Whole, V, k)
          /\ ServicesSee(staged, Whole, V, l)
      BY DEF SeenOf
    <2> HIDE DEF n, k, l
    <2>9. MessagesSee(staged', Whole', n) /\ ExtensionsSee(staged', Whole', V, k)
      BY <1>2, <2>4, <2>6, <2>7, <2>8, SettledSees
    <2>10. ServicesSee(staged', Whole', V, l)
      BY <2>3, <2>4, <2>5, <2>7, <2>8, ServicesSeeOn
    <2> QED BY <1>1, <2>9, <2>10 DEF SeenOf, n, k, l
  <1> QED BY <1>3, <1>4 DEF Switches

\* A call begins with the definitions that the pool has.
LEMMA SeenBegun ==
    ASSUME BaseInv, Begun, NEW V
    PROVE  SeenOf(V)'
  <1>1. staged' = WithFiles(pool, news') /\ pool' = pool /\ Shape(pool)
    BY DEF Begun, BaseInv, CallInv, RoundsOK
  <1>2. FilesNamed(pool, staged', news')
    BY <1>1, WithFilesFacts
  <1>3. /\ staged'.messages = pool.messages /\ staged'.extensions = pool.extensions
        /\ staged'.services = pool.services
    BY <1>2 DEF FilesNamed, SameTypes, SameExtensions, SameServices
  <1>4. /\ Len(pool.messages) \in Nat /\ Len(pool.extensions) \in Nat
        /\ Len(pool.services) \in Nat
    BY <1>1, ShapeLens
  <1>5. /\ MessagesSee(staged', Whole', Len(pool.messages))
        /\ ExtensionsSee(staged', Whole', V, Len(pool.extensions))
        /\ ServicesSee(staged', Whole', V, Len(pool.services))
    BY <1>3, <1>4 DEF MessagesSee, ExtensionsSee, ServicesSee
  <1> QED BY <1>1, <1>5 DEF SeenOf

(***************************************************************************)
(* What the definitions of a pool may see, they may see when it has more   *)
(* files.                                                                  *)
(***************************************************************************)
\* P's files are those of Q too, by the same numbers and names.
SightKept(P, Q) ==
    /\ Len(P.files) <= Len(Q.files)
    /\ \A i \in 1 .. Len(P.files) : Q.files[i] = P.files[i]
    /\ \A n \in DOMAIN P.fileByName :
          n \in DOMAIN Q.fileByName /\ Q.fileByName[n] = P.fileByName[n]

LEMMA KnownGrows ==
    ASSUME NEW P, NEW Q, SightKept(P, Q), NamesFiles(P), NEW names
    PROVE  Known(P, names) \subseteq Known(Q, names) \cap 1 .. Len(P.files)
  BY DEF SightKept, NamesFiles, Known

LEMMA MaySeeGrows ==
    ASSUME NEW P, Shape(P), NEW Q, Shape(Q), SightKept(P, Q), NamesFiles(P),
           NEW a \in 1 .. Len(P.files), NEW b, MaySee(P, a, b)
    PROVE  MaySee(Q, a, b)
  <1>1. /\ DOMAIN P.files = 1 .. Len(P.files) /\ DOMAIN Q.files = 1 .. Len(Q.files)
        /\ Len(P.files) \in Nat /\ Len(Q.files) \in Nat
    BY ShapeLens
  <1>2. \A i \in 1 .. Len(P.files) : Q.files[i] = P.files[i]
    BY DEF SightKept
  <1> SUFFICES ASSUME a # b, NEW S \in SUBSET DOMAIN Q.files,
                      Known(Q, Range(Q.files[a].deps)) \subseteq S,
                      \A i \in S : Public(Q, i) \subseteq S
               PROVE  b \in S
    BY DEF MaySee
  <1> DEFINE T == S \cap 1 .. Len(P.files)
  <1>3. T \in SUBSET DOMAIN P.files
    BY <1>1
  <1>4. Known(P, Range(P.files[a].deps)) \subseteq T
    <2>1. Known(P, Range(P.files[a].deps))
            \subseteq Known(Q, Range(P.files[a].deps)) \cap 1 .. Len(P.files)
      BY KnownGrows
    <2>2. Known(Q, Range(P.files[a].deps)) \subseteq S
      BY <1>2
    <2> QED BY <2>1, <2>2
  <1>5. ASSUME NEW i \in T PROVE Public(P, i) \subseteq T
    <2> DEFINE names == {P.files[i].deps[p] : p \in Range(P.files[i].public)}
    <2>1. Q.files[i] = P.files[i]
      BY <1>2
    <2>2. Public(P, i) = Known(P, names) /\ Public(Q, i) = Known(Q, names)
      BY <2>1 DEF Public
    <2> HIDE DEF names
    <2>3. Known(P, names) \subseteq Known(Q, names) \cap 1 .. Len(P.files)
      BY KnownGrows
    <2>4. Public(Q, i) \subseteq S
      OBVIOUS
    <2> QED BY <2>2, <2>3, <2>4
  <1> HIDE DEF T
  <1>6. b \in T
    BY <1>3, <1>4, <1>5 DEF MaySee
  <1> QED BY <1>6 DEF T

\* What file sees in W, it sees in X.
Sees(W, X, file) == \A b : MaySee(W, file, b) => MaySee(X, file, b)

LEMMA SeesMore ==
    ASSUME NEW P, NEW W, NEW X, NEW file, Sees(W, X, file)
    PROVE  /\ \A fields : MessageSees(P, W, file, fields) => MessageSees(P, X, file, fields)
           /\ \A x : ExtensionSees(P, W, file, x) => ExtensionSees(P, X, file, x)
           /\ \A s : ServiceSees(P, W, file, s) => ServiceSees(P, X, file, s)
  <1>1. \A fd : FieldSees(P, W, file, fd) => FieldSees(P, X, file, fd)
    BY DEF Sees, FieldSees
  <1>2. \A m : MethodSees(P, W, file, m) => MethodSees(P, X, file, m)
    BY DEF Sees, MethodSees
  <1>3. \A fields : MessageSees(P, W, file, fields) => MessageSees(P, X, file, fields)
    BY <1>1 DEF MessageSees
  <1>4. \A x : ExtensionSees(P, W, file, x) => ExtensionSees(P, X, file, x)
    BY <1>1 DEF Sees, ExtensionSees
  <1>5. \A s : ServiceSees(P, W, file, s) => ServiceSees(P, X, file, s)
    BY <1>2 DEF ServiceSees
  <1> QED BY <1>3, <1>4, <1>5

\* The file that a pool has for a name.
OwnFile(P, name) == P.symbolFile[name]
PoolSees(P) ==
    /\ \A i \in 1 .. Len(P.messages) :
          MessageSees(P, P, P.messageFile[i], P.messages[i].fields)
    /\ \A i \in 1 .. Len(P.extensions) :
          ExtensionSees(P, P, OwnFile(P, P.extensions[i].fullName), P.extensions[i])
    /\ \A i \in 1 .. Len(P.services) :
          /\ P.services[i].fullName \in DOMAIN P.symbols
          /\ ServiceSees(P, P, OwnFile(P, P.services[i].fullName), P.services[i])

\* A pool that has more files and definitions.
More(P, Q) ==
    /\ Shape(P) /\ Shape(Q) /\ SightKept(P, Q) /\ NamesFiles(P)
    /\ OldTypes(P, Q) /\ OldDefs(P, Q)
    /\ \A s \in DOMAIN P.symbolFile : Q.symbolFile[s] = P.symbolFile[s]
    /\ TypesGood(P, Len(P.files)) /\ TablesGood(P) /\ PoolDefs(P) /\ PoolOwners(P)

LEMMA OldKept ==
    ASSUME NEW P, NEW Q, More(P, Q)
    PROVE  /\ FilesKept(P, Q) /\ Sight(P, P)
           /\ \A a \in 1 .. Len(P.files) : Sees(P, Q, a)
  <1>1. FilesKept(P, Q) /\ Sight(P, P)
    BY DEF More, OldTypes, FilesKept, Sight
  <1>2. ASSUME NEW a \in 1 .. Len(P.files) PROVE Sees(P, Q, a)
    BY MaySeeGrows DEF More, Sees
  <1> QED BY <1>1, <1>2

LEMMA OldMessageSees ==
    ASSUME NEW P, NEW Q, More(P, Q), PoolSees(P), NEW i \in 1 .. Len(P.messages)
    PROVE  MessageSees(Q, Q, Q.messageFile[i], Q.messages[i].fields)
  <1>1. Q.messages[i] = P.messages[i] /\ Q.messageFile[i] = P.messageFile[i]
    BY DEF More, OldTypes
  <1>2. Len(P.messages) \in Nat
    BY ShapeLens DEF More
  <1>3. MessageGood(P, P.messages[i]) /\ P.messageFile[i] \in 1 .. Len(P.files)
    BY <1>2 DEF More, PoolDefs, MessagesGood, TypesGood
  <1>4. MessageSees(P, P, P.messageFile[i], P.messages[i].fields)
    BY DEF PoolSees
  <1>5. FilesKept(P, Q) /\ Sight(P, P) /\ Sees(P, Q, P.messageFile[i])
    BY <1>3, OldKept
  <1>6. MessageSees(Q, P, P.messageFile[i], P.messages[i].fields)
    BY <1>3, <1>4, <1>5, MessageSeesOn
  <1>7. MessageSees(Q, Q, P.messageFile[i], P.messages[i].fields)
    BY <1>5, <1>6, SeesMore
  <1> QED BY <1>1, <1>7

LEMMA OldExtensionSees ==
    ASSUME NEW P, NEW Q, More(P, Q), PoolSees(P), NEW i \in 1 .. Len(P.extensions)
    PROVE  ExtensionSees(Q, Q, OwnFile(Q, Q.extensions[i].fullName), Q.extensions[i])
  <1> DEFINE x == P.extensions[i]
             file == OwnFile(P, x.fullName)
  <1>1. Q.extensions[i] = x
    BY DEF More, OldDefs
  <1>2. Len(P.extensions) \in Nat
    BY ShapeLens DEF More
  <1>3. ExtensionGood(P, x.field, x.extendee)
    BY <1>2 DEF More, PoolDefs, ExtensionsGood
  <1>4. x.fullName \in DOMAIN P.symbolFile
    BY DEF More, TablesGood, IndexedAs, PoolOwners
  <1>5. file \in 1 .. Len(P.files) /\ OwnFile(Q, x.fullName) = file
    BY <1>4 DEF More, PoolOwners, OwnFile
  <1>6. ExtensionSees(P, P, file, x)
    BY DEF PoolSees
  <1> HIDE DEF x, file
  <1>7. FilesKept(P, Q) /\ Sight(P, P) /\ Sees(P, Q, file)
    BY <1>5, OldKept
  <1>8. ExtensionSees(Q, P, file, x)
    BY <1>3, <1>6, <1>7, ExtensionSeesOn
  <1>9. ExtensionSees(Q, Q, file, x)
    BY <1>7, <1>8, SeesMore
  <1> QED BY <1>1, <1>5, <1>9

LEMMA OldServiceSees ==
    ASSUME NEW P, NEW Q, More(P, Q), PoolSees(P), NEW i \in 1 .. Len(P.services)
    PROVE  /\ Q.services[i].fullName \in DOMAIN Q.symbols
           /\ ServiceSees(Q, Q, OwnFile(Q, Q.services[i].fullName), Q.services[i])
  <1> DEFINE s == P.services[i]
             file == OwnFile(P, s.fullName)
  <1>1. Q.services[i] = s
    BY DEF More, OldDefs
  <1>2. Len(P.services) \in Nat
    BY ShapeLens DEF More
  <1>3. ServiceGood(P, s)
    BY <1>2 DEF More, PoolDefs, ServicesGood
  <1>4. s.fullName \in DOMAIN P.symbols /\ ServiceSees(P, P, file, s)
    BY DEF PoolSees
  <1>5. s.fullName \in DOMAIN P.symbolFile /\ s.fullName \in DOMAIN Q.symbols
    BY <1>4 DEF More, PoolOwners, OldTypes
  <1>6. file \in 1 .. Len(P.files) /\ OwnFile(Q, s.fullName) = file
    BY <1>5 DEF More, PoolOwners, OwnFile
  <1> HIDE DEF s, file
  <1>7. FilesKept(P, Q) /\ Sight(P, P) /\ Sees(P, Q, file)
    BY <1>6, OldKept
  <1>8. ServiceSees(Q, P, file, s)
    BY <1>3, <1>4, <1>7, ServiceSeesOn
  <1>9. ServiceSees(Q, Q, file, s)
    BY <1>7, <1>8, SeesMore
  <1> QED BY <1>1, <1>5, <1>6, <1>9

\* The files of the pool are in the staged pool; no file goes by no name.
NoAbsent(P) == Absent \notin DOMAIN P.fileByName
StagedSight ==
    /\ NoAbsent(staged)
    /\ \A n \in DOMAIN pool.fileByName :
          n \in DOMAIN staged.fileByName /\ staged.fileByName[n] = pool.fileByName[n]
StagedSeen == \E V : OwnersOf(V) /\ SeenOf(V)
SeenInv ==
    /\ NoAbsent(pool) /\ NoAbsent(past.before)
    /\ opts.importVisibility => PoolSees(pool) /\ PoolSees(past.before)
    /\ pass # "idle" => StagedSight /\ (opts.importVisibility => StagedSeen)

LEMMA WholeKeeps ==
    ASSUME BaseInv
    PROVE  /\ Shape(Whole) /\ SameTypes(staged, Whole) /\ SameServices(staged, Whole)
           /\ SameExtensions(staged, Whole) /\ Whole.symbols = staged.symbols
           /\ Whole.symbolFile = staged.symbolFile /\ Whole.fileByName = staged.fileByName
           /\ Len(Whole.files) = Len(staged.files) + Len(news)
           /\ \A i \in 1 .. Len(staged.files) : Whole.files[i] = staged.files[i]
           /\ Len(staged.files) \in Nat /\ Len(news) \in Nat
  <1>1. Shape(staged) /\ IsSeq(news)
    BY SeqOver DEF BaseInv, CallInv, CallOK
  <1>2. FilesAdded(staged, Whole, news)
    BY <1>1, WholeFacts
  <1>3. Len(staged.files) \in Nat /\ Len(news) \in Nat
    BY <1>1, ShapeLens, SeqFacts
  <1> QED BY <1>2, <1>3 DEF FilesAdded

\* The pool of a call that ends well has all that the pool had.
LEMMA WholeMore ==
    ASSUME BaseInv, TypesInv, TablesInv, DefsInv, OwnersInv, StagedSight, pass # "idle"
    PROVE  More(pool, Whole)
  <1>1. Shape(pool) /\ Shape(staged) /\ staged.files = pool.files
    BY DEF BaseInv, CallInv, RoundsOK, CallOK
  <1>2. /\ Shape(Whole) /\ SameTypes(staged, Whole) /\ SameServices(staged, Whole)
        /\ SameExtensions(staged, Whole) /\ Whole.symbols = staged.symbols
        /\ Whole.symbolFile = staged.symbolFile /\ Whole.fileByName = staged.fileByName
        /\ Len(Whole.files) = Len(staged.files) + Len(news)
        /\ \A i \in 1 .. Len(staged.files) : Whole.files[i] = staged.files[i]
        /\ Len(staged.files) \in Nat /\ Len(news) \in Nat
    BY WholeKeeps
  <1>3. SightKept(pool, Whole)
    BY <1>1, <1>2 DEF SightKept, StagedSight
  <1>4. OldTypes(pool, Whole)
    <2>1. OldTypes(pool, staged)
      BY DEF TypesInv, StagedTypes
    <2> QED BY <1>1, <1>2, <2>1, SameOld
  <1>5. OldDefs(pool, Whole)
    <2>1. OldDefs(pool, staged)
      BY DEF TablesInv, StagedTables
    <2> QED BY <1>2, <2>1 DEF OldDefs, SameServices, SameExtensions
  <1>6. \A s \in DOMAIN pool.symbolFile : Whole.symbolFile[s] = pool.symbolFile[s]
    <2>1. PICK V : OwnersOf(V)
      BY DEF OwnersInv, StagedOwners
    <2>2. Filed(pool, staged, V, V["index"])
      BY <2>1 DEF OwnersOf
    <2> QED BY <1>2, <2>2 DEF Filed
  <1>7. /\ NamesFiles(pool) /\ TypesGood(pool, Len(pool.files)) /\ TablesGood(pool)
        /\ PoolDefs(pool) /\ PoolOwners(pool)
    BY DEF TypesInv, PoolTypes, TablesInv, PoolTables, DefsInv, OwnersInv
  <1> QED BY <1>1, <1>2, <1>3, <1>4, <1>5, <1>6, <1>7 DEF More

\* The file that the new pool has for a new definition is the claimed one.
LEMMA ClaimedOwn ==
    ASSUME BaseInv, PoolOwners(pool), pass = "index", todo = <<>>,
           NEW V, OwnersOf(V), NEW s, NEW f, Claimed(V, s, f)
    PROVE  OwnFile(Whole, s) = f /\ s \in DOMAIN Whole.symbols
  <1>1. Whole.symbols = staged.symbols /\ Whole.symbolFile = staged.symbolFile
    BY WholeKeeps
  <1>2. Owned(pool, staged, V) /\ Filed(pool, staged, V, V["index"])
    BY DEF OwnersOf
  <1>3. s \in DOMAIN staged.symbols /\ s \notin DOMAIN pool.symbols
    BY <1>2 DEF Owned
  <1>4. s \in DOMAIN staged.symbolFile /\ s \notin DOMAIN pool.symbolFile
    BY <1>3, FiledAll DEF BaseInv, PoolOwners
  <1>5. Claimed(V, s, staged.symbolFile[s])
    BY <1>2, <1>4 DEF Filed
  <1>6. staged.symbolFile[s] = f
    BY <1>2, <1>5 DEF Owned
  <1> QED BY <1>1, <1>3, <1>6 DEF OwnFile

LEMMA NewDefsSee ==
    ASSUME BaseInv, StagedDefs, PoolOwners(pool), pass = "index", todo = <<>>,
           NEW V, OwnersOf(V), SeenOf(V)
    PROVE  /\ \A i \in Len(pool.messages) + 1 .. Len(Whole.messages) :
                 MessageSees(Whole, Whole, Whole.messageFile[i], Whole.messages[i].fields)
           /\ \A i \in Len(pool.extensions) + 1 .. Len(Whole.extensions) :
                 ExtensionSees(Whole, Whole, OwnFile(Whole, Whole.extensions[i].fullName),
                               Whole.extensions[i])
           /\ \A i \in Len(pool.services) + 1 .. Len(Whole.services) :
                 /\ Whole.services[i].fullName \in DOMAIN Whole.symbols
                 /\ ServiceSees(Whole, Whole, OwnFile(Whole, Whole.services[i].fullName),
                                Whole.services[i])
  <1>1. SameTypes(staged, Whole) /\ SameServices(staged, Whole) /\ SameExtensions(staged, Whole)
    BY WholeKeeps
  <1>2. /\ Whole.messages = staged.messages /\ Whole.messageFile = staged.messageFile
        /\ Whole.extensions = staged.extensions /\ Whole.services = staged.services
        /\ FilesKept(staged, Whole)
    BY <1>1, SameFilesKept DEF SameTypes, SameServices, SameExtensions
  <1>3. Sight(Whole, Whole)
    BY DEF Sight
  <1> DEFINE n == Len(pool.messages)
             k == Len(pool.extensions)
             l == Len(pool.services)
             W == Whole
  <1>4. MessagesGood(staged, n) /\ ExtensionsGood(staged, k) /\ ServicesGood(staged, l)
    BY DEF StagedDefs
  <1>5. MessagesSee(staged, W, n) /\ ExtensionsSee(staged, W, V, k) /\ ServicesSee(staged, W, V, l)
    BY DEF SeenOf
  <1>6. \A s, f : Claimed(V, s, f) => OwnFile(W, s) = f /\ s \in DOMAIN W.symbols
    BY ClaimedOwn
  <1> HIDE DEF n, k, l, W
  <1>7. /\ W.messages = staged.messages /\ W.messageFile = staged.messageFile
        /\ W.extensions = staged.extensions /\ W.services = staged.services
        /\ FilesKept(staged, W) /\ Sight(W, W)
    BY <1>2, <1>3 DEF W
  <1>8. MessagesSee(W, W, n)
    BY <1>4, <1>5, <1>7, MessagesSeeOn
  <1>9. ExtensionsSee(W, W, V, k)
    BY <1>4, <1>5, <1>7, ExtensionsSeeOn
  <1>10. ServicesSee(W, W, V, l)
    BY <1>4, <1>5, <1>7, ServicesSeeOn
  <1>11. \A i \in n + 1 .. Len(W.messages) :
            MessageSees(W, W, W.messageFile[i], W.messages[i].fields)
    BY <1>8 DEF MessagesSee
  <1>12. \A i \in k + 1 .. Len(W.extensions) :
            ExtensionSees(W, W, OwnFile(W, W.extensions[i].fullName), W.extensions[i])
    BY <1>6, <1>9 DEF ExtensionsSee
  <1>13. \A i \in l + 1 .. Len(W.services) :
            /\ W.services[i].fullName \in DOMAIN W.symbols
            /\ ServiceSees(W, W, OwnFile(W, W.services[i].fullName), W.services[i])
    BY <1>6, <1>10 DEF ServicesSee
  <1> QED BY <1>11, <1>12, <1>13 DEF n, k, l, W

LEMMA SeenWhole ==
    ASSUME BaseInv, TypesInv, TablesInv, DefsInv, OwnersInv, SeenInv, Committed,
           opts.importVisibility
    PROVE  PoolSees(Whole)
  <1>1. pass = "index" /\ todo = <<>>
    BY DEF Committed
  <1>2. StagedSight /\ StagedSeen /\ PoolSees(pool) /\ PoolOwners(pool) /\ StagedDefs
    BY <1>1 DEF SeenInv, OwnersInv, DefsInv
  <1>3. PICK V : OwnersOf(V) /\ SeenOf(V)
    BY <1>2 DEF StagedSeen
  <1>4. More(pool, Whole)
    BY <1>1, <1>2, WholeMore
  <1> DEFINE n == Len(pool.messages)
             k == Len(pool.extensions)
             l == Len(pool.services)
             W == Whole
             P == pool
  <1>5. /\ \A i \in n + 1 .. Len(W.messages) :
              MessageSees(W, W, W.messageFile[i], W.messages[i].fields)
        /\ \A i \in k + 1 .. Len(W.extensions) :
              ExtensionSees(W, W, OwnFile(W, W.extensions[i].fullName), W.extensions[i])
        /\ \A i \in l + 1 .. Len(W.services) :
              /\ W.services[i].fullName \in DOMAIN W.symbols
              /\ ServiceSees(W, W, OwnFile(W, W.services[i].fullName), W.services[i])
    BY <1>1, <1>2, <1>3, NewDefsSee
  <1>6. n = Len(P.messages) /\ k = Len(P.extensions) /\ l = Len(P.services)
        /\ More(P, W) /\ PoolSees(P)
    BY <1>2, <1>4
  <1> HIDE DEF n, k, l, W, P
  <1>7. n \in Nat /\ k \in Nat /\ l \in Nat
    BY <1>6, ShapeLens DEF More
  <1>8. Len(W.messages) \in Nat /\ Len(W.extensions) \in Nat /\ Len(W.services) \in Nat
    BY <1>6, ShapeLens DEF More
  <1>9. ASSUME NEW i \in 1 .. Len(W.messages)
        PROVE  MessageSees(W, W, W.messageFile[i], W.messages[i].fields)
    <2>1. i \in 1 .. n \/ i \in n + 1 .. Len(W.messages)
      BY <1>7, <1>8
    <2> QED BY <1>5, <1>6, <2>1, OldMessageSees
  <1>10. ASSUME NEW i \in 1 .. Len(W.extensions)
         PROVE  ExtensionSees(W, W, OwnFile(W, W.extensions[i].fullName), W.extensions[i])
    <2>1. i \in 1 .. k \/ i \in k + 1 .. Len(W.extensions)
      BY <1>7, <1>8
    <2> QED BY <1>5, <1>6, <2>1, OldExtensionSees
  <1>11. ASSUME NEW i \in 1 .. Len(W.services)
         PROVE  /\ W.services[i].fullName \in DOMAIN W.symbols
                /\ ServiceSees(W, W, OwnFile(W, W.services[i].fullName), W.services[i])
    <2>1. i \in 1 .. l \/ i \in l + 1 .. Len(W.services)
      BY <1>7, <1>8
    <2> QED BY <1>5, <1>6, <2>1, OldServiceSees
  <1>12. PoolSees(W)
    BY <1>9, <1>10, <1>11 DEF PoolSees
  <1> QED BY <1>12 DEF W

LEMMA SightStep ==
    ASSUME BaseInv, SeenInv, CallSteps, pass' # "idle"
    PROVE  StagedSight'
  <1>1. ASSUME Begun PROVE StagedSight'
    <2>1. staged' = WithFiles(pool, news') /\ pool' = pool /\ Shape(pool)
      BY <1>1 DEF Begun, BaseInv, CallInv, RoundsOK
    <2>m. FilesNamed(pool, staged', news')
      BY <2>1, WithFilesFacts
    <2>2. staged'.fileByName =
            [n \in (DOMAIN pool.fileByName \cup {f.name : f \in Range(news')}) \ {Absent} |->
                IF n \in DOMAIN pool.fileByName THEN pool.fileByName[n]
                ELSE Len(pool.files) + (CHOOSE i \in DOMAIN news' : news'[i].name = n)]
      BY <2>m DEF FilesNamed
    <2>3. Absent \notin DOMAIN pool.fileByName
      BY DEF SeenInv, NoAbsent
    <2>4. /\ Absent \notin DOMAIN staged'.fileByName
          /\ \A n \in DOMAIN pool.fileByName :
               n \in DOMAIN staged'.fileByName /\ staged'.fileByName[n] = pool.fileByName[n]
      BY <2>2, <2>3
    <2> QED BY <2>1, <2>4 DEF StagedSight, NoAbsent
  <1>2. ASSUME pass # "idle", Still \/ Switches \/ Walks PROVE StagedSight'
    <2>1. StagedSight
      BY <1>2 DEF SeenInv
    <2>2. Shape(staged) /\ NamesTyped(staged) /\ CallOK
      BY DEF BaseInv, CallInv, CallOK, PoolsTyped
    <2>3. staged'.fileByName = staged.fileByName /\ pool' = pool
      <3>1. CASE Still
        BY <3>1 DEF Still
      <3>2. CASE TypesRegistered \/ TypesLinked
        BY <3>2 DEF TypesRegistered, TypesLinked
      <3>3. CASE FieldsFinal
        <4>1. staged' = Finalized(staged, Len(pool.messages) + 1, Len(pool.extensions) + 1)
              /\ pool' = pool
          BY <3>3 DEF FieldsFinal
        <4> QED BY <2>2, <4>1, FinalizedFacts DEF Settled, SameFiles
      <3>4. CASE Walks
        BY <2>2, <3>4, WalkTodo, WalkEffects, DefsEffects
      <3> QED BY <1>2, <3>1, <3>2, <3>3, <3>4 DEF Switches
    <2> QED BY <2>1, <2>3 DEF StagedSight, NoAbsent
  <1>3. Walks => pass # "idle"
    BY WalkTodo DEF BaseInv, CallInv
  <1> QED BY <1>1, <1>2, <1>3, OnSteps

LEMMA SeenStep ==
    ASSUME BaseInv, TypesInv, TablesInv, DefsInv, OwnersInv, SeenInv, CallSteps, RoundSteps
    PROVE  SeenInv'
  <1>1. opts' = opts
    BY DEF RoundSteps
  <1>2. NoAbsent(pool') /\ NoAbsent(past'.before)
    <2>1. ASSUME Committed PROVE NoAbsent(Whole)
      <3>1. StagedSight
        BY <2>1 DEF SeenInv, Committed
      <3> QED BY <3>1, WholeKeeps DEF StagedSight, NoAbsent
    <2> QED BY <2>1, PoolSteps DEF SeenInv
  <1>3. ASSUME opts.importVisibility PROVE PoolSees(pool') /\ PoolSees(past'.before)
    <2>1. PoolSees(pool) /\ PoolSees(past.before)
      BY <1>3 DEF SeenInv
    <2>2. Committed => PoolSees(Whole)
      BY <1>3, SeenWhole
    <2> QED BY <2>1, <2>2, PoolSteps
  <1>4. ASSUME opts.importVisibility PROVE (PoolSees(pool) /\ PoolSees(past.before))'
    BY <1>3, <1>4 DEF PoolSees, MessageSees, ExtensionSees, ServiceSees, MethodSees, FieldSees,
       OwnFile, MaySee, Known, Public, DefFile
  <1>5. ASSUME pass' # "idle" PROVE StagedSight'
    BY <1>5, SightStep
  <1>6. ASSUME pass' # "idle", opts.importVisibility PROVE StagedSeen'
    <2>1. ASSUME Begun PROVE StagedSeen'
      <3>1. PICK V : V = [p \in Passes |-> {}]
        OBVIOUS
      <3>2. OwnersOf(V)'
        BY <2>1, <3>1, OwnersBegun
      <3>3. SeenOf(V)'
        BY <2>1, SeenBegun
      <3> QED BY <3>2, <3>3 DEF StagedSeen
    <2>2. ASSUME pass # "idle", Still \/ Switches \/ Walks PROVE StagedSeen'
      <3>1. PICK V : OwnersOf(V) /\ SeenOf(V)
        BY <1>6, <2>2 DEF SeenInv, StagedSeen
      <3>2. StagedTypes /\ StagedDefs /\ PoolOwners(pool)
        BY <2>2 DEF TypesInv, DefsInv, OwnersInv
      <3>3. ASSUME Walks PROVE \E W : OwnersOf(W)' /\ SeenOf(W)'
        BY <1>6, <3>1, <3>2, <3>3, SeenWalk
      <3>4. ASSUME Still PROVE OwnersOf(V)' /\ SeenOf(V)'
        <4>1. OwnersOf(V)'
          BY <3>1, <3>4, OwnersStill
        <4>2. staged' = staged /\ pool' = pool /\ news' = news
          BY <3>4 DEF Still
        <4>3. Whole' = Whole
          BY <4>2 DEF Whole
        <4>4. SeenOf(V)'
          BY <3>1, <4>2, <4>3 DEF SeenOf
        <4> QED BY <4>1, <4>4
      <3>5. ASSUME Switches PROVE OwnersOf(V)' /\ SeenOf(V)'
        BY <3>1, <3>2, <3>5, OwnersSwitch, SeenSwitch
      <3> QED BY <2>2, <3>3, <3>4, <3>5 DEF StagedSeen
    <2>3. Walks => pass # "idle"
      BY WalkTodo DEF BaseInv, CallInv
    <2> QED BY <1>6, <2>1, <2>2, <2>3, OnSteps
  <1> QED BY <1>1, <1>2, <1>4, <1>5, <1>6 DEF SeenInv, NoAbsent

LEMMA SeenInit == ASSUME Init PROVE SeenInv
  <1>1. pool = EmptyPool /\ pass = "idle" /\ past = NoPast
    BY DEF Init
  <1>2. past.before = EmptyPool
    BY <1>1 DEF NoPast
  <1>3. /\ EmptyPool.messages = <<>> /\ EmptyPool.extensions = <<>>
        /\ EmptyPool.services = <<>> /\ EmptyPool.fileByName = <<>>
    BY DEF EmptyPool
  <1>4. NoAbsent(EmptyPool)
    BY <1>3, EmptyFacts DEF NoAbsent
  <1>5. PoolSees(EmptyPool)
    BY <1>3, EmptyFacts DEF PoolSees
  <1> QED BY <1>1, <1>2, <1>4, <1>5 DEF SeenInv

\* The references of a pool are those of its fields, extensions and methods.
LEMMA FieldReferencesSeen ==
    ASSUME NEW P, NEW W, NEW file, NEW fields, IsSeq(fields), MessageSees(P, W, file, fields),
           NEW r \in FieldReferences(P, file, fields)
    PROVE  MaySee(W, r[1], r[2])
  <1>1. PICK fd \in Range(fields) :
           fd.kind.k # "scalar" /\ r = <<file, DefFile(P, fd.kind)>>
    BY DEF FieldReferences
  <1>2. PICK j \in 1 .. Len(fields) : fd = fields[j]
    BY RangeOf
  <1>3. FieldSees(P, W, file, fd)
    BY <1>2 DEF MessageSees
  <1> QED BY <1>1, <1>3 DEF FieldSees

LEMMA SeenReferences ==
    ASSUME NEW P, Shape(P), PoolSees(P), NEW r \in References(P)
    PROVE  MaySee(P, r[1], r[2])
  <1>1. /\ DOMAIN P.messages = 1 .. Len(P.messages)
        /\ DOMAIN P.extensions = 1 .. Len(P.extensions)
        /\ DOMAIN P.services = 1 .. Len(P.services)
    BY ShapeLens
  <1>2. ASSUME NEW m \in DOMAIN P.messages,
               r \in FieldReferences(P, P.messageFile[m], P.messages[m].fields)
        PROVE  MaySee(P, r[1], r[2])
    <2>1. IsSeq(P.messages[m].fields)
      BY <1>1 DEF Shape, MessageShape
    <2>2. MessageSees(P, P, P.messageFile[m], P.messages[m].fields)
      BY <1>1 DEF PoolSees
    <2> QED BY <1>2, <2>1, <2>2, FieldReferencesSeen
  <1>3. ASSUME NEW x \in Range(P.extensions)
        PROVE  ExtensionSees(P, P, OwnFile(P, x.fullName), x)
    <2>1. IsSeq(P.extensions)
      BY DEF Shape
    <2>2. PICK i \in 1 .. Len(P.extensions) : x = P.extensions[i]
      BY <2>1, RangeOf
    <2> QED BY <2>2 DEF PoolSees
  <1>4. ASSUME NEW x \in Range(P.extensions),
               r = <<P.symbolFile[x.fullName], P.messageFile[x.extendee]>>
        PROVE  MaySee(P, r[1], r[2])
    BY <1>3, <1>4 DEF ExtensionSees, OwnFile
  <1>5. ASSUME NEW x \in Range(P.extensions),
               r \in FieldReferences(P, P.symbolFile[x.fullName], <<x.field>>)
        PROVE  MaySee(P, r[1], r[2])
    <2>1. IsSeq(<<x.field>>) /\ Len(<<x.field>>) = 1 /\ <<x.field>>[1] = x.field
      <3>1. <<x.field>> \in Seq({x.field})
        OBVIOUS
      <3> QED BY <3>1, SeqOver
    <2>2. FieldSees(P, P, P.symbolFile[x.fullName], x.field)
      BY <1>3 DEF ExtensionSees, OwnFile
    <2>3. MessageSees(P, P, P.symbolFile[x.fullName], <<x.field>>)
      BY <2>1, <2>2 DEF MessageSees
    <2> QED BY <1>5, <2>1, <2>3, FieldReferencesSeen
  <1>6. ASSUME NEW s \in Range(P.services),
               r \in MethodReferences(P, P.symbolFile[s.fullName], s.methods)
        PROVE  MaySee(P, r[1], r[2])
    <2>1. IsSeq(P.services)
      BY DEF Shape
    <2>2. PICK i \in 1 .. Len(P.services) : s = P.services[i]
      BY <2>1, RangeOf
    <2>3. ServiceSees(P, P, P.symbolFile[s.fullName], s)
      BY <2>2 DEF PoolSees, OwnFile
    <2>4. PICK m \in Range(s.methods) :
             \/ r = <<P.symbolFile[s.fullName], P.messageFile[m.input]>>
             \/ r = <<P.symbolFile[s.fullName], P.messageFile[m.output]>>
      BY <1>6 DEF MethodReferences
    <2>5. PICK j \in DOMAIN s.methods : m = s.methods[j]
      BY DEF Range
    <2>6. MethodSees(P, P, P.symbolFile[s.fullName], m)
      BY <2>3, <2>5 DEF ServiceSees
    <2> QED BY <2>4, <2>6 DEF MethodSees
  <1> DEFINE A == UNION {FieldReferences(P, P.messageFile[m], P.messages[m].fields) :
                            m \in DOMAIN P.messages}
             B == {<<P.symbolFile[x.fullName], P.messageFile[x.extendee]>> :
                      x \in Range(P.extensions)}
             C == UNION {FieldReferences(P, P.symbolFile[x.fullName], <<x.field>>) :
                            x \in Range(P.extensions)}
             D == UNION {MethodReferences(P, P.symbolFile[s.fullName], s.methods) :
                            s \in Range(P.services)}
  <1>7. References(P) = A \cup B \cup C \cup D
    BY DEF References
  <1>8. r \in A => MaySee(P, r[1], r[2])
    BY <1>2
  <1>9. r \in B => MaySee(P, r[1], r[2])
    BY <1>4
  <1>10. r \in C => MaySee(P, r[1], r[2])
    BY <1>5
  <1>11. r \in D => MaySee(P, r[1], r[2])
    BY <1>6
  <1> HIDE DEF A, B, C, D
  <1> QED BY <1>7, <1>8, <1>9, <1>10, <1>11

\* For any files, with import visibility on, no definition of a pool refers to
\* a file that its own file does not import, directly or publicly.
THEOREM ImportsStayRespected == Spec => []ImportsRespected
  <1>1. Init => PoolInv /\ SeenInv
    BY PoolInvInit, SeenInit
  <1>2. PoolInv /\ SeenInv /\ [Next]_vars => (PoolInv /\ SeenInv)'
    <2> SUFFICES ASSUME PoolInv, SeenInv, [Next]_vars PROVE PoolInv' /\ SeenInv'
      OBVIOUS
    <2>1. BaseInv /\ TypesInv /\ TablesInv /\ DefsInv /\ OwnersInv
      BY DEF PoolInv
    <2>2. CallSteps /\ RoundSteps
      BY <2>1, NextSteps DEF BaseInv
    <2>3. SeenInv'
      BY <2>1, <2>2, SeenStep
    <2> QED BY <2>3, PoolInvStep
  <1>3. PoolInv /\ SeenInv => ImportsRespected
    <2> SUFFICES ASSUME PoolInv, SeenInv, opts.importVisibility, NEW r \in References(pool)
                 PROVE  MaySee(pool, r[1], r[2])
      BY DEF ImportsRespected
    <2>1. Shape(pool) /\ PoolSees(pool)
      BY DEF PoolInv, BaseInv, CallInv, RoundsOK, SeenInv
    <2> QED BY <2>1, SeenReferences
  <1> QED BY <1>1, <1>2, <1>3, PTL DEF Spec
=============================================================================
