------------------------- MODULE VarintPaths_proofs -------------------------
(***************************************************************************)
(* Every way of reading varints returns the same values and the same       *)
(* error, and the unrolled decoder never looks past its chunk, for any     *)
(* buffer however it is split, and any size of varint.                     *)
(***************************************************************************)
EXTENDS VarintPaths, Varint_proofs

-----------------------------------------------------------------------------
(***************************************************************************)
(* Plain varints, one after the other.                                     *)
(***************************************************************************)
\* A round, from what the rounds before it left.
NextRound(d, s) ==
    LET r == ReadVarint(d, s.next, Len(d)) IN
    IF s.err # "ok" \/ s.next > Len(d) THEN s
    ELSE IF r.err # "ok" THEN [s EXCEPT !.err = r.err]
    ELSE [err |-> "ok", vals |-> Append(s.vals, r.v), next |-> r.next]

FirstRound == [err |-> "ok", vals |-> <<>>, next |-> 1]

Rounds(d) == [err : ReadErrors, vals : Seq(Nat), next : 1 .. Len(d) + 1]

LEMMA NextRoundType ==
    ASSUME NEW d \in Seq(Nat), NEW s \in Rounds(d)
    PROVE  NextRound(d, s) \in Rounds(d)
  <1>1. /\ s.err \in ReadErrors /\ s.vals \in Seq(Nat)
        /\ s.next \in 1 .. Len(d) + 1
    BY DEF Rounds
  <1>2. s.next \in Nat \ {0} /\ Len(d) \in Nat
    BY <1>1
  <1> DEFINE r == ReadVarint(d, s.next, Len(d))
  <1>3. ReadIn(r, s.next, Len(d))
    BY <1>2, ReadVarintFacts
  <1>4. NextRound(d, s) =
          IF s.err # "ok" \/ s.next > Len(d) THEN s
          ELSE IF r.err # "ok" THEN [s EXCEPT !.err = r.err]
          ELSE [err |-> "ok", vals |-> Append(s.vals, r.v), next |-> r.next]
    BY DEF NextRound
  <1> HIDE DEF r
  <1>5. CASE s.err # "ok" \/ s.next > Len(d)
    BY <1>4, <1>5
  <1>6. CASE ~ (s.err # "ok" \/ s.next > Len(d)) /\ r.err # "ok"
    BY <1>3, <1>4, <1>6 DEF ReadIn, Rounds
  <1>7. CASE ~ (s.err # "ok" \/ s.next > Len(d)) /\ r.err = "ok"
    <2>1. r.next \in 1 .. Len(d) + 1 /\ r.v \in Nat
      BY <1>2, <1>3, <1>7 DEF ReadIn
    <2>2. Append(s.vals, r.v) \in Seq(Nat)
      BY <1>1, <2>1
    <2> QED BY <1>4, <1>7, <2>1, <2>2 DEF Rounds, ReadErrors
  <1> QED BY <1>5, <1>6, <1>7

LEMMA PlainRoundsFacts ==
    ASSUME bytes \in Seq(Nat)
    PROVE  /\ PlainRounds[0] = FirstRound
           /\ \A n \in Nat : PlainRounds[n + 1] = NextRound(bytes, PlainRounds[n])
  <1> DEFINE V == Rounds(bytes)
             next(s) == NextRound(bytes, s)
  <1>1. FirstRound \in V
    BY DEF Rounds, FirstRound, ReadErrors
  <1>2. ASSUME NEW s \in V PROVE next(s) \in V
    BY NextRoundType
  <1> HIDE DEF V, next
  <1>3. PICK step : /\ step \in Steps(V)
                    /\ \A n \in Nat, s \in V : step[n][s] = next(s)
    <2> DEFINE f == [n \in Nat |-> [s \in V |-> next(s)]]
    <2>1. f \in Steps(V)
      BY <1>2 DEF Steps
    <2>2. \A n \in Nat, s \in V : f[n][s] = next(s)
      OBVIOUS
    <2> QED BY <2>1, <2>2
  <1>4. PICK g : /\ g \in [Nat -> V] /\ g[0] = FirstRound
                 /\ \A n \in Nat : g[n + 1] = step[n + 1][g[n]]
    <2>1. PICK g : Recursive(V, FirstRound, step, g)
      BY <1>1, <1>3, Recursion
    <2> QED BY <2>1 DEF Recursive
  <1>5. ASSUME NEW n \in Nat
        PROVE  g[n] = IF n = 0 THEN FirstRound ELSE next(g[n - 1])
    <2>1. CASE n = 0
      BY <1>4, <2>1
    <2>2. CASE n # 0
      <3>1. n - 1 \in Nat /\ (n - 1) + 1 = n
        BY <2>2
      <3>2. g[n] = step[n][g[n - 1]] /\ g[n - 1] \in V
        BY <1>4, <3>1
      <3> QED BY <1>3, <2>2, <3>2
    <2> QED BY <2>1, <2>2
  <1>6. g = [n \in Nat |-> IF n = 0 THEN FirstRound ELSE next(g[n - 1])]
    <2>1. g = [n \in Nat |-> g[n]]
      BY <1>4
    <2> QED BY <1>5, <2>1
  <1> DEFINE run == CHOOSE f :
                f = [n \in Nat |-> IF n = 0 THEN FirstRound ELSE next(f[n - 1])]
  <1>7. run = [n \in Nat |-> IF n = 0 THEN FirstRound ELSE next(run[n - 1])]
    BY <1>6
  <1>8. PlainRounds = run
    BY DEF PlainRounds, FirstRound, next, NextRound
  <1> HIDE DEF run
  <1>9. ASSUME NEW n \in Nat PROVE run[n + 1] = next(run[n])
    <2>1. n + 1 \in Nat /\ n + 1 # 0 /\ (n + 1) - 1 = n
      OBVIOUS
    <2> QED BY <1>7, <2>1
  <1> QED BY <1>7, <1>8, <1>9 DEF next

\* Once the buffer or an error has ended the run, more rounds change nothing.
LEMMA RunEnded ==
    ASSUME bytes \in Seq(Nat), NEW m \in Nat, m <= Len(bytes),
           PlainRounds[m].err # "ok" \/ PlainRounds[m].next > Len(bytes)
    PROVE  PlainRun = PlainRounds[m]
  <1> DEFINE S == {k \in Nat : PlainRounds[m + k] = PlainRounds[m]}
  <1>1. 0 \in S
    OBVIOUS
  <1>2. ASSUME NEW k \in Nat, k \in S PROVE k + 1 \in S
    <2>1. m + k \in Nat /\ (m + k) + 1 = m + (k + 1)
      OBVIOUS
    <2>2. PlainRounds[(m + k) + 1] = NextRound(bytes, PlainRounds[m + k])
      BY <2>1, PlainRoundsFacts
    <2>3. NextRound(bytes, PlainRounds[m]) = PlainRounds[m]
      BY DEF NextRound
    <2>4. PlainRounds[m + k] = PlainRounds[m]
      BY <1>2
    <2>5. PlainRounds[m + (k + 1)] = PlainRounds[m]
      BY <2>1, <2>2, <2>3, <2>4
    <2> QED BY <2>5
  <1> HIDE DEF S
  <1>3. Nat \subseteq S
    BY <1>1, <1>2, Induction
  <1>4. Len(bytes) - m \in Nat /\ m + (Len(bytes) - m) = Len(bytes)
    OBVIOUS
  <1>5. PlainRounds[m + (Len(bytes) - m)] = PlainRounds[m]
    BY <1>3, <1>4 DEF S
  <1> QED BY <1>4, <1>5 DEF PlainRun

-----------------------------------------------------------------------------
(***************************************************************************)
(* The inductive invariant: the values returned so far are those of as     *)
(* many plain varints, the next one starts where the byte-at-a-time loop   *)
(* did, and the loop has summed the groups it went past.                   *)
(***************************************************************************)
Start == pos - slow.k

TypeOK ==
    /\ bytes \in Seq(Nat) /\ cuts \subseteq 1 .. Len(bytes) - 1
    /\ pos \in 1 .. Len(bytes) + 1 /\ vals \in Seq(Nat)
    /\ slow.on \in BOOLEAN /\ slow.k \in 0 .. MaxVarintBytes - 1
    /\ ~ slow.on => slow = Idle

\* As many plain varints as values.
AtStart ==
    PlainRounds[Len(vals)] = [err |-> "ok", vals |-> vals, next |-> Start]

Failed ==
    /\ ~ slow.on /\ Len(vals) + 1 <= Len(bytes)
    /\ PlainRounds[Len(vals) + 1].vals = vals
    /\ PlainRounds[Len(vals) + 1].err = err

PartlyRead ==
    /\ Start <= Len(bytes)
    /\ slow.v = GroupSum(bytes, Start, slow.k)
    /\ \A i \in 1 .. slow.k : ~ (bytes[Start + i - 1] < Group)

IInv ==
    /\ TypeOK
    /\ Len(vals) < Start
    /\ err = "ok" => AtStart
    /\ err # "ok" => Failed
    /\ slow.on => PartlyRead

-----------------------------------------------------------------------------
(***************************************************************************)
(* What a step may do.                                                     *)
(***************************************************************************)
\* Nothing a step changes changes the plain run.
LEMMA PlainStable ==
    ASSUME bytes' = bytes
    PROVE  PlainRounds' = PlainRounds
  BY DEF PlainRounds

\* A read that starts here, as one more plain varint.
LEMMA OneMoreRound ==
    ASSUME IInv, err = "ok", Start <= Len(bytes), NEW r,
           ReadVarint(bytes, Start, Len(bytes)) = r
    PROVE  PlainRounds[Len(vals) + 1] =
             IF r.err # "ok" THEN [err |-> r.err, vals |-> vals, next |-> Start]
             ELSE [err |-> "ok", vals |-> Append(vals, r.v), next |-> r.next]
  <1>1. PlainRounds[Len(vals)] = [err |-> "ok", vals |-> vals, next |-> Start]
    BY DEF IInv, AtStart
  <1>2. Len(vals) \in Nat /\ bytes \in Seq(Nat)
    BY DEF IInv, TypeOK
  <1>3. PlainRounds[Len(vals) + 1] = NextRound(bytes, PlainRounds[Len(vals)])
    BY <1>2, PlainRoundsFacts
  <1>4. Start \in Int /\ Len(bytes) \in Int /\ ~ (Start > Len(bytes))
    BY DEF IInv, TypeOK, Start
  <1> QED BY <1>1, <1>3, <1>4 DEF NextRound

\* A value is returned that a plain varint returns.
LEMMA Returning ==
    ASSUME IInv, err = "ok", Start <= Len(bytes), NEW v \in Nat,
           NEW next \in (Start + 1) .. (Len(bytes) + 1),
           ReadVarint(bytes, Start, Len(bytes)) = ReadOk(v, next),
           Returns(v, next)
    PROVE  IInv'
  <1>1. /\ vals' = Append(vals, v) /\ pos' = next /\ slow' = Idle
        /\ UNCHANGED <<bytes, cuts, err>>
    BY DEF Returns
  <1>2. /\ Len(vals) \in Nat /\ vals \in Seq(Nat) /\ Start \in Nat \ {0}
        /\ Len(bytes) \in Nat /\ Len(vals) < Start
    BY DEF IInv, TypeOK, Start
  <1>3. vals' \in Seq(Nat) /\ Len(vals') = Len(vals) + 1
    BY <1>1, <1>2
  <1>4. Start' = next
    BY <1>1, <1>2 DEF Start, Idle
  <1>5. PlainRounds[Len(vals) + 1]
          = [err |-> "ok", vals |-> Append(vals, v), next |-> next]
    BY OneMoreRound DEF ReadOk
  <1>6. AtStart'
    BY <1>1, <1>3, <1>4, <1>5, PlainStable DEF AtStart
  <1>7. TypeOK'
    BY <1>1, <1>2, <1>3, VarintAssumption DEF IInv, TypeOK, Idle
  <1>8. Len(vals') < Start'
    BY <1>2, <1>3, <1>4
  <1> QED BY <1>1, <1>6, <1>7, <1>8 DEF IInv, Idle

\* The run ends in the error a plain varint ends in.
LEMMA Failing ==
    ASSUME IInv, err = "ok", Start <= Len(bytes), NEW e, e # "ok",
           ReadVarint(bytes, Start, Len(bytes)) = ReadErr(e), Fails(e)
    PROVE  IInv'
  <1>1. err' = e /\ slow' = Idle /\ UNCHANGED <<bytes, cuts, pos, vals>>
    BY DEF Fails
  <1>2. /\ Len(vals) \in Nat /\ vals \in Seq(Nat) /\ Start \in Nat \ {0}
        /\ Len(bytes) \in Nat /\ Len(vals) < Start
        /\ Start' = pos /\ Start <= pos /\ pos \in Nat
    BY <1>1 DEF IInv, TypeOK, Start, Idle
  <1>3. PlainRounds[Len(vals) + 1] = [err |-> e, vals |-> vals, next |-> Start]
    BY OneMoreRound DEF ReadErr
  <1>4. Failed'
    BY <1>1, <1>2, <1>3, PlainStable DEF Failed, Idle
  <1>5. TypeOK'
    BY <1>1, VarintAssumption DEF IInv, TypeOK, Idle
  <1>6. Len(vals') < Start'
    BY <1>1, <1>2
  <1> QED BY <1>1, <1>4, <1>5, <1>6 DEF IInv, Idle

-----------------------------------------------------------------------------
(***************************************************************************)
(* The readers.                                                            *)
(***************************************************************************)
\* Between two values.
LEMMA BetweenFacts ==
    ASSUME IInv, ~ Done, ~ slow.on
    PROVE  /\ err = "ok" /\ slow = Idle /\ Start = pos
           /\ pos \in Nat \ {0} /\ pos <= Len(bytes)
           /\ bytes \in Seq(Nat) /\ Len(bytes) \in Nat
  BY DEF IInv, TypeOK, Done, Start, Idle

LEMMA Small ==
    ASSUME NEW a \in Nat, NEW b \in Nat, a < b
    PROVE  a % b = a
  OBVIOUS

LEMMA OneByteStep ==
    ASSUME IInv, OneByte
    PROVE  IInv'
  <1>1. ~ Done /\ ~ slow.on /\ bytes[pos] < Group /\ Returns(bytes[pos], pos + 1)
    BY DEF OneByte
  <1>2. /\ err = "ok" /\ Start = pos /\ pos \in Nat \ {0} /\ pos <= Len(bytes)
        /\ bytes \in Seq(Nat) /\ Len(bytes) \in Nat /\ bytes[pos] \in Nat
    BY <1>1, BetweenFacts
  <1>3. GroupSum(bytes, pos, 1) = bytes[pos]
    <2>1. GroupSum(bytes, pos, 0) = 0
          /\ GroupSum(bytes, pos, 0 + 1)
               = GroupSum(bytes, pos, 0) + (bytes[pos + 0] % Group) * Weight[0]
      <3>1. pos + 0 <= Len(bytes) /\ 0 \in Nat
        BY <1>2
      <3> QED BY <1>2, <3>1, GroupSumNext
    <2>2. bytes[pos] % Group = bytes[pos]
      BY <1>1, <1>2, Small, VarintAssumption
    <2>3. 0 + 1 = 1 /\ pos + 0 = pos /\ Weight[0] = 1
      BY <1>2, WeightFacts
    <2>4. GroupSum(bytes, pos, 1) = 0 + bytes[pos] * 1
      BY <2>1, <2>2, <2>3
    <2> QED BY <1>2, <2>4
  <1>4. ReadVarint(bytes, pos, Len(bytes)) = ReadOk(bytes[pos], pos + 1)
    <2>1. /\ 1 \in Nat \ {0} /\ 1 <= MaxVarintBytes /\ 1 # MaxVarintBytes
          /\ pos + 1 - 1 <= Len(bytes) /\ bytes[pos + 1 - 1] < Group
          /\ \A i \in Nat \ {0} : ~ (i < 1)
      BY <1>1, <1>2, VarintAssumption
    <2>2. ReadVarint(bytes, pos, Len(bytes)) =
            IF 1 = MaxVarintBytes /\ bytes[pos + 1 - 1] > 1
              THEN ReadErr("varint_too_long")
              ELSE ReadOk(GroupSum(bytes, pos, 1), pos + 1)
      BY <1>2, <2>1, ReadVarintEnds
    <2> QED BY <1>3, <2>1, <2>2
  <1>5. pos + 1 \in (Start + 1) .. (Len(bytes) + 1)
    BY <1>2
  <1> QED BY <1>1, <1>2, <1>4, <1>5, Returning

\* The chunk a byte is in ends in the buffer.
LEMMA ChunkEndFacts ==
    ASSUME bytes \in Seq(Nat), cuts \subseteq 1 .. Len(bytes) - 1,
           NEW p \in Nat \ {0}, p <= Len(bytes)
    PROVE  ChunkEnd(p) \in p .. Len(bytes)
  <1> DEFINE ends == {c \in cuts \cup {Len(bytes)} : c >= p}
             e == CHOOSE c \in ends : \A d \in ends : c <= d
  <1>1. ends \in SUBSET Nat /\ ends # {} /\ \A c \in ends : c \in p .. Len(bytes)
    <2>1. \A c \in cuts : c \in Nat /\ c <= Len(bytes)
      OBVIOUS
    <2>2. Len(bytes) \in Nat /\ Len(bytes) \in ends
      OBVIOUS
    <2>3. ASSUME NEW c \in ends PROVE c \in Nat /\ c \in p .. Len(bytes)
      <3>1. c \in Nat /\ c <= Len(bytes) /\ c >= p
        BY <2>1, <2>2
      <3> QED BY <3>1
    <2> HIDE DEF ends
    <2> QED BY <2>2, <2>3
  <1>2. ChunkEnd(p) = e
    BY DEF ChunkEnd
  <1> HIDE DEF ends
  <1>3. e \in ends
    BY <1>1, Least
  <1> HIDE DEF e
  <1> QED BY <1>1, <1>2, <1>3

\* The dispatch's promise: a varint ends within the chunk.
LEMMA UsableFacts ==
    ASSUME bytes \in Seq(Nat), cuts \subseteq 1 .. Len(bytes) - 1,
           NEW p \in Nat \ {0}, p <= Len(bytes), SliceUsable(p)
    PROVE  \E n \in 1 .. ChunkEnd(p) - p + 1 :
              /\ n <= MaxVarintBytes
              /\ n = MaxVarintBytes \/ bytes[p + n - 1] < Group
  <1> DEFINE last == ChunkEnd(p)
  <1>1. last \in p .. Len(bytes)
    BY ChunkEndFacts
  <1>2. last - p + 1 > MaxVarintBytes \/ bytes[last] < Group
    BY DEF SliceUsable
  <1> HIDE DEF last
  <1>3. last - p + 1 \in Nat \ {0} /\ p + (last - p + 1) - 1 = last
    BY <1>1
  <1>4. CASE last - p + 1 > MaxVarintBytes
    <2>1. MaxVarintBytes \in 1 .. last - p + 1
      BY <1>3, <1>4, VarintAssumption
    <2> QED BY <2>1, VarintAssumption DEF last
  <1>5. CASE ~ (last - p + 1 > MaxVarintBytes)
    <2>1. last - p + 1 \in 1 .. last - p + 1 /\ last - p + 1 <= MaxVarintBytes
      BY <1>3, <1>5, VarintAssumption
    <2>2. bytes[p + (last - p + 1) - 1] < Group
      BY <1>2, <1>3, <1>5
    <2> QED BY <2>1, <2>2 DEF last
  <1> QED BY <1>4, <1>5

LEMMA InvSlice == IInv => SliceInBounds
  <1> SUFFICES ASSUME IInv, ToSlice PROVE SliceInBounds
    BY DEF SliceInBounds
  <1>1. ~ Done /\ ~ slow.on /\ SliceUsable(pos)
    BY DEF ToSlice
  <1>2. pos \in Nat \ {0} /\ pos <= Len(bytes) /\ bytes \in Seq(Nat)
        /\ cuts \subseteq 1 .. Len(bytes) - 1
    BY <1>1, BetweenFacts DEF IInv, TypeOK
  <1> QED BY <1>1, <1>2, UsableFacts DEF SliceInBounds

LEMMA SliceDecodeStep ==
    ASSUME IInv, SliceDecode
    PROVE  IInv'
  <1>1. ~ Done /\ ~ slow.on /\ SliceUsable(pos)
    BY DEF SliceDecode, ToSlice
  <1>2. /\ err = "ok" /\ Start = pos /\ pos \in Nat \ {0} /\ pos <= Len(bytes)
        /\ bytes \in Seq(Nat) /\ Len(bytes) \in Nat
        /\ cuts \subseteq 1 .. Len(bytes) - 1
    BY <1>1, BetweenFacts DEF IInv, TypeOK
  <1>3. PICK w \in 1 .. ChunkEnd(pos) - pos + 1 :
            /\ w <= MaxVarintBytes
            /\ w = MaxVarintBytes \/ bytes[pos + w - 1] < Group
    BY <1>1, <1>2, UsableFacts
  <1>4. w \in Nat \ {0} /\ pos + w - 1 <= Len(bytes)
    <2> DEFINE last == ChunkEnd(pos)
    <2>1. last \in pos .. Len(bytes) /\ w \in 1 .. last - pos + 1
      BY <1>2, <1>3, ChunkEndFacts
    <2> HIDE DEF last
    <2> QED BY <1>2, <2>1
  <1> DEFINE stop == {n \in 1 .. MaxVarintBytes :
                        n = MaxVarintBytes \/ bytes[pos + n - 1] < Group}
             n == CHOOSE n \in stop : \A k \in stop : n <= k
  <1>5. stop \in SUBSET Nat /\ w \in stop
    BY <1>3, <1>4, VarintAssumption
  <1>6. n \in stop /\ \A k \in stop : n <= k
    <2> HIDE DEF stop
    <2> QED BY <1>5, Least
  <1>7. SliceReads(pos) = n
    BY DEF SliceReads
  <1> HIDE DEF n
  <1>8. /\ n \in Nat \ {0} /\ n <= MaxVarintBytes /\ n <= w
        /\ n = MaxVarintBytes \/ bytes[pos + n - 1] < Group
        /\ \A i \in Nat \ {0} : i < n => ~ (bytes[pos + i - 1] < Group)
    <2>1. n \in Nat \ {0} /\ n <= MaxVarintBytes /\ n <= w
          /\ (n = MaxVarintBytes \/ bytes[pos + n - 1] < Group)
      BY <1>5, <1>6, VarintAssumption
    <2>2. ASSUME NEW i \in Nat \ {0}, i < n, bytes[pos + i - 1] < Group
          PROVE  FALSE
      <3>1. i \in 1 .. MaxVarintBytes
        BY <2>1, <2>2, VarintAssumption
      <3>2. i \in stop
        BY <2>2, <3>1
      <3> QED BY <1>6, <2>1, <2>2, <3>2
    <2> QED BY <2>1, <2>2
  <1> HIDE DEF stop
  <1>9. pos + n - 1 <= Len(bytes)
    BY <1>2, <1>4, <1>8
  <1>10. ReadVarint(bytes, pos, Len(bytes)) =
           IF n = MaxVarintBytes /\ bytes[pos + n - 1] > 1
             THEN ReadErr("varint_too_long")
             ELSE ReadOk(GroupSum(bytes, pos, n), pos + n)
    BY <1>2, <1>8, <1>9, ReadVarintEnds
  <1>11. IF n = MaxVarintBytes /\ bytes[pos + n - 1] >= 2
           THEN Fails("varint_too_long")
           ELSE Returns(GroupSum(bytes, pos, n), pos + n)
    BY <1>7 DEF SliceDecode
  <1>12. bytes[pos + n - 1] >= 2 <=> bytes[pos + n - 1] > 1
    <2>1. pos + n - 1 \in 1 .. Len(bytes)
      BY <1>2, <1>8, <1>9
    <2>2. bytes[pos + n - 1] \in Nat
      BY <1>2, <2>1
    <2> QED BY <2>2
  <1>13. CASE n = MaxVarintBytes /\ bytes[pos + n - 1] > 1
    <2>1. /\ ReadVarint(bytes, Start, Len(bytes)) = ReadErr("varint_too_long")
          /\ Fails("varint_too_long")
      BY <1>2, <1>10, <1>11, <1>12, <1>13
    <2> QED BY <1>2, <2>1, Failing
  <1>14. CASE ~ (n = MaxVarintBytes /\ bytes[pos + n - 1] > 1)
    <2> DEFINE v == GroupSum(bytes, pos, n)
               next == pos + n
    <2>1. /\ ReadVarint(bytes, Start, Len(bytes)) = ReadOk(v, next)
          /\ Returns(v, next)
      BY <1>2, <1>10, <1>11, <1>12, <1>14
    <2>2. v \in Nat
      BY <1>2, <1>8, <1>9, GroupSumType
    <2>3. next \in (Start + 1) .. (Len(bytes) + 1)
      BY <1>2, <1>8, <1>9
    <2> HIDE DEF v, next
    <2> QED BY <1>2, <2>1, <2>2, <2>3, Returning
  <1> QED BY <1>13, <1>14

LEMMA EnterSlowStep ==
    ASSUME IInv, EnterSlow
    PROVE  IInv'
  <1>1. /\ ~ Done /\ ~ slow.on /\ slow' = [on |-> TRUE, k |-> 0, v |-> 0]
        /\ UNCHANGED <<bytes, cuts, mode, pos, vals, err>>
    BY DEF EnterSlow, Idle
  <1>2. /\ err = "ok" /\ Start = pos /\ pos \in Nat \ {0} /\ pos <= Len(bytes)
        /\ bytes \in Seq(Nat) /\ Len(bytes) \in Nat
    BY <1>1, BetweenFacts
  <1>3. Start' = Start
    BY <1>1, <1>2 DEF Start
  <1>4. GroupSum(bytes, Start, 0) = 0
    <2>1. Start + 0 <= Len(bytes) /\ 0 \in Nat /\ Start \in Nat \ {0}
      BY <1>2
    <2> QED BY <1>2, <2>1, GroupSumNext
  <1>5. PartlyRead'
    <2>1. GroupSum(bytes', Start', 0) = 0
      BY <1>1, <1>3, <1>4
    <2>2. Start' <= Len(bytes') /\ slow'.k = 0 /\ slow'.v = 0
      BY <1>1, <1>2, <1>3
    <2> QED BY <2>1, <2>2 DEF PartlyRead
  <1>6. AtStart'
    BY <1>1, <1>2, <1>3, PlainStable DEF IInv, AtStart
  <1>7. TypeOK'
    BY <1>1, VarintAssumption DEF IInv, TypeOK
  <1> QED BY <1>1, <1>2, <1>3, <1>5, <1>6, <1>7 DEF IInv

LEMMA SlowByteStep ==
    ASSUME IInv, SlowByte
    PROVE  IInv'
  <1> DEFINE k == slow.k
             n == k + 1
             b == bytes[pos]
             v == slow.v + (b % Group) * Weight[k]
             s == Start
  <1>1. slow.on /\ err = "ok" /\ PartlyRead
    BY DEF SlowByte, IInv, Failed
  <1>2. /\ bytes \in Seq(Nat) /\ Len(bytes) \in Nat /\ k \in Nat
        /\ k <= MaxVarintBytes - 1 /\ s \in Nat \ {0} /\ s <= Len(bytes)
        /\ pos = s + k /\ pos <= Len(bytes) + 1
        /\ slow.v = GroupSum(bytes, s, k)
        /\ \A i \in 1 .. k : ~ (bytes[s + i - 1] < Group)
    BY <1>1, VarintAssumption DEF IInv, TypeOK, PartlyRead, Start
  <1>3. IF pos > Len(bytes) THEN Fails("eof")
        ELSE CASE k = MaxVarintBytes - 1 ->
                    IF b > 1 THEN Fails("varint_too_long") ELSE Returns(v, pos + 1)
               [] ~ (k = MaxVarintBytes - 1) /\ b < Group -> Returns(v, pos + 1)
               [] OTHER ->
                    /\ slow' = [on |-> TRUE, k |-> k + 1, v |-> v]
                    /\ pos' = pos + 1
                    /\ UNCHANGED <<bytes, cuts, mode, vals, err>>
    BY DEF SlowByte, AtLastByte, LastByteTooLong
  <1> HIDE DEF k, s
  <1>4. CASE pos > Len(bytes)
    <2>1. ASSUME NEW i \in Nat \ {0}, s + i - 1 <= Len(bytes)
          PROVE  i < MaxVarintBytes /\ ~ (bytes[s + i - 1] < Group)
      <3>1. i \in 1 .. k /\ i < MaxVarintBytes
        BY <1>2, <1>4, <2>1, VarintAssumption
      <3> QED BY <1>2, <3>1
    <2>2. ReadVarint(bytes, s, Len(bytes)) = ReadErr("eof")
      BY <1>2, <2>1, ReadVarintEof
    <2>3. Fails("eof")
      BY <1>3, <1>4
    <2> QED BY <1>1, <1>2, <2>2, <2>3, Failing DEF s
  <1>5. CASE ~ (pos > Len(bytes))
    <2>1. /\ s + k <= Len(bytes) /\ b \in Nat /\ b = bytes[s + k]
          /\ n \in Nat \ {0} /\ n <= MaxVarintBytes /\ s + n - 1 = s + k
          /\ s + n - 1 <= Len(bytes) /\ pos + 1 = s + n
      BY <1>2, <1>5, VarintAssumption
    <2>2. GroupSum(bytes, s, n) = v
      <3>1. GroupSum(bytes, s, k + 1)
              = GroupSum(bytes, s, k) + (bytes[s + k] % Group) * Weight[k]
        BY <1>2, <2>1, GroupSumNext
      <3> QED BY <1>2, <2>1, <3>1
    <2>3. v \in Nat
      BY <1>2, <2>1, <2>2, GroupSumType
    <2>4. \A i \in Nat \ {0} : i < n => ~ (bytes[s + i - 1] < Group)
      <3>1. \A i \in Nat \ {0} : i < n => i \in 1 .. k
        BY <1>2
      <3> QED BY <1>2, <3>1
    <2>5. pos + 1 \in (s + 1) .. (Len(bytes) + 1)
      BY <1>2, <1>5
    <2> HIDE DEF v, b, n
    <2>6. ASSUME n = MaxVarintBytes \/ b < Group
          PROVE  ReadVarint(bytes, s, Len(bytes)) =
                   IF n = MaxVarintBytes /\ b > 1
                     THEN ReadErr("varint_too_long") ELSE ReadOk(v, pos + 1)
      <3>1. n = MaxVarintBytes \/ bytes[s + n - 1] < Group
        BY <2>1, <2>6
      <3>2. s \in Nat \ {0} /\ Len(bytes) \in Nat
        BY <1>2
      <3>3. ReadVarint(bytes, s, Len(bytes)) =
              IF n = MaxVarintBytes /\ bytes[s + n - 1] > 1
                THEN ReadErr("varint_too_long")
                ELSE ReadOk(GroupSum(bytes, s, n), s + n)
        <4>1. n \in Nat \ {0} /\ n <= MaxVarintBytes /\ s + n - 1 <= Len(bytes)
          BY <2>1
        <4> HIDE DEF s
        <4> QED BY <2>4, <3>1, <3>2, <4>1, ReadVarintEnds
      <3> QED BY <2>1, <2>2, <3>3
    <2>7. k = MaxVarintBytes - 1 <=> n = MaxVarintBytes
      BY <1>2, VarintAssumption DEF n
    <2>8. \/ n = MaxVarintBytes /\ b > 1 /\ Fails("varint_too_long")
          \/ /\ n = MaxVarintBytes \/ b < Group
             /\ ~ (n = MaxVarintBytes /\ b > 1)
             /\ Returns(v, pos + 1)
          \/ /\ ~ (n = MaxVarintBytes) /\ ~ (b < Group)
             /\ slow' = [on |-> TRUE, k |-> n, v |-> v]
             /\ pos' = pos + 1
             /\ UNCHANGED <<bytes, cuts, vals, err>>
      BY <1>3, <1>5, <2>7 DEF n
    <2>9. CASE n = MaxVarintBytes /\ b > 1 /\ Fails("varint_too_long")
      <3>1. ReadVarint(bytes, s, Len(bytes)) = ReadErr("varint_too_long")
        BY <2>6, <2>9
      <3> QED BY <1>1, <1>2, <2>9, <3>1, Failing DEF s
    <2>10. CASE /\ n = MaxVarintBytes \/ b < Group
                /\ ~ (n = MaxVarintBytes /\ b > 1)
                /\ Returns(v, pos + 1)
      <3>1. ReadVarint(bytes, s, Len(bytes)) = ReadOk(v, pos + 1)
        BY <2>6, <2>10
      <3> DEFINE next == pos + 1
      <3>2. /\ ReadVarint(bytes, s, Len(bytes)) = ReadOk(v, next)
            /\ Returns(v, next) /\ next \in (s + 1) .. (Len(bytes) + 1)
        BY <2>5, <2>10, <3>1
      <3> HIDE DEF next
      <3> QED BY <1>1, <1>2, <2>3, <3>2, Returning DEF s
    <2>11. CASE /\ ~ (n = MaxVarintBytes) /\ ~ (b < Group)
                /\ slow' = [on |-> TRUE, k |-> n, v |-> v]
                /\ pos' = pos + 1
                /\ UNCHANGED <<bytes, cuts, vals, err>>
      <3>1. Start' = s
        <4>1. Start' = (pos + 1) - (k + 1)
          BY <2>11 DEF Start, n
        <4> QED BY <1>2, <4>1
      <3>2. AtStart'
        BY <1>1, <2>11, <3>1, PlainStable DEF IInv, AtStart, s
      <3>3. PartlyRead'
        <4>1. Start' <= Len(bytes') /\ slow'.v = GroupSum(bytes', Start', slow'.k)
          BY <1>2, <2>2, <2>11, <3>1
        <4>2. ASSUME NEW i \in 1 .. n PROVE ~ (bytes[s + i - 1] < Group)
          <5>1. CASE i = n
            BY <2>1, <2>11, <5>1
          <5>2. CASE i # n
            <6>1. i \in Nat \ {0} /\ i < n
              BY <2>1, <5>2
            <6> QED BY <2>4, <6>1
          <5> QED BY <5>1, <5>2
        <4>3. \A i \in 1 .. slow'.k : ~ (bytes'[Start' + i - 1] < Group)
          BY <2>11, <3>1, <4>2
        <4> QED BY <4>1, <4>3 DEF PartlyRead
      <3>4. TypeOK'
        <4>1. n \in 0 .. MaxVarintBytes - 1 /\ pos + 1 \in 1 .. Len(bytes) + 1
          BY <1>2, <1>5, <2>1, <2>11, VarintAssumption
        <4> QED BY <2>11, <4>1 DEF IInv, TypeOK
      <3>5. Len(vals') < Start'
        BY <2>11, <3>1 DEF IInv, s
      <3> QED BY <1>1, <2>11, <3>2, <3>3, <3>4, <3>5 DEF IInv
    <2> QED BY <2>8, <2>9, <2>10, <2>11
  <1> QED BY <1>4, <1>5

-----------------------------------------------------------------------------
(***************************************************************************)
(* The theorems.                                                           *)
(***************************************************************************)
LEMMA InitInv == Init => IInv
  <1> SUFFICES ASSUME Init PROVE IInv
    OBVIOUS
  <1>1. bytes \in Seq(Nat)
    <2>1. PICK n \in 0 .. MaxInput : bytes \in [1 .. n -> ByteValues]
      BY DEF Init
    <2>2. ByteValues \subseteq Nat
      BY VarintAssumption DEF ByteValues
    <2>3. n \in Nat
      BY <2>1, InputAssumption
    <2> HIDE DEF ByteValues
    <2>4. bytes \in [1 .. n -> Nat]
      <3>1. bytes = [i \in 1 .. n |-> bytes[i]]
        BY <2>1
      <3>2. \A i \in 1 .. n : bytes[i] \in Nat
        BY <2>1, <2>2
      <3> QED BY <3>1, <3>2
    <2> QED BY <2>3, <2>4
  <1>2. /\ pos = 1 /\ slow = [on |-> FALSE, k |-> 0, v |-> 0] /\ vals = <<>>
        /\ err = "ok"
    BY DEF Init, Idle
  <1>3. cuts \subseteq 1 .. Len(bytes) - 1
    BY DEF Init
  <1>4. Start = 1 /\ Len(vals) = 0
    BY <1>2 DEF Start
  <1>5. TypeOK
    BY <1>1, <1>2, <1>3, VarintAssumption DEF TypeOK, Idle
  <1>6. AtStart
    BY <1>1, <1>2, <1>4, PlainRoundsFacts DEF AtStart, FirstRound
  <1> QED BY <1>2, <1>4, <1>5, <1>6 DEF IInv

LEMMA NextInv == IInv /\ [Next]_vars => IInv'
  <1> SUFFICES ASSUME IInv, [Next]_vars PROVE IInv'
    OBVIOUS
  <1>1. CASE UNCHANGED vars
    <2>1. UNCHANGED <<bytes, cuts, mode, pos, slow, vals, err>>
      BY <1>1 DEF vars
    <2>2. TypeOK' /\ Start' = Start /\ PlainRounds' = PlainRounds
      BY <2>1, PlainStable DEF IInv, TypeOK, Start
    <2>3. (AtStart => AtStart') /\ (Failed => Failed') /\ (PartlyRead => PartlyRead')
      BY <2>1, <2>2 DEF AtStart, Failed, PartlyRead
    <2> QED BY <2>1, <2>2, <2>3 DEF IInv
  <1> QED BY <1>1, OneByteStep, SliceDecodeStep, EnterSlowStep, SlowByteStep
          DEF Next, Finished

LEMMA Inductive == Spec => []IInv
  BY InitInv, NextInv, PTL DEF Spec

\* The unrolled decoder, which indexes without checks, finds the end of a
\* varint in its chunk whenever the dispatch sends it there.
THEOREM SliceStaysInChunk == Spec => []SliceInBounds
  BY Inductive, InvSlice, PTL

LEMMA InvPaths == IInv => PathsAgree
  <1> SUFFICES ASSUME IInv, Done
               PROVE  vals = PlainRun.vals /\ err = PlainRun.err
    BY DEF PathsAgree
  <1>1. /\ bytes \in Seq(Nat) /\ Len(bytes) \in Nat /\ Len(vals) \in Nat
        /\ Len(vals) < Start /\ Start <= pos /\ pos <= Len(bytes) + 1
    BY DEF IInv, TypeOK, Start
  <1>2. CASE err = "ok"
    <2>1. pos > Len(bytes) /\ slow = Idle
      BY <1>2 DEF IInv, TypeOK, Done
    <2>2. Start = pos
      BY <1>1, <2>1 DEF Start, Idle, IInv, TypeOK
    <2>3. PlainRounds[Len(vals)] = [err |-> "ok", vals |-> vals, next |-> pos]
      BY <1>2, <2>2 DEF IInv, AtStart
    <2>4. Len(vals) <= Len(bytes) /\ PlainRounds[Len(vals)].next > Len(bytes)
      BY <1>1, <2>1, <2>2, <2>3 DEF IInv, TypeOK
    <2>5. PlainRun = PlainRounds[Len(vals)]
      BY <1>1, <2>4, RunEnded
    <2> QED BY <1>2, <2>3, <2>5
  <1>3. CASE err # "ok"
    <2> DEFINE m == Len(vals) + 1
    <2>1. m <= Len(bytes) /\ PlainRounds[m].vals = vals /\ PlainRounds[m].err = err
      BY <1>3 DEF IInv, Failed
    <2>2. m \in Nat
      BY <1>1
    <2> HIDE DEF m
    <2>3. PlainRun = PlainRounds[m]
      BY <1>1, <1>3, <2>1, <2>2, RunEnded
    <2> QED BY <2>1, <2>3
  <1> QED BY <1>2, <1>3

\* However the buffer is split and whichever reader takes the varints, the
\* values and the error are those of plain varints.
THEOREM PathsEquivalent == Spec => []PathsAgree
  BY Inductive, InvPaths, PTL

=============================================================================
