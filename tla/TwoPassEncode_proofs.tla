------------------------ MODULE TwoPassEncode_proofs ------------------------
(***************************************************************************)
(* Proofs about TwoPassEncode for every set of messages, every array size, *)
(* all limits and every interleaving of calls and pool operations.         *)
(***************************************************************************)
EXTENDS TwoPassEncode, FiniteSetTheorems, TLAPS

-----------------------------------------------------------------------------
(***************************************************************************)
(* What each operation of the SizeCache and of its pool preserves, for     *)
(* every array size and all pool limits.                                   *)
(***************************************************************************)
\* A cache over a recycled spill is well formed, whatever the spill held.
LEMMA WithSpillBufferOK ==
    ASSUME NEW v \in VecType
    PROVE  WithSpillBuffer(v) \in CacheType /\ WellFormed(WithSpillBuffer(v))
<1> DEFINE w == WithSpillBuffer(v)
<1>1. w.inline \in InlineType
  BY DEF WithSpillBuffer, InlineType
<1>2. w \in CacheType
  BY <1>1 DEF WithSpillBuffer, CacheType, InlineType, SpillType, VecType
<1>3. WellFormed(w)
  BY InlineCapAssumption DEF WithSpillBuffer, WellFormed, InlineIdx
<1> QED BY <1>2, <1>3

\* A new cache is well formed.
LEMMA NewCacheOK == NewCache \in CacheType /\ WellFormed(NewCache)
<1>1. [data |-> <<>>, cap |-> 0] \in VecType
  BY DEF VecType
<1> QED BY <1>1, WithSpillBufferOK DEF NewCache

\* Clearing makes any cache well formed although the array keeps its values.
LEMMA ClearOK ==
    ASSUME NEW c \in CacheType
    PROVE  Clear(c) \in CacheType /\ WellFormed(Clear(c))
<1>1. Clear(c) \in CacheType
  <2>1. <<>> \in SpillType
    BY DEF SpillType
  <2> QED BY <2>1 DEF Clear, CacheType
<1>2. WellFormed(Clear(c))
  BY InlineCapAssumption DEF Clear, CacheType, InlineType, SpillType, WellFormed, InlineIdx
<1> QED BY <1>1, <1>2

\* reserve keeps the cache well formed and adds one slot.
LEMMA ReserveOK ==
    ASSUME NEW c \in CacheType, WellFormed(c)
    PROVE  /\ Reserve(c) \in CacheType
           /\ WellFormed(Reserve(c))
           /\ Reserve(c).len = c.len + 1
           /\ Reserve(c).cursor = c.cursor
<1> DEFINE r == Reserve(c)
<1>1. CASE c.len < InlineCap
  <2>1. r = [c EXCEPT !.inline = [@ EXCEPT ![c.len] = 0], !.len = c.len + 1]
    BY <1>1 DEF Reserve
  <2> HIDE DEF r
  <2>2. /\ r.inline = [c.inline EXCEPT ![c.len] = 0]
        /\ r.spill = c.spill /\ r.len = c.len + 1 /\ r.cursor = c.cursor
        /\ r.cap = c.cap
    BY <2>1 DEF CacheType, InlineType, SpillType
  <2>3. [c.inline EXCEPT ![c.len] = 0] \in InlineType
    <3>1. c.inline \in InlineType
      BY DEF CacheType
    <3> QED BY <3>1 DEF InlineType
  <2>4. r \in CacheType
    <3>1. c.len + 1 \in Nat
      BY DEF CacheType
    <3> QED BY <2>1, <2>3, <3>1 DEF CacheType
  <2>5. \A i \in InlineIdx : i < r.len => r.inline[i] \in Nat
    BY <1>1, <2>2, InlineCapAssumption DEF CacheType, InlineType, SpillType, WellFormed, InlineIdx
  <2>6. WellFormed(r)
    BY <1>1, <2>2, <2>5, InlineCapAssumption DEF CacheType, InlineType, SpillType, WellFormed
  <2> QED BY <2>2, <2>4, <2>6 DEF r
<1>2. CASE ~ (c.len < InlineCap)
  <2>1. r = [c EXCEPT !.spill = Append(@, 0),
                      !.cap = GrownCap(@, Len(c.spill) + 1),
                      !.len = c.len + 1]
    BY <1>2 DEF Reserve
  <2> HIDE DEF r
  <2>2. /\ r.inline = c.inline /\ r.spill = Append(c.spill, 0)
        /\ r.len = c.len + 1 /\ r.cursor = c.cursor
        /\ r.cap = GrownCap(c.cap, Len(c.spill) + 1)
    BY <2>1 DEF CacheType, InlineType, SpillType
  <2>3. /\ GrownCap(c.cap, Len(c.spill) + 1) \in Nat
        /\ c.len + 1 \in Nat
    BY DEF GrownCap, CacheType, SpillType
  <2>a. /\ Append(c.spill, 0) \in SpillType
        /\ Len(Append(c.spill, 0)) = Len(c.spill) + 1
        /\ Len(c.spill) \in Nat
    BY DEF CacheType, SpillType
  <2>4. r \in CacheType
    BY <2>1, <2>3, <2>a DEF CacheType
  <2>5. WellFormed(r)
    BY <1>2, <2>2, <2>a, InlineCapAssumption DEF CacheType, WellFormed, InlineIdx
  <2> QED BY <2>2, <2>4, <2>5 DEF r
<1> QED BY <1>1, <1>2

\* In a well-formed cache set finds every reserved slot.
LEMMA ReservedSlotsCanBeSet ==
    ASSUME NEW c \in CacheType, WellFormed(c), NEW idx \in Nat, idx < c.len
    PROVE  CanSet(c, idx)
BY InlineCapAssumption DEF CanSet, CacheType, InlineType, SpillType, WellFormed

\* set keeps the cache well formed and touches no other slot.
LEMMA SetSlotOK ==
    ASSUME NEW c \in CacheType, WellFormed(c), NEW idx \in Nat, idx < c.len,
           NEW n \in Nat
    PROVE  /\ SetSlot(c, idx, n) \in CacheType
           /\ WellFormed(SetSlot(c, idx, n))
           /\ SetSlot(c, idx, n).len = c.len
           /\ SetSlot(c, idx, n).cursor = c.cursor
           /\ SlotValue(SetSlot(c, idx, n), idx) = n
           /\ \A k \in Nat : k < c.len /\ k # idx =>
                 SlotValue(SetSlot(c, idx, n), k) = SlotValue(c, k)
<1> DEFINE r == SetSlot(c, idx, n)
<1>1. CASE idx < InlineCap
  <2>1. r = [c EXCEPT !.inline = [@ EXCEPT ![idx] = n]]
    BY <1>1 DEF SetSlot
  <2> HIDE DEF r
  <2>2. /\ r.inline = [c.inline EXCEPT ![idx] = n]
        /\ r.spill = c.spill /\ r.len = c.len /\ r.cursor = c.cursor
    BY <2>1 DEF CacheType, InlineType, SpillType
  <2>3. r.inline \in InlineType
    BY <2>2 DEF CacheType, InlineType, SpillType
  <2>4. r \in CacheType
    BY <2>1, <2>3 DEF CacheType
  <2>5. WellFormed(r)
    BY <1>1, <2>2 DEF CacheType, InlineType, SpillType, WellFormed, InlineIdx
  <2>6. SlotValue(r, idx) = n
    BY <1>1, <2>2, InlineCapAssumption DEF CacheType, InlineType, SpillType, SlotValue, InlineIdx
  <2>7. ASSUME NEW k \in Nat, k < c.len, k # idx
        PROVE  SlotValue(r, k) = SlotValue(c, k)
    BY <1>1, <2>2, <2>7 DEF CacheType, InlineType, SpillType, SlotValue, InlineIdx
  <2> QED BY <2>2, <2>4, <2>5, <2>6, <2>7 DEF r
<1>2. CASE ~ (idx < InlineCap)
  <2> DEFINE p == idx - InlineCap + 1
  <2>1. r = [c EXCEPT !.spill = [@ EXCEPT ![p] = n]]
    BY <1>2 DEF SetSlot
  <2> HIDE DEF r
  <2>2. /\ r.inline = c.inline /\ r.len = c.len /\ r.cursor = c.cursor
        /\ r.spill = [c.spill EXCEPT ![p] = n] /\ r.cap = c.cap
    BY <2>1 DEF CacheType, InlineType, SpillType
  <2>3. p \in 1 .. Len(c.spill)
    BY <1>2, InlineCapAssumption DEF WellFormed, CacheType, InlineType, SpillType
  <2>4. r.spill \in SpillType /\ Len(r.spill) = Len(c.spill)
    BY <2>2, <2>3 DEF CacheType, InlineType, SpillType
  <2>5. r \in CacheType
    BY <2>1, <2>4 DEF CacheType
  <2>6. WellFormed(r)
    BY <1>2, <2>2, <2>4 DEF CacheType, InlineType, SpillType, WellFormed, InlineIdx
  <2>7. SlotValue(r, idx) = n
    BY <1>2, <2>2, <2>3 DEF CacheType, InlineType, SpillType, SlotValue
  <2>8. ASSUME NEW k \in Nat, k < c.len, k # idx
        PROVE  SlotValue(r, k) = SlotValue(c, k)
    <3>1. CASE k < InlineCap
      BY <3>1, <2>2 DEF SlotValue
    <3>2. CASE ~ (k < InlineCap)
      <4>1. k - InlineCap + 1 \in 1 .. Len(c.spill)
        BY <3>2, <2>8, InlineCapAssumption DEF WellFormed, CacheType, InlineType, SpillType
      <4> QED BY <1>2, <3>2, <4>1, <2>2, <2>3, <2>8, InlineCapAssumption DEF SlotValue, CacheType, InlineType, SpillType
    <3> QED BY <3>1, <3>2
  <2> QED BY <2>2, <2>5, <2>6, <2>7, <2>8 DEF r
<1> QED BY <1>1, <1>2

\* In a well-formed cache consume_next reads a number, never an uninitialised
\* slot, for as long as the cursor is short of the last slot.
LEMMA ConsumeOK ==
    ASSUME NEW c \in CacheType, WellFormed(c), c.cursor < c.len
    PROVE  /\ CanConsume(c)
           /\ ConsumedValue(c) \in Nat
           /\ ConsumeNext(c) \in CacheType
           /\ WellFormed(ConsumeNext(c))
           /\ ConsumeNext(c).len = c.len
           /\ ConsumeNext(c).cursor = c.cursor + 1
           /\ \A k \in Nat : SlotValue(ConsumeNext(c), k) = SlotValue(c, k)
<1> DEFINE r == ConsumeNext(c)
<1>1. CanConsume(c)
  BY InlineCapAssumption DEF CanConsume, CacheType, InlineType, SpillType, WellFormed
<1>2. ConsumedValue(c) \in Nat
  <2>1. CASE c.cursor < InlineCap
    BY <2>1, InlineCapAssumption DEF ConsumedValue, SlotValue, CacheType, InlineType, SpillType, WellFormed, InlineIdx
  <2>2. CASE ~ (c.cursor < InlineCap)
    <3>1. c.cursor - InlineCap + 1 \in 1 .. Len(c.spill)
      BY <2>2, InlineCapAssumption DEF CacheType, InlineType, SpillType, WellFormed
    <3> QED BY <2>2, <3>1 DEF ConsumedValue, SlotValue, CacheType, InlineType, SpillType
  <2> QED BY <2>1, <2>2
<1>3. r = [c EXCEPT !.cursor = c.cursor + 1]
  BY DEF ConsumeNext
<1> HIDE DEF r
<1>4. /\ r.inline = c.inline /\ r.spill = c.spill /\ r.len = c.len
      /\ r.cursor = c.cursor + 1 /\ r.cap = c.cap
  BY <1>3 DEF CacheType, InlineType, SpillType
<1>5. r \in CacheType
  BY <1>3 DEF CacheType, InlineType, SpillType
<1>6. WellFormed(r)
  BY <1>4 DEF WellFormed, CacheType, InlineType, SpillType
<1>7. \A k \in Nat : SlotValue(r, k) = SlotValue(c, k)
  BY <1>4 DEF SlotValue
<1> QED BY <1>1, <1>2, <1>4, <1>5, <1>6, <1>7 DEF r

\* reserve writes only the slot it hands out.
LEMMA ReserveKeepsSlots ==
    ASSUME NEW c \in CacheType, WellFormed(c), NEW k \in Nat, k < c.len
    PROVE  SlotValue(Reserve(c), k) = SlotValue(c, k)
<1>1. CASE c.len < InlineCap
  <2>1. Reserve(c).inline = [c.inline EXCEPT ![c.len] = 0]
    BY <1>1 DEF Reserve, CacheType, InlineType, SpillType
  <2> QED BY <1>1, <2>1, InlineCapAssumption DEF SlotValue, CacheType, InlineType, SpillType, InlineIdx
<1>2. CASE ~ (c.len < InlineCap)
  <2>1. /\ Reserve(c).spill = Append(c.spill, 0)
        /\ Reserve(c).inline = c.inline
    BY <1>2 DEF Reserve, CacheType, InlineType, SpillType
  <2>2. CASE k < InlineCap
    BY <2>1, <2>2 DEF SlotValue
  <2>3. CASE ~ (k < InlineCap)
    <3>1. k - InlineCap + 1 \in 1 .. Len(c.spill)
      BY <2>3, <1>2, InlineCapAssumption DEF CacheType, InlineType, SpillType, WellFormed
    <3> QED BY <2>1, <2>3, <3>1 DEF SlotValue, CacheType, InlineType, SpillType
  <2> QED BY <2>2, <2>3
<1> QED BY <1>1, <1>2

\* What acquire takes from a typed free list is an empty, well-formed cache.
LEMMA AcquireOK ==
    ASSUME NEW f \in PoolType
    PROVE  /\ AcquiredCache(f) \in CacheType
           /\ WellFormed(AcquiredCache(f))
           /\ AcquiredCache(f).len = 0
           /\ AcquiredPool(f) \in PoolType
<1>1. CASE f = <<>>
  BY <1>1, NewCacheOK DEF AcquiredCache, AcquiredPool, PoolType, NewCache, WithSpillBuffer
<1>2. CASE f # <<>>
  <2>1. f[Len(f)] \in VecType
    BY <1>2 DEF PoolType
  <2> QED BY <1>2, <2>1, WithSpillBufferOK
          DEF AcquiredCache, AcquiredPool, PoolType, WithSpillBuffer
<1> QED BY <1>1, <1>2

\* The limits of the pool.
PoolWithin(f) ==
    /\ Len(f) <= MaxBuffers
    /\ \A k \in 1 .. Len(f) : f[k].data = <<>> /\ f[k].cap \in 1 .. MaxCapacity

\* acquire and release keep the free list within the pool's limits, and a
\* buffer kept there is empty.
LEMMA PoolOK ==
    ASSUME NEW f \in PoolType, NEW c \in CacheType
    PROVE  /\ Release(f, c) \in PoolType
           /\ PoolWithin(f) => PoolWithin(Release(f, c))
           /\ PoolWithin(f) => PoolWithin(AcquiredPool(f))
<1> DEFINE cap == IF c.cap > MaxCapacity THEN MaxCapacity ELSE c.cap
           buf == [data |-> <<>>, cap |-> cap]
<1>1. buf \in VecType /\ (cap # 0 => cap \in 1 .. MaxCapacity)
  BY PoolAssumption DEF CacheType, InlineType, SpillType, VecType
<1>2. Release(f, c) = IF Len(f) >= MaxBuffers \/ cap = 0
                        THEN f ELSE Append(f, buf)
  BY DEF Release
<1> HIDE DEF cap
<1>3. Release(f, c) \in PoolType
  BY <1>1, <1>2 DEF PoolType
<1>4. PoolWithin(f) => PoolWithin(Release(f, c))
  <2> SUFFICES ASSUME PoolWithin(f), ~ (Len(f) >= MaxBuffers \/ cap = 0)
               PROVE  PoolWithin(Append(f, buf))
    BY <1>2
  <2>1. f \in Seq(VecType)
    BY DEF PoolType
  <2>2. /\ Len(Append(f, buf)) = Len(f) + 1
        /\ Append(f, buf)[Len(f) + 1] = buf
        /\ \A k \in 1 .. Len(f) : Append(f, buf)[k] = f[k]
    BY <2>1, <1>1
  <2>3. buf.data = <<>> /\ buf.cap = cap
    OBVIOUS
  <2> HIDE DEF buf
  <2> QED BY <1>1, <2>1, <2>2, <2>3, PoolAssumption DEF PoolWithin
<1>5. PoolWithin(f) => PoolWithin(AcquiredPool(f))
  BY PoolAssumption DEF PoolType, PoolWithin, AcquiredPool
<1> QED BY <1>3, <1>4, <1>5

-----------------------------------------------------------------------------
(***************************************************************************)
(* Lengths are numbers.                                                    *)
(***************************************************************************)
\* Arithmetic on sizes and positions, stated on its own so that the provers
\* see nothing else.
LEMMA NatTransitive ==
    ASSUME NEW a \in Nat, NEW b \in Nat, NEW c \in Nat, a <= b, b <= c
    PROVE  a <= c
OBVIOUS

LEMMA VarintLenNat ==
    ASSUME NEW n \in Nat
    PROVE  VarintLen(n) \in Nat
<1> DEFINE S == {k \in 1 .. (MaxVarintBytes - 1) : n >= VarintBase ^ k}
<1>1. IsFiniteSet(1 .. (MaxVarintBytes - 1))
  BY FS_Interval, LimitsAssumption
<1>2. IsFiniteSet(S)
  BY <1>1, FS_Subset
<1>3. Cardinality(S) \in Nat
  BY <1>2, FS_CardinalityType
<1> QED BY <1>3 DEF VarintLen

LEMMA FieldType ==
    ASSUME NEW m \in Msg, NEW i \in 1 .. Len(Fields[m])
    PROVE  Fields[m][i] \in Field
BY FieldsAssumption

LEMMA EntryLenNat ==
    ASSUME NEW f \in Field, NEW n \in Nat
    PROVE  EntryLen(f, n) \in Nat /\ EntryLen(f, n) >= n
BY VarintLenNat DEF EntryLen, Field

LEMMA FieldLenNat ==
    ASSUME NEW f \in Field, NEW n \in Nat
    PROVE  FieldLen(f, n) \in Nat
<1>1. EntryLen(f, n) \in Nat /\ f.n \in Nat /\ f.tl \in Nat
  BY EntryLenNat DEF Field
<1> QED BY <1>1, VarintLenNat DEF FieldLen

LEMMA OpeningLenNat ==
    ASSUME NEW f \in Field, NEW n \in Nat
    PROVE  OpeningLen(f, n) \in Nat
<1>1. EntryLen(f, n) \in Nat /\ f.n \in Nat /\ f.tl \in Nat
  BY EntryLenNat DEF Field
<1>2. EntryLen(f, n) >= n /\ VarintLen(EntryLen(f, n)) \in Nat
  BY EntryLenNat, VarintLenNat
<1> QED BY <1>1, <1>2, VarintLenNat DEF OpeningLen

LEMMA SaturateNat ==
    ASSUME NEW n \in Nat
    PROVE  SaturateSize(n) \in Nat
BY LimitsAssumption DEF SaturateSize

\* Stacks of frames.
LEMMA StackFacts ==
    ASSUME NEW S, NEW s \in Seq(S), s # <<>>
    PROVE  /\ Len(s) \in Nat /\ Len(s) >= 1
           /\ Top(s) \in S
           /\ Pop(s) \in Seq(S)
           /\ Len(Pop(s)) = Len(s) - 1
           /\ \A k \in 1 .. Len(Pop(s)) : Pop(s)[k] = s[k]
<1>1. Len(s) \in Nat /\ Len(s) >= 1
  OBVIOUS
<1>2. Top(s) \in S
  BY <1>1 DEF Top
<1>3. /\ Pop(s) \in Seq(S)
      /\ Len(Pop(s)) = Len(s) - 1
      /\ \A k \in 1 .. Len(Pop(s)) : Pop(s)[k] = s[k]
  BY <1>1 DEF Pop
<1> QED BY <1>1, <1>2, <1>3

-----------------------------------------------------------------------------
(***************************************************************************)
(* The reference functions.                                                *)
(***************************************************************************)
LEMMA RefType ==
    ASSUME NEW m \in Msg
    PROVE  /\ Len(Fields[m]) \in Nat
           /\ LenUpTo[m][0] = 0 /\ SlotsUpTo[m][0] = 0
           /\ \A i \in 0 .. Len(Fields[m]) :
                 /\ LenUpTo[m][i] \in Nat /\ LenUpTo[m][i] <= TrueLen(m)
                 /\ SlotsUpTo[m][i] \in Nat /\ SlotsUpTo[m][i] <= Slots(m)
           /\ TrueLen(m) \in Nat /\ Slots(m) \in Nat
<1>1. Len(Fields[m]) \in Nat
  BY FieldsAssumption
<1>2. LenUpTo[m] \in [0 .. Len(Fields[m]) -> Nat]
  BY LenUpToAssumption
<1>3. SlotsUpTo[m] \in [0 .. Len(Fields[m]) -> Nat]
  BY SlotsUpToAssumption
<1>4. TrueLen(m) \in Nat
  BY <1>1, <1>2 DEF TrueLen
<1>5. Slots(m) \in Nat
  BY <1>1, <1>3 DEF Slots
<1>6. \A i \in 0 .. Len(Fields[m]) : LenUpTo[m][i] <= TrueLen(m)
  BY LenUpToAssumption
<1>7. \A i \in 0 .. Len(Fields[m]) : SlotsUpTo[m][i] <= Slots(m)
  BY SlotsUpToAssumption
<1>8. LenUpTo[m][0] = 0 /\ SlotsUpTo[m][0] = 0
  BY LenUpToAssumption, SlotsUpToAssumption
<1> QED BY <1>1, <1>2, <1>3, <1>4, <1>5, <1>6, <1>7, <1>8

LEMMA RefStep ==
    ASSUME NEW m \in Msg, NEW i \in 1 .. Len(Fields[m])
    PROVE  LET f == Fields[m][i] IN
           /\ f \in Field /\ f.of \in Msg
           /\ LenUpTo[m][i] = LenUpTo[m][i - 1] + FieldLen(f, TrueLen(f.of))
           /\ f.kind = "leaf" => SlotsUpTo[m][i] = SlotsUpTo[m][i - 1]
           /\ f.kind \in NestedKinds =>
                 SlotsUpTo[m][i] = SlotsUpTo[m][i - 1] + OwnSlot(f) + Slots(f.of)
<1> DEFINE f == Fields[m][i]
<1>1. f \in Field
  BY FieldType
<1>2. f.of \in Msg /\ f.kind \in NestedKinds \cup {"leaf"}
  BY <1>1 DEF Field
<1>3. LenUpTo[m][i] = LenUpTo[m][i - 1] + FieldLen(f, TrueLen(f.of))
  BY LenUpToAssumption
<1>4. SlotsUpTo[m][i] = SlotsUpTo[m][i - 1] + OwnSlot(f)
          + (IF f.kind \in NestedKinds THEN Slots(f.of) ELSE 0)
  BY SlotsUpToAssumption
<1>5. SlotsUpTo[m][i - 1] \in Nat
  <2>1. i - 1 \in 0 .. Len(Fields[m])
    BY RefType
  <2> QED BY <2>1, RefType
<1>6. f.kind = "leaf" => f.kind \notin NestedKinds /\ OwnSlot(f) = 0
  BY DEF NestedKinds, SlotKinds, OwnSlot
<1> QED BY <1>1, <1>2, <1>3, <1>4, <1>5, <1>6

LEMMA RefPre ==
    ASSUME NEW m \in Msg, NEW i \in 1 .. Len(Fields[m]),
           Fields[m][i].kind \in NestedKinds
    PROVE  LET f == Fields[m][i]
               at == SlotsUpTo[m][i - 1] + OwnSlot(f)
           IN  /\ f.kind \in SlotKinds => Pre[m][at] = f.of
               /\ \A s \in 1 .. Slots(f.of) : Pre[m][at + s] = Pre[f.of][s]
BY PreAssumption

LEMMA PreType ==
    ASSUME NEW m \in Msg, NEW s \in 1 .. Slots(m)
    PROVE  Pre[m][s] \in Msg
BY PreAssumption

\* A nested field is what goes before the body, the body, and what follows.
LEMMA FieldSplit ==
    ASSUME NEW f \in Field, NEW n \in Nat, f.kind \in NestedKinds
    PROVE  /\ FieldLen(f, n) = OpeningLen(f, n) + n + ClosingLen(f)
           /\ FieldLen(f, n) > n
           /\ ClosingLen(f) \in Nat
<1>1. /\ EntryLen(f, n) \in Nat /\ EntryLen(f, n) >= n
      /\ VarintLen(n) \in Nat /\ VarintLen(EntryLen(f, n)) \in Nat
      /\ f.n \in Nat /\ f.tl \in Nat /\ f.tl > 0
  BY EntryLenNat, VarintLenNat DEF Field
<1>2. CASE f.kind = "msg"
  BY <1>1, <1>2 DEF FieldLen, OpeningLen, ClosingLen
<1>3. CASE f.kind = "group"
  BY <1>1, <1>3 DEF FieldLen, OpeningLen, ClosingLen
<1>4. CASE f.kind \in {"map", "mapomit"}
  BY <1>1, <1>4 DEF FieldLen, OpeningLen, ClosingLen
<1> QED BY <1>2, <1>3, <1>4 DEF NestedKinds, SlotKinds

\* Saturation is absorbed by further additions and by framing: a length that
\* saturated inside saturates outside, whatever else is added.
LEMMA SatAdd ==
    ASSUME NEW a \in Nat, NEW b \in Nat, NEW n \in Nat,
           SaturateSize(a) = SaturateSize(b)
    PROVE  SaturateSize(a + n) = SaturateSize(b + n)
BY LimitsAssumption DEF SaturateSize

LEMMA SatField ==
    ASSUME NEW a \in Nat, NEW b \in Nat, NEW x \in Nat, NEW f \in Field,
           f.kind \in NestedKinds, SaturateSize(a) = SaturateSize(b)
    PROVE  SaturateSize(a + FieldLen(f, SaturateSize(x)))
             = SaturateSize(b + FieldLen(f, x))
<1>1. CASE x <= MaxU32
  <2>1. SaturateSize(x) = x
    BY <1>1, LimitsAssumption DEF SaturateSize
  <2>2. FieldLen(f, x) \in Nat
    BY FieldLenNat
  <2>3. SaturateSize(a + FieldLen(f, x)) = SaturateSize(b + FieldLen(f, x))
    BY <2>2, SatAdd
  <2> QED BY <2>1, <2>3
<1>2. CASE ~ (x <= MaxU32)
  <2>1. SaturateSize(x) = MaxU32 /\ MaxU32 \in Nat
    BY <1>2, LimitsAssumption DEF SaturateSize
  <2>2. FieldLen(f, MaxU32) > MaxU32 /\ FieldLen(f, x) > x
    BY <2>1, FieldSplit
  <2>3. FieldLen(f, MaxU32) \in Nat /\ FieldLen(f, x) \in Nat
    BY <2>1, FieldLenNat
  <2> HIDE DEF FieldLen
  <2> QED BY <1>2, <2>1, <2>2, <2>3 DEF SaturateSize
<1> QED BY <1>1, <1>2, LimitsAssumption

-----------------------------------------------------------------------------
(***************************************************************************)
(* Stacks and frames.                                                      *)
(***************************************************************************)
LEMMA ReplaceTopFacts ==
    ASSUME NEW S, NEW s \in Seq(S), s # <<>>, NEW y \in S
    PROVE  /\ ReplaceTop(s, y) \in Seq(S)
           /\ ReplaceTop(s, y) # <<>>
           /\ Len(ReplaceTop(s, y)) = Len(s)
           /\ Top(ReplaceTop(s, y)) = y
           /\ ReplaceTop(s, y)[Len(s)] = y
           /\ \A k \in 1 .. Len(s) - 1 : ReplaceTop(s, y)[k] = s[k]
<1>1. Len(s) \in Nat /\ Len(s) >= 1 /\ Len(s) \in DOMAIN s
  OBVIOUS
<1>2. ReplaceTop(s, y) \in Seq(S) /\ Len(ReplaceTop(s, y)) = Len(s)
  BY <1>1 DEF ReplaceTop
<1>3. ReplaceTop(s, y)[Len(s)] = y
  BY <1>1 DEF ReplaceTop
<1>4. \A k \in 1 .. Len(s) - 1 : ReplaceTop(s, y)[k] = s[k]
  BY <1>1 DEF ReplaceTop
<1> QED BY <1>1, <1>2, <1>3, <1>4 DEF Top

LEMMA PushFacts ==
    ASSUME NEW S, NEW s \in Seq(S), NEW y \in S
    PROVE  /\ Append(s, y) \in Seq(S)
           /\ Append(s, y) # <<>>
           /\ Len(Append(s, y)) = Len(s) + 1
           /\ Top(Append(s, y)) = y
           /\ Append(s, y)[Len(s) + 1] = y
           /\ \A k \in 1 .. Len(s) : Append(s, y)[k] = s[k]
           /\ Len(s) \in Nat
BY DEF Top

LEMMA CountedFacts ==
    ASSUME NEW fr \in SizeFrame, NEW n \in Nat
    PROVE  /\ Counted(fr, n) \in SizeFrame
           /\ Counted(fr, n).msg = fr.msg
           /\ Counted(fr, n).i = fr.i + 1
           /\ Counted(fr, n).acc = fr.acc + n
           /\ Counted(fr, n).slot = fr.slot
           /\ Counted(fr, n).base = fr.base
<1>1. fr.acc + n \in Nat /\ fr.i + 1 \in Nat
  BY DEF SizeFrame
<1> QED BY <1>1 DEF Counted, SizeFrame

LEMMA AdvancedFacts ==
    ASSUME NEW fr \in WriteFrame
    PROVE  LET g == [fr EXCEPT !.i = @ + 1] IN
           /\ g \in WriteFrame
           /\ g.msg = fr.msg /\ g.i = fr.i + 1
           /\ g.start = fr.start /\ g.decl = fr.decl /\ g.base = fr.base
BY DEF WriteFrame

-----------------------------------------------------------------------------
(***************************************************************************)
(* The size pass preserves the invariant.                                  *)
(***************************************************************************)
\* What the invariant says of the innermost activation of compute_size.
LEMMA SizeTop ==
    ASSUME IInv, pc = "sizing"
    PROVE  /\ sizing \in Seq(SizeFrame) /\ sizing # <<>>
           /\ Len(sizing) \in Nat /\ Len(sizing) >= 1
           /\ Top(sizing) = sizing[Len(sizing)]
           /\ \A k \in 1 .. Len(sizing) :
                 /\ sizing[k] \in SizeFrame
                 /\ sizing[k].msg \in Msg /\ sizing[k].acc \in Nat
                 /\ sizing[k].base \in Nat /\ sizing[k].slot \in Nat \cup {-1}
                 /\ sizing[k].i \in 1 .. Len(Fields[sizing[k].msg]) + 1
                 /\ Len(Fields[sizing[k].msg]) \in Nat
<1>1. sizing \in Seq(SizeFrame) /\ sizing # <<>>
  BY DEF IInv, TypeOK, Phases
<1>2. Len(sizing) \in Nat /\ Len(sizing) >= 1
  BY <1>1
<1>3. ASSUME NEW k \in 1 .. Len(sizing)
      PROVE  /\ sizing[k] \in SizeFrame
             /\ sizing[k].msg \in Msg /\ sizing[k].acc \in Nat
             /\ sizing[k].base \in Nat /\ sizing[k].slot \in Nat \cup {-1}
  <2>1. sizing[k] \in SizeFrame
    BY <1>1
  <2> QED BY <2>1 DEF SizeFrame, SlotOrNone, NoSlot
<1>4. \A k \in 1 .. Len(sizing) : InMessage(sizing[k])
  BY DEF IInv, SizeInv
<1> QED BY <1>1, <1>2, <1>3, <1>4, RefType DEF InMessage, Top

LEMMA SizeLeafStep ==
    ASSUME IInv, SizeLeaf
    PROVE  IInv'
<1> DEFINE n == Len(sizing)
           top == Top(sizing)
           f == Cur(top)
           g == Counted(top, f.n)
<1>0. pc = "sizing" /\ ~ AtEnd(top) /\ f.kind = "leaf"
  BY DEF SizeLeaf
<1>1. /\ sizing \in Seq(SizeFrame) /\ sizing # <<>> /\ n \in Nat /\ n >= 1
      /\ top = sizing[n] /\ top \in SizeFrame /\ top.msg \in Msg
      /\ top.acc \in Nat /\ top.base \in Nat
      /\ Len(Fields[top.msg]) \in Nat
      /\ top.i \in 1 .. Len(Fields[top.msg])
  BY <1>0, SizeTop DEF AtEnd
<1>2. /\ f \in Field /\ f.n \in Nat
      /\ LenUpTo[top.msg][top.i] = LenUpTo[top.msg][top.i - 1] + f.n
      /\ SlotsUpTo[top.msg][top.i] = SlotsUpTo[top.msg][top.i - 1]
      /\ LenUpTo[top.msg][top.i - 1] \in Nat
      /\ SlotsUpTo[top.msg][top.i - 1] \in Nat
  <2>1. f = Fields[top.msg][top.i]
    BY DEF Cur
  <2>2. f \in Field /\ f.n \in Nat
    BY <1>1, <2>1, FieldType DEF Field
  <2>3. FieldLen(f, TrueLen(f.of)) = f.n
    BY <1>0 DEF FieldLen
  <2>4. top.i - 1 \in 0 .. Len(Fields[top.msg])
    BY <1>1
  <2>5. /\ LenUpTo[top.msg][top.i]
              = LenUpTo[top.msg][top.i - 1] + FieldLen(f, TrueLen(f.of))
        /\ SlotsUpTo[top.msg][top.i] = SlotsUpTo[top.msg][top.i - 1]
    BY <1>0, <1>1, <2>1, RefStep
  <2>6. /\ LenUpTo[top.msg][top.i - 1] \in Nat
        /\ SlotsUpTo[top.msg][top.i - 1] \in Nat
    BY <1>1, <2>4, RefType
  <2> QED BY <2>2, <2>3, <2>5, <2>6
<1>3. /\ g \in SizeFrame /\ g.msg = top.msg /\ g.i = top.i + 1
      /\ g.acc = top.acc + f.n /\ g.slot = top.slot /\ g.base = top.base
  BY <1>1, <1>2, CountedFacts
<1> HIDE DEF f, g
<1>4. /\ sizing' = ReplaceTop(sizing, g)
      /\ UNCHANGED <<call, outcome, pc, writing, size, out, cache, kept, free>>
  BY DEF SizeLeaf, f, g
<1>5. /\ sizing' \in Seq(SizeFrame) /\ sizing' # <<>> /\ Len(sizing') = n
      /\ sizing'[n] = g /\ Top(sizing)' = g
      /\ \A k \in 1 .. n - 1 : sizing'[k] = sizing[k]
  <2>1. /\ ReplaceTop(sizing, g) \in Seq(SizeFrame)
        /\ ReplaceTop(sizing, g) # <<>>
        /\ Len(ReplaceTop(sizing, g)) = n
        /\ ReplaceTop(sizing, g)[n] = g
        /\ \A k \in 1 .. n - 1 : ReplaceTop(sizing, g)[k] = sizing[k]
    BY <1>1, <1>3, ReplaceTopFacts
  <2> QED BY <2>1, <1>4 DEF Top
<1>6. TypeOK'
  BY <1>4, <1>5 DEF IInv, TypeOK
<1>7. Phases'
  BY <1>0, <1>1, <1>4, <1>5 DEF IInv, Phases
<1>8. CachesWellFormed' /\ PoolBounded'
  BY <1>4 DEF IInv, CachesWellFormed, PoolBounded
<1>9. SizeInv'
  <2> USE <1>0, <1>4
  <2>1. (sizing[1].msg)' = (call.root)'
    BY <1>1, <1>3, <1>5 DEF IInv, SizeInv
  <2>2. (call.op # "raw" => sizing[1].base = 0 /\ cache.cursor = 0)'
    BY <1>1, <1>3, <1>5 DEF IInv, SizeInv
  <2>3. ASSUME NEW k \in 1 .. n
        PROVE  LET fr == sizing'[k] IN
            /\ InMessage(fr)
            /\ SaturateSize(fr.acc) = SaturateSize(LenUpTo[fr.msg][fr.i - 1])
            /\ fr.base + SlotsUpTo[fr.msg][fr.i - 1] <= cache.len
            /\ Filled(cache, fr.base, fr.msg, SlotsUpTo[fr.msg][fr.i - 1])
            /\ fr.slot # NoSlot => fr.slot = fr.base - 1 /\ fr.slot < cache.len
    <3>1. CASE k < n
      BY <3>1, <1>1, <1>5 DEF IInv, SizeInv
    <3>2. CASE k = n
      <4>1. g.i - 1 = top.i /\ InMessage(g)
        BY <1>1, <1>3 DEF InMessage
      <4>2. SaturateSize(g.acc) = SaturateSize(LenUpTo[g.msg][g.i - 1])
        <5>1. SaturateSize(top.acc) = SaturateSize(LenUpTo[top.msg][top.i - 1])
          BY <1>1 DEF IInv, SizeInv
        <5>2. top.acc \in Nat /\ LenUpTo[top.msg][top.i - 1] \in Nat
              /\ f.n \in Nat
          BY <1>1, <1>2
        <5> HIDE DEF top
        <5>3. SaturateSize(top.acc + f.n)
                = SaturateSize(LenUpTo[top.msg][top.i - 1] + f.n)
          BY <5>1, <5>2, SatAdd
        <5>4. g.acc = top.acc + f.n
              /\ LenUpTo[g.msg][g.i - 1] = LenUpTo[top.msg][top.i - 1] + f.n
          BY <4>1, <1>2, <1>3
        <5> QED BY <5>3, <5>4
      <4>3. /\ top.base + SlotsUpTo[top.msg][top.i - 1] <= cache.len
            /\ Filled(cache, top.base, top.msg, SlotsUpTo[top.msg][top.i - 1])
            /\ top.slot # NoSlot =>
                  top.slot = top.base - 1 /\ top.slot < cache.len
        BY <1>1 DEF IInv, SizeInv
      <4> QED BY <3>2, <4>1, <4>2, <4>3, <1>2, <1>3, <1>5
    <3> QED BY <3>1, <3>2, <1>1
  <2>4. ASSUME NEW k \in 1 .. n - 1
        PROVE  /\ Invokes(sizing'[k], sizing'[k + 1])
               /\ sizing'[k + 1].slot # NoSlot <=> NeedsSlot(Cur(sizing'[k]))
    <3>1. /\ Invokes(sizing[k], sizing[k + 1])
          /\ sizing[k + 1].slot # NoSlot <=> NeedsSlot(Cur(sizing[k]))
      BY DEF IInv, SizeInv
    <3>2. /\ sizing'[k + 1].slot = sizing[k + 1].slot
          /\ sizing'[k + 1].msg = sizing[k + 1].msg
          /\ sizing'[k + 1].base = sizing[k + 1].base
      BY <1>1, <1>3, <1>5
    <3> QED BY <3>1, <3>2, <1>5 DEF Invokes
  <2>5. ASSUME NEW j \in 1 .. n, NEW k \in 1 .. n, j < k
        PROVE  sizing'[j].base + SlotsUpTo[sizing'[j].msg][sizing'[j].i - 1]
                  <= FirstSlot(sizing'[k])
    <3>1. sizing'[j] = sizing[j]
      BY <2>5, <1>1, <1>5
    <3>2. FirstSlot(sizing'[k]) = FirstSlot(sizing[k])
      BY <1>1, <1>3, <1>5 DEF FirstSlot
    <3> QED BY <2>5, <3>1, <3>2 DEF IInv, SizeInv
  <2>6. cache.len = g.base + SlotsUpTo[g.msg][g.i - 1]
    BY <1>1, <1>2, <1>3, SMTT(30) DEF IInv, SizeInv
  <2> QED BY <2>1, <2>2, <2>3, <2>4, <2>5, <2>6, <1>5 DEF SizeInv
<1>10. SizedInv' /\ WriteInv' /\ ReturnInv'
  BY <1>0, <1>4 DEF SizedInv, WriteInv, ReturnInv
<1> QED BY <1>6, <1>7, <1>8, <1>9, <1>10 DEF IInv

LEMMA SizeOpenStep ==
    ASSUME IInv, SizeOpen
    PROVE  IInv'
<1> DEFINE n == Len(sizing)
           top == Top(sizing)
           f == Cur(top)
           c == IF NeedsSlot(f) THEN Reserve(cache) ELSE cache
           g == [msg |-> f.of, i |-> 1, acc |-> 0,
                 slot |-> IF NeedsSlot(f) THEN ReserveIdx(cache) ELSE NoSlot,
                 base |-> c.len]
<1>0. pc = "sizing" /\ ~ AtEnd(top) /\ f.kind \in NestedKinds
  BY DEF SizeOpen
<1>1. /\ sizing \in Seq(SizeFrame) /\ sizing # <<>> /\ n \in Nat /\ n >= 1
      /\ top = sizing[n] /\ top \in SizeFrame /\ top.msg \in Msg
      /\ top.base \in Nat
      /\ Len(Fields[top.msg]) \in Nat
      /\ top.i \in 1 .. Len(Fields[top.msg])
  BY <1>0, SizeTop DEF AtEnd
<1>2. /\ f \in Field /\ f.of \in Msg
      /\ SlotsUpTo[top.msg][top.i - 1] \in Nat
      /\ LenUpTo[f.of][0] = 0 /\ SlotsUpTo[f.of][0] = 0
      /\ Len(Fields[f.of]) \in Nat
  <2>1. f = Fields[top.msg][top.i]
    BY DEF Cur
  <2>2. f \in Field /\ f.of \in Msg
    BY <1>1, <2>1, FieldType DEF Field
  <2>3. top.i - 1 \in 0 .. Len(Fields[top.msg])
    BY <1>1
  <2> QED BY <1>1, <2>2, <2>3, RefType
<1>3. cache \in CacheType /\ WellFormed(cache) /\ cache.len \in Nat
  BY DEF IInv, TypeOK, CachesWellFormed, CacheType
<1>4. /\ c \in CacheType /\ WellFormed(c) /\ c.len \in Nat
      /\ c.len = cache.len + OwnSlot(f) /\ c.cursor = cache.cursor
      /\ \A k \in Nat : k < cache.len => SlotValue(c, k) = SlotValue(cache, k)
  BY <1>3, ReserveOK, ReserveKeepsSlots DEF OwnSlot, NeedsSlot, CacheType
<1>5. /\ g.msg = f.of /\ g.i = 1 /\ g.acc = 0 /\ g.base = c.len
      /\ g.slot = IF NeedsSlot(f) THEN cache.len ELSE NoSlot
  BY DEF ReserveIdx
<1>6. g \in SizeFrame
  <2>1. (IF NeedsSlot(f) THEN ReserveIdx(cache) ELSE NoSlot) \in SlotOrNone
    BY <1>3 DEF ReserveIdx, SlotOrNone
  <2> QED BY <2>1, <1>2, <1>4 DEF SizeFrame
<1>7. /\ sizing' = Append(sizing, g) /\ cache' = c
      /\ UNCHANGED <<call, outcome, pc, writing, size, out, kept, free>>
  BY DEF SizeOpen
<1> HIDE DEF f, g, c
<1>8. /\ sizing' \in Seq(SizeFrame) /\ sizing' # <<>> /\ Len(sizing') = n + 1
      /\ sizing'[n + 1] = g /\ Top(sizing)' = g
      /\ \A k \in 1 .. n : sizing'[k] = sizing[k]
  <2>1. /\ Append(sizing, g) \in Seq(SizeFrame)
        /\ Append(sizing, g) # <<>>
        /\ Len(Append(sizing, g)) = n + 1
        /\ Append(sizing, g)[n + 1] = g
        /\ \A k \in 1 .. n : Append(sizing, g)[k] = sizing[k]
    BY <1>1, <1>6, PushFacts
  <2> QED BY <2>1, <1>7 DEF Top
<1>9. TypeOK'
  BY <1>4, <1>7, <1>8 DEF IInv, TypeOK
<1>10. Phases'
  BY <1>0, <1>1, <1>7, <1>8 DEF IInv, Phases
<1>11. CachesWellFormed' /\ PoolBounded'
  BY <1>4, <1>7 DEF IInv, CachesWellFormed, PoolBounded
<1>12. SizeInv'
  <2> USE <1>0, <1>7
  <2>1. (sizing[1].msg)' = (call.root)'
    BY <1>1, <1>8 DEF IInv, SizeInv
  <2>2. (call.op # "raw" => sizing[1].base = 0 /\ cache.cursor = 0)'
    BY <1>1, <1>4, <1>8 DEF IInv, SizeInv
  <2>3. ASSUME NEW k \in 1 .. n + 1
        PROVE  LET fr == sizing'[k] IN
            /\ InMessage(fr)
            /\ SaturateSize(fr.acc) = SaturateSize(LenUpTo[fr.msg][fr.i - 1])
            /\ fr.base + SlotsUpTo[fr.msg][fr.i - 1] <= c.len
            /\ Filled(c, fr.base, fr.msg, SlotsUpTo[fr.msg][fr.i - 1])
            /\ fr.slot # NoSlot => fr.slot = fr.base - 1 /\ fr.slot < c.len
    <3>1. CASE k \in 1 .. n
      <4> DEFINE fr == sizing[k]
                 m == SlotsUpTo[fr.msg][fr.i - 1]
      <4>1. /\ InMessage(fr)
            /\ SaturateSize(fr.acc) = SaturateSize(LenUpTo[fr.msg][fr.i - 1])
            /\ fr.base + m <= cache.len
            /\ Filled(cache, fr.base, fr.msg, m)
            /\ fr.slot # NoSlot => fr.slot = fr.base - 1 /\ fr.slot < cache.len
        BY <3>1 DEF IInv, SizeInv
      <4>2. /\ fr.base \in Nat /\ m \in Nat /\ fr.slot \in Nat \cup {-1}
            /\ cache.len <= c.len
        <5>1. fr.base \in Nat /\ fr.msg \in Msg /\ fr.slot \in Nat \cup {-1}
              /\ fr.i - 1 \in 0 .. Len(Fields[fr.msg])
          BY <3>1, SizeTop
        <5>2. m \in Nat
          BY <5>1, RefType
        <5>3. cache.len <= c.len
          <6>1. OwnSlot(f) \in {0, 1}
            BY DEF OwnSlot
          <6> QED BY <6>1, <1>3, <1>4
        <5> QED BY <5>1, <5>2, <5>3
      <4>3. Filled(c, fr.base, fr.msg, m)
        <5> SUFFICES ASSUME NEW s \in 1 .. m
                     PROVE  SlotValue(c, fr.base + s - 1)
                              = SaturateSize(TrueLen(Pre[fr.msg][s]))
          BY DEF Filled
        <5>1. fr.base + s - 1 \in Nat /\ fr.base + s - 1 < cache.len
          BY <4>1, <4>2, <1>3
        <5> QED BY <5>1, <4>1, <1>4 DEF Filled
      <4>4. /\ fr.base + m <= c.len
            /\ fr.slot # NoSlot => fr.slot = fr.base - 1 /\ fr.slot < c.len
        BY <4>1, <4>2, <1>3, <1>4 DEF NoSlot
      <4> QED BY <4>1, <4>3, <4>4, <3>1, <1>8
    <3>2. CASE k = n + 1
      <4>1. InMessage(g) /\ g.i - 1 = 0
        BY <1>2, <1>5 DEF InMessage
      <4>2. Filled(c, g.base, g.msg, 0)
        BY DEF Filled
      <4>3. g.slot # NoSlot => g.slot = g.base - 1 /\ g.slot < c.len
        BY <1>3, <1>4, <1>5 DEF OwnSlot, NeedsSlot, NoSlot
      <4>4. g.base + SlotsUpTo[g.msg][g.i - 1] <= c.len
        BY <4>1, <1>2, <1>4, <1>5
      <4> QED BY <3>2, <4>1, <4>2, <4>3, <4>4, <1>2, <1>5, <1>8
    <3> QED BY <3>1, <3>2, <1>1
  <2>4. ASSUME NEW k \in 1 .. n
        PROVE  /\ Invokes(sizing'[k], sizing'[k + 1])
               /\ sizing'[k + 1].slot # NoSlot <=> NeedsSlot(Cur(sizing'[k]))
    <3>1. CASE k < n
      BY <3>1, <1>1, <1>8 DEF IInv, SizeInv
    <3>2. CASE k = n
      <4>1. cache.len = top.base + SlotsUpTo[top.msg][top.i - 1]
        BY DEF IInv, SizeInv
      <4>2. Invokes(top, g)
        BY <4>1, <1>0, <1>1, <1>4, <1>5 DEF Invokes, f
      <4>3. g.slot # NoSlot <=> NeedsSlot(f)
        BY <1>3, <1>5 DEF NoSlot
      <4> QED BY <3>2, <4>2, <4>3, <1>1, <1>8 DEF f
    <3> QED BY <3>1, <3>2, <1>1
  <2>5. ASSUME NEW j \in 1 .. n + 1, NEW k \in 1 .. n + 1, j < k
        PROVE  sizing'[j].base + SlotsUpTo[sizing'[j].msg][sizing'[j].i - 1]
                  <= FirstSlot(sizing'[k])
    <3>1. sizing'[j] = sizing[j] /\ j \in 1 .. n
      BY <2>5, <1>1, <1>8
    <3>2. CASE k \in 1 .. n
      BY <2>5, <3>1, <3>2, <1>8 DEF IInv, SizeInv
    <3>3. CASE k = n + 1
      <4>1. sizing[j].base + SlotsUpTo[sizing[j].msg][sizing[j].i - 1] <= cache.len
        BY <3>1 DEF IInv, SizeInv
      <4>2. FirstSlot(g) = cache.len
        BY <1>3, <1>4, <1>5 DEF FirstSlot, OwnSlot, NeedsSlot, NoSlot
      <4> QED BY <3>1, <3>3, <4>1, <4>2, <1>8
    <3> QED BY <3>2, <3>3, <1>1
  <2>6. c.len = g.base + SlotsUpTo[g.msg][g.i - 1]
    BY <1>2, <1>4, <1>5
  <2>7. Len(sizing') - 1 = n
    BY <1>1, <1>8
  <2> QED BY <2>1, <2>2, <2>3, <2>4, <2>5, <2>6, <2>7, <1>8 DEF SizeInv
<1>13. SizedInv' /\ WriteInv' /\ ReturnInv'
  BY <1>0, <1>7 DEF SizedInv, WriteInv, ReturnInv
<1> QED BY <1>9, <1>10, <1>11, <1>12, <1>13 DEF IInv

LEMMA SizeCloseStep ==
    ASSUME IInv, SizeClose
    PROVE  IInv'
<1> DEFINE n == Len(sizing)
           fr == Top(sizing)
           inner == SaturateSize(fr.acc)
           rest == Pop(sizing)
           p == sizing[n - 1]
           f == Cur(p)
           g == Counted(p, FieldLen(f, inner))
           c == IF fr.slot = NoSlot THEN cache ELSE SetSlot(cache, fr.slot, inner)
           before == SlotsUpTo[p.msg][p.i - 1]
<1>0. pc = "sizing" /\ AtEnd(fr) /\ n > 1
  BY DEF SizeClose
<1>e. Top(rest) = p =>
        /\ sizing' = ReplaceTop(rest, g) /\ cache' = c
        /\ UNCHANGED <<call, outcome, pc, writing, size, out, kept, free>>
  BY DEF SizeClose
<1>f. f = Fields[p.msg][p.i] /\ f = Cur(p)
  BY DEF Cur
<1>g. g = Counted(p, FieldLen(f, inner))
  OBVIOUS
<1>c. c = IF fr.slot = NoSlot THEN cache ELSE SetSlot(cache, fr.slot, inner)
  OBVIOUS
<1>i. inner = SaturateSize(fr.acc)
  OBVIOUS
<1>b. before = SlotsUpTo[p.msg][p.i - 1]
  OBVIOUS
<1> HIDE DEF f, before, inner, g, c
<1>1. /\ sizing \in Seq(SizeFrame) /\ sizing # <<>> /\ n \in Nat /\ n >= 2
      /\ fr = sizing[n] /\ fr \in SizeFrame /\ fr.msg \in Msg /\ fr.acc \in Nat
      /\ fr.base \in Nat /\ fr.slot \in Nat \cup {-1}
      /\ fr.i = Len(Fields[fr.msg]) + 1 /\ Len(Fields[fr.msg]) \in Nat
      /\ p \in SizeFrame /\ p.msg \in Msg /\ p.acc \in Nat /\ p.base \in Nat
      /\ Len(Fields[p.msg]) \in Nat
  <2>1. n \in 1 .. n /\ n - 1 \in 1 .. n /\ n >= 2
    BY <1>0, SizeTop
  <2>2. fr.i > Len(Fields[fr.msg])
    BY <1>0 DEF AtEnd
  <2>3. /\ sizing \in Seq(SizeFrame) /\ sizing # <<>> /\ n \in Nat
        /\ fr = sizing[n]
    BY <1>0, SizeTop
  <2>4. /\ fr \in SizeFrame /\ fr.msg \in Msg /\ fr.acc \in Nat
        /\ fr.base \in Nat /\ fr.slot \in Nat \cup {-1}
        /\ Len(Fields[fr.msg]) \in Nat
        /\ fr.i \in 1 .. Len(Fields[fr.msg]) + 1
    BY <1>0, <2>1, <2>3, SizeTop
  <2>5. /\ p \in SizeFrame /\ p.msg \in Msg /\ p.acc \in Nat /\ p.base \in Nat
        /\ Len(Fields[p.msg]) \in Nat
    BY <1>0, <2>1, SizeTop
  <2>6. fr.i = Len(Fields[fr.msg]) + 1
    BY <2>2, <2>4
  <2> QED BY <2>1, <2>3, <2>4, <2>5, <2>6
<1>2. /\ p.i \in 1 .. Len(Fields[p.msg]) /\ f.kind \in NestedKinds
      /\ fr.msg = f.of /\ fr.base = p.base + before + OwnSlot(f)
      /\ fr.slot # NoSlot <=> NeedsSlot(f)
  <2>1. n - 1 \in 1 .. n - 1 /\ (n - 1) + 1 = n
    BY <1>1
  <2>2. Invokes(p, fr) /\ (fr.slot # NoSlot <=> NeedsSlot(f))
    BY <1>0, <1>1, <1>f, <2>1 DEF IInv, SizeInv
  <2> QED BY <2>2, <1>f, <1>b DEF Invokes
<1>3. /\ f = Fields[p.msg][p.i] /\ f \in Field
      /\ before \in Nat /\ OwnSlot(f) \in {0, 1}
      /\ LenUpTo[p.msg][p.i - 1] \in Nat
      /\ LenUpTo[p.msg][p.i]
            = LenUpTo[p.msg][p.i - 1] + FieldLen(f, TrueLen(fr.msg))
      /\ Slots(fr.msg) \in Nat /\ TrueLen(fr.msg) \in Nat
      /\ SlotsUpTo[p.msg][p.i] = before + OwnSlot(f) + Slots(fr.msg)
  <2>1. f = Fields[p.msg][p.i]
    BY <1>f
  <2>2. p.i - 1 \in 0 .. Len(Fields[p.msg])
    BY <1>1, <1>2
  <2>3. OwnSlot(f) \in {0, 1}
    BY DEF OwnSlot
  <2>4. SlotsUpTo[p.msg][p.i - 1] \in Nat /\ LenUpTo[p.msg][p.i - 1] \in Nat
    BY <1>1, <2>2, RefType
  <2>5. Slots(fr.msg) \in Nat /\ TrueLen(fr.msg) \in Nat
    BY <1>1, RefType
  <2>6. f \in Field
        /\ LenUpTo[p.msg][p.i]
              = LenUpTo[p.msg][p.i - 1] + FieldLen(f, TrueLen(f.of))
        /\ SlotsUpTo[p.msg][p.i] = SlotsUpTo[p.msg][p.i - 1] + OwnSlot(f) + Slots(f.of)
    BY <1>1, <1>2, <2>1, RefStep
  <2> QED BY <1>2, <1>b, <2>1, <2>3, <2>4, <2>5, <2>6
<1>4. /\ inner = SaturateSize(TrueLen(fr.msg)) /\ inner \in Nat
      /\ cache.len = fr.base + Slots(fr.msg)
      /\ Filled(cache, fr.base, fr.msg, Slots(fr.msg))
      /\ fr.slot # NoSlot => fr.slot = fr.base - 1 /\ fr.slot < cache.len
  <2>1. fr.i - 1 = Len(Fields[fr.msg])
    BY <1>1
  <2>2. /\ SaturateSize(fr.acc) = SaturateSize(LenUpTo[fr.msg][fr.i - 1])
        /\ Filled(cache, fr.base, fr.msg, SlotsUpTo[fr.msg][fr.i - 1])
        /\ fr.slot # NoSlot => fr.slot = fr.base - 1 /\ fr.slot < cache.len
        /\ cache.len = fr.base + SlotsUpTo[fr.msg][fr.i - 1]
    <3>1. n \in 1 .. Len(sizing)
      BY <1>1
    <3> QED BY <1>0, <1>1, <3>1 DEF IInv, SizeInv
  <2> QED BY <1>1, <1>i, <2>1, <2>2, SaturateNat DEF TrueLen, Slots
<1>n. p.base + SlotsUpTo[p.msg][p.i] = cache.len
  <2>1. /\ fr.base = p.base + before + OwnSlot(f)
        /\ SlotsUpTo[p.msg][p.i] = before + OwnSlot(f) + Slots(fr.msg)
        /\ cache.len = fr.base + Slots(fr.msg)
        /\ p.base \in Nat /\ before \in Nat /\ OwnSlot(f) \in {0, 1}
        /\ Slots(fr.msg) \in Nat
    BY <1>1, <1>2, <1>3, <1>4
  <2> QED BY <2>1
<1>5. cache \in CacheType /\ WellFormed(cache) /\ cache.len \in Nat
  BY DEF IInv, TypeOK, CachesWellFormed, CacheType
<1>6. /\ c \in CacheType /\ WellFormed(c) /\ c.len = cache.len
      /\ c.cursor = cache.cursor
      /\ fr.slot # NoSlot => SlotValue(c, fr.slot) = inner
      /\ \A k \in Nat : k < cache.len /\ k # fr.slot =>
            SlotValue(c, k) = SlotValue(cache, k)
  <2>1. CASE fr.slot = NoSlot
    BY <2>1, <1>5, <1>c
  <2>2. CASE fr.slot # NoSlot
    <3>1. fr.slot \in Nat /\ fr.slot < cache.len
      BY <2>2, <1>1, <1>4 DEF NoSlot
    <3>2. c = SetSlot(cache, fr.slot, inner)
      BY <2>2, <1>c
    <3> QED BY <3>1, <3>2, <1>4, <1>5, SetSlotOK
  <2> QED BY <2>1, <2>2
<1>7. /\ g \in SizeFrame /\ g.msg = p.msg /\ g.i = p.i + 1
      /\ g.acc = p.acc + FieldLen(f, inner)
      /\ g.slot = p.slot /\ g.base = p.base
  <2>1. FieldLen(f, inner) \in Nat
    BY <1>3, <1>4, FieldLenNat
  <2> QED BY <2>1, <1>1, <1>g, CountedFacts
<1>8. /\ rest \in Seq(SizeFrame) /\ rest # <<>> /\ Len(rest) = n - 1
      /\ \A k \in 1 .. n - 1 : rest[k] = sizing[k]
      /\ Top(rest) = p
  <2>1. /\ rest \in Seq(SizeFrame) /\ Len(rest) = n - 1
        /\ \A k \in 1 .. Len(rest) : rest[k] = sizing[k]
    BY <1>1, StackFacts
  <2>2. rest # <<>>
    BY <2>1, <1>1
  <2>3. n - 1 \in 1 .. n - 1
    BY <1>1
  <2> QED BY <2>1, <2>2, <2>3 DEF Top
<1>9. /\ sizing' = ReplaceTop(rest, g) /\ cache' = c
      /\ UNCHANGED <<call, outcome, pc, writing, size, out, kept, free>>
  BY <1>0, <1>8, <1>e
<1>10. /\ sizing' \in Seq(SizeFrame) /\ sizing' # <<>> /\ Len(sizing') = n - 1
       /\ sizing'[n - 1] = g /\ Top(sizing)' = g
       /\ \A k \in 1 .. n - 2 : sizing'[k] = sizing[k]
  <2>1. /\ ReplaceTop(rest, g) \in Seq(SizeFrame)
        /\ ReplaceTop(rest, g) # <<>>
        /\ Len(ReplaceTop(rest, g)) = n - 1
        /\ ReplaceTop(rest, g)[n - 1] = g
        /\ \A k \in 1 .. (n - 1) - 1 : ReplaceTop(rest, g)[k] = rest[k]
    <3>1. /\ ReplaceTop(rest, g) \in Seq(SizeFrame)
          /\ ReplaceTop(rest, g) # <<>>
          /\ Len(ReplaceTop(rest, g)) = Len(rest)
          /\ ReplaceTop(rest, g)[Len(rest)] = g
          /\ \A k \in 1 .. Len(rest) - 1 : ReplaceTop(rest, g)[k] = rest[k]
      <4>1. rest \in Seq(SizeFrame) /\ rest # <<>> /\ g \in SizeFrame
        BY <1>7, <1>8
      <4> HIDE DEF rest
      <4> QED BY <4>1, ReplaceTopFacts
    <3> QED BY <3>1, <1>8
  <2> QED BY <2>1, <1>1, <1>8, <1>9 DEF Top
<1>11. TypeOK'
  BY <1>6, <1>9, <1>10 DEF IInv, TypeOK
<1>12. Phases'
  BY <1>0, <1>1, <1>9, <1>10 DEF IInv, Phases
<1>13. CachesWellFormed' /\ PoolBounded'
  BY <1>6, <1>9 DEF IInv, CachesWellFormed, PoolBounded
<1>14. SizeInv'
  <2>0. sizing'[1].msg = sizing[1].msg /\ sizing'[1].base = sizing[1].base
    <3>1. CASE n = 2
      BY <3>1, <1>1, <1>7, <1>10
    <3>2. CASE n > 2
      <4>1. 1 \in 1 .. n - 2
        BY <3>2, <1>1
      <4> QED BY <4>1, <1>10
    <3>3. n = 2 \/ n > 2
      <4>1. n \in Nat /\ n >= 2
        BY <1>1
      <4> HIDE DEF n
      <4> QED BY <4>1
    <3> QED BY <3>1, <3>2, <3>3
  <2>1. (sizing[1].msg)' = (call.root)'
    BY <1>0, <1>9, <2>0 DEF IInv, SizeInv
  <2>2. (call.op # "raw" => sizing[1].base = 0 /\ cache.cursor = 0)'
    <3>1. call.op # "raw" => sizing[1].base = 0 /\ cache.cursor = 0
      BY <1>0 DEF IInv, SizeInv
    <3>2. cache'.cursor = cache.cursor /\ call' = call
      BY <1>6, <1>9
    <3> QED BY <3>1, <3>2, <2>0
  <2>3. ASSUME NEW k \in 1 .. n - 1
        PROVE  LET h == sizing'[k] IN
            /\ InMessage(h)
            /\ SaturateSize(h.acc) = SaturateSize(LenUpTo[h.msg][h.i - 1])
            /\ h.base + SlotsUpTo[h.msg][h.i - 1] <= c.len
            /\ Filled(c, h.base, h.msg, SlotsUpTo[h.msg][h.i - 1])
            /\ h.slot # NoSlot => h.slot = h.base - 1 /\ h.slot < c.len
    \* what the frames below the closed one know about their slots
    <3> DEFINE h == sizing[k]
               m == SlotsUpTo[h.msg][h.i - 1]
    <3>1. /\ InMessage(h)
          /\ SaturateSize(h.acc) = SaturateSize(LenUpTo[h.msg][h.i - 1])
          /\ h.base + m <= cache.len
          /\ Filled(cache, h.base, h.msg, m)
          /\ h.slot # NoSlot => h.slot = h.base - 1 /\ h.slot < cache.len
          /\ h.base + m <= FirstSlot(fr)
      BY <1>0, <1>9, <1>1 DEF IInv, SizeInv
    <3>2. /\ h.base \in Nat /\ h.msg \in Msg /\ h.slot \in Nat \cup {-1}
          /\ m \in Nat
      <4>1. h.base \in Nat /\ h.msg \in Msg /\ h.slot \in Nat \cup {-1}
            /\ h.i - 1 \in 0 .. Len(Fields[h.msg])
        <5>1. k \in 1 .. Len(sizing)
          BY <1>1
        <5>2. /\ h.base \in Nat /\ h.msg \in Msg /\ h.slot \in Nat \cup {-1}
              /\ h.i \in 1 .. Len(Fields[h.msg]) + 1
              /\ Len(Fields[h.msg]) \in Nat
          BY <1>0, <5>1, SizeTop
        <5> QED BY <5>2
      <4> QED BY <4>1, RefType
    <3>3. Filled(c, h.base, h.msg, m)
      <4> SUFFICES ASSUME NEW s \in 1 .. m
                   PROVE  SlotValue(c, h.base + s - 1)
                            = SaturateSize(TrueLen(Pre[h.msg][s]))
        BY DEF Filled
      <4>1. /\ h.base + s - 1 \in Nat /\ h.base + s - 1 < cache.len
            /\ h.base + s - 1 # fr.slot
        <5>1. fr.slot # NoSlot => FirstSlot(fr) = fr.slot
          BY DEF FirstSlot
        <5>2. h.base + m <= cache.len /\ h.base \in Nat /\ m \in Nat
              /\ cache.len \in Nat
          BY <3>1, <3>2, <1>5
        <5>3. h.base + s - 1 \in Nat /\ h.base + s - 1 < cache.len
              /\ h.base + s - 1 < h.base + m
          <6> HIDE DEF m, h
          <6> QED BY <5>2
        <5>4. CASE fr.slot = NoSlot
          BY <5>3, <5>4 DEF NoSlot
        <5>5. CASE fr.slot # NoSlot
          <6>1. h.base + m <= fr.slot
            BY <5>1, <5>5, <3>1
          <6>2. fr.slot \in Nat
            BY <5>5, <1>1 DEF NoSlot
          <6> HIDE DEF m, h, fr
          <6> QED BY <6>1, <6>2, <5>2, <5>3
        <5> QED BY <5>3, <5>4, <5>5
      <4> QED BY <4>1, <3>1, <1>6 DEF Filled
    <3>4. CASE k < n - 1
      <4>1. sizing'[k] = h
        <5>1. k \in 1 .. n - 2
          BY <3>4, <1>1
        <5> QED BY <5>1, <1>10
      <4> HIDE DEF h
      <4> QED BY <3>1, <3>3, <4>1, <1>6
    <3>5. CASE k = n - 1
      <4>1. h = p /\ m = before /\ g.i - 1 = p.i
        BY <3>5, <1>1, <1>2, <1>7, <1>b
      <4>2. InMessage(g)
        BY <1>1, <1>2, <1>7, SMTT(30) DEF InMessage
      <4>3. SaturateSize(g.acc) = SaturateSize(LenUpTo[g.msg][g.i - 1])
        <5>1. SaturateSize(p.acc) = SaturateSize(LenUpTo[p.msg][p.i - 1])
          BY <3>1, <4>1
        <5>2. SaturateSize(p.acc + FieldLen(f, SaturateSize(TrueLen(fr.msg))))
                = SaturateSize(LenUpTo[p.msg][p.i - 1] + FieldLen(f, TrueLen(fr.msg)))
          <6>1. /\ p.acc \in Nat /\ LenUpTo[p.msg][p.i - 1] \in Nat
                /\ TrueLen(fr.msg) \in Nat /\ f \in Field
                /\ f.kind \in NestedKinds
            BY <1>1, <1>2, <1>3
          <6> HIDE DEF fr, p
          <6> QED BY <5>1, <6>1, SatField
        <5> QED BY <5>2, <4>1, <1>3, <1>4, <1>7
      <4>4. g.base + SlotsUpTo[g.msg][g.i - 1] = c.len
        BY <4>1, <1>6, <1>7, <1>n
      <4>5. Filled(c, p.base, p.msg, SlotsUpTo[p.msg][p.i])
        <5> SUFFICES ASSUME NEW s \in 1 .. SlotsUpTo[p.msg][p.i]
                     PROVE  SlotValue(c, p.base + s - 1)
                              = SaturateSize(TrueLen(Pre[p.msg][s]))
          BY DEF Filled
        <5>1. CASE s <= before
          <6>1. s \in 1 .. before
            BY <5>1, <1>3
          <6> QED BY <6>1, <3>3, <4>1 DEF Filled
        <5>2. CASE s = before + OwnSlot(f) /\ OwnSlot(f) = 1
          <6>1. f.kind \in SlotKinds /\ fr.slot # NoSlot
            BY <5>2, <1>2 DEF OwnSlot, NeedsSlot
          <6>2. Pre[p.msg][s] = fr.msg
            <7>1. Pre[p.msg][before + OwnSlot(f)] = f.of
              <8>1. p.msg \in Msg /\ p.i \in 1 .. Len(Fields[p.msg])
                    /\ Fields[p.msg][p.i].kind \in NestedKinds
                BY <1>1, <1>2, <1>f
              <8> QED BY <8>1, <6>1, <1>f, <1>b, RefPre
            <7> QED BY <7>1, <5>2, <1>2
          <6>3. p.base + s - 1 = fr.slot
            <7>1. fr.slot = fr.base - 1 /\ fr.base = p.base + before + OwnSlot(f)
                  /\ s = before + OwnSlot(f)
                  /\ p.base \in Nat /\ before \in Nat /\ OwnSlot(f) \in {0, 1}
              BY <6>1, <5>2, <1>1, <1>2, <1>3, <1>4
            <7> QED BY <7>1
          <6> QED BY <6>1, <6>2, <6>3, <1>4, <1>6
        <5>3. CASE s > before + OwnSlot(f)
          <6> DEFINE t == s - (before + OwnSlot(f))
          <6>1. t \in 1 .. Slots(fr.msg) /\ before + OwnSlot(f) + t = s
            BY <5>3, <1>3
          <6>2. Pre[p.msg][s] = Pre[fr.msg][t]
            <7>1. p.msg \in Msg /\ p.i \in 1 .. Len(Fields[p.msg])
                  /\ Fields[p.msg][p.i].kind \in NestedKinds
              BY <1>1, <1>2, <1>f
            <7>2. \A x \in 1 .. Slots(f.of) :
                     Pre[p.msg][before + OwnSlot(f) + x] = Pre[f.of][x]
              <8>1. \A x \in 1 .. Slots(Fields[p.msg][p.i].of) :
                       Pre[p.msg][SlotsUpTo[p.msg][p.i - 1]
                                    + OwnSlot(Fields[p.msg][p.i]) + x]
                         = Pre[Fields[p.msg][p.i].of][x]
                <9> HIDE DEF p
                <9> QED BY <7>1, RefPre
              <8> QED BY <8>1, <1>f, <1>b
            <7> QED BY <7>2, <6>1, <1>2
          <6>3. /\ p.base + s - 1 = fr.base + t - 1
                /\ fr.base + t - 1 \in Nat /\ fr.base + t - 1 < cache.len
                /\ fr.base + t - 1 # fr.slot
            <7>1. /\ fr.base = p.base + before + OwnSlot(f)
                  /\ p.base \in Nat /\ before \in Nat /\ OwnSlot(f) \in {0, 1}
                  /\ cache.len = fr.base + Slots(fr.msg) /\ Slots(fr.msg) \in Nat
                  /\ fr.base \in Nat
              BY <1>1, <1>2, <1>3, <1>4
            <7>2. fr.slot = -1 \/ fr.slot = fr.base - 1
              BY <1>4 DEF NoSlot
            <7>3. s \in Int /\ t \in Int /\ t >= 1 /\ t <= Slots(fr.msg)
                  /\ s = before + OwnSlot(f) + t
              BY <6>1, <7>1
            <7> HIDE DEF t, fr, p
            <7>4. /\ p.base + s - 1 = fr.base + t - 1
                  /\ fr.base + t - 1 \in Nat /\ fr.base + t - 1 >= fr.base
                  /\ fr.base + t - 1 < fr.base + Slots(fr.msg)
              <8>0. OwnSlot(f) \in Int /\ before \in Int /\ p.base \in Int
                    /\ fr.base = p.base + before + OwnSlot(f) /\ t \in Int
                    /\ s = before + OwnSlot(f) + t
                BY <7>1, <7>3
              <8>1. fr.base + t - 1 = p.base + s - 1
                BY <8>0, SMTT(30)
              <8>2. fr.base + t - 1 \in Nat
                BY <7>1, <7>3, SMTT(30)
              <8>3. fr.base + t - 1 >= fr.base
                BY <7>1, <7>3
              <8>4. fr.base + t - 1 < fr.base + Slots(fr.msg)
                BY <7>1, <7>3
              <8> QED BY <8>1, <8>2, <8>3, <8>4
            <7>6. fr.base + t - 1 # fr.slot
              BY <7>1, <7>2, <7>4
            <7> QED BY <7>1, <7>4, <7>6
          <6>4. SlotValue(cache, fr.base + t - 1)
                  = SaturateSize(TrueLen(Pre[fr.msg][t]))
            BY <6>1, <1>4 DEF Filled
          <6> QED BY <6>2, <6>3, <6>4, <1>6
        <5>4. s \in Nat /\ s >= 1 /\ before \in Nat /\ OwnSlot(f) \in {0, 1}
          <6>1. SlotsUpTo[p.msg][p.i] \in Nat
            BY <1>3
          <6> QED BY <6>1, <1>3
        <5> QED BY <5>1, <5>2, <5>3, <5>4
      <4>6. sizing'[k] = g
        BY <3>5, <1>10
      <4>7. Filled(c, g.base, g.msg, SlotsUpTo[g.msg][g.i - 1])
        BY <4>1, <4>5, <1>7
      <4>8. g.slot # NoSlot => g.slot = g.base - 1 /\ g.slot < c.len
        BY <3>1, <4>1, <1>6, <1>7
      <4>9. g.base + SlotsUpTo[g.msg][g.i - 1] <= c.len
        BY <4>4, <1>5, <1>6
      <4> HIDE DEF fr, p, n, rest
      <4> QED BY <4>2, <4>3, <4>6, <4>7, <4>8, <4>9
    <3> QED BY <3>4, <3>5, <1>1
  <2>4. ASSUME NEW k \in 1 .. n - 2
        PROVE  /\ Invokes(sizing'[k], sizing'[k + 1])
               /\ sizing'[k + 1].slot # NoSlot <=> NeedsSlot(Cur(sizing'[k]))
    <3>1. /\ Invokes(sizing[k], sizing[k + 1])
          /\ sizing[k + 1].slot # NoSlot <=> NeedsSlot(Cur(sizing[k]))
      <4>1. k \in 1 .. Len(sizing) - 1
        BY <1>1
      <4>2. \A j \in 1 .. Len(sizing) - 1 :
               /\ Invokes(sizing[j], sizing[j + 1])
               /\ sizing[j + 1].slot # NoSlot <=> NeedsSlot(Cur(sizing[j]))
        BY <1>0 DEF IInv, SizeInv
      <4> QED BY <4>1, <4>2
    <3>2. /\ sizing'[k + 1].slot = sizing[k + 1].slot
          /\ sizing'[k + 1].msg = sizing[k + 1].msg
          /\ sizing'[k + 1].base = sizing[k + 1].base
      <4>1. CASE k + 1 = n - 1
        BY <4>1, <1>7, <1>10
      <4>2. CASE k + 1 # n - 1
        <5>1. k + 1 \in 1 .. n - 2
          BY <4>2, <1>1
        <5> QED BY <5>1, <1>10
      <4> QED BY <4>1, <4>2
    <3> QED BY <3>1, <3>2, <1>10 DEF Invokes
  <2>5. ASSUME NEW j \in 1 .. n - 1, NEW k \in 1 .. n - 1, j < k
        PROVE  sizing'[j].base + SlotsUpTo[sizing'[j].msg][sizing'[j].i - 1]
                  <= FirstSlot(sizing'[k])
    <3>1. sizing'[j] = sizing[j]
      <4>1. j \in 1 .. n - 2
        BY <2>5, <1>1
      <4> QED BY <4>1, <1>10
    <3>2. FirstSlot(sizing'[k]) = FirstSlot(sizing[k])
      <4>1. CASE k = n - 1
        BY <4>1, <1>7, <1>10 DEF FirstSlot
      <4>2. CASE k # n - 1
        <5>1. k \in 1 .. n - 2
          BY <4>2, <1>1
        <5> QED BY <5>1, <1>10
      <4> QED BY <4>1, <4>2
    <3>3. j \in 1 .. n /\ k \in 1 .. n
      BY <1>1
    <3> QED BY <1>0, <1>9, <2>5, <3>1, <3>2, <3>3 DEF IInv, SizeInv
  <2>6. c.len = g.base + SlotsUpTo[g.msg][g.i - 1]
    <3>1. g.i - 1 = p.i
      BY <1>2, <1>7
    <3> QED BY <3>1, <1>6, <1>7, <1>n
  <2>7. Len(sizing') - 1 = n - 2
    BY <1>1, <1>10
  <2> QED BY <1>9, <2>1, <2>2, <2>3, <2>4, <2>5, <2>6, <2>7, <1>10 DEF SizeInv
<1>15. SizedInv' /\ WriteInv' /\ ReturnInv'
  BY <1>0, <1>9 DEF SizedInv, WriteInv, ReturnInv
<1> QED BY <1>11, <1>12, <1>13, <1>14, <1>15 DEF IInv

LEMMA SizeDoneStep ==
    ASSUME IInv, SizeDone
    PROVE  IInv'
<1> DEFINE fr == Top(sizing)
<1>0. pc = "sizing" /\ AtEnd(fr) /\ Len(sizing) = 1
  BY DEF SizeDone
<1>1. /\ fr = sizing[1] /\ fr.msg \in Msg /\ fr.acc \in Nat
      /\ fr.i = Len(Fields[fr.msg]) + 1 /\ Len(Fields[fr.msg]) \in Nat
  BY <1>0, SizeTop DEF AtEnd
<1>2. /\ size' = SaturateSize(fr.acc) /\ sizing' = <<>> /\ pc' = "sized"
      /\ UNCHANGED <<call, outcome, writing, out, cache, kept, free>>
  BY DEF SizeDone
<1>3. /\ SaturateSize(fr.acc) = SaturateSize(TrueLen(fr.msg))
      /\ fr.msg = call.root
      /\ call.op # "raw" => fr.base = 0 /\ cache.cursor = 0
      /\ Filled(cache, fr.base, fr.msg, Slots(fr.msg))
      /\ cache.len = fr.base + Slots(fr.msg)
  <2>1. fr.i - 1 = Len(Fields[fr.msg])
    BY <1>1
  <2> QED BY <1>0, <1>1, <2>1 DEF IInv, SizeInv, TrueLen, Slots
<1>4. TypeOK'
  <2>1. size' \in 0 .. MaxU32
    BY <1>1, <1>2, LimitsAssumption DEF SaturateSize
  <2> QED BY <1>2, <2>1 DEF IInv, TypeOK
<1>5. Phases'
  BY <1>0, <1>2 DEF IInv, Phases
<1>6. CachesWellFormed' /\ PoolBounded'
  BY <1>2 DEF IInv, CachesWellFormed, PoolBounded
<1>7. SizedInv'
  <2>1. call.op # "raw" => cache.len = Slots(fr.msg)
    BY <1>1, <1>3, RefType
  <2> QED BY <1>2, <1>3, <2>1 DEF SizedInv
<1>8. SizeInv' /\ WriteInv' /\ ReturnInv'
  BY <1>2 DEF SizeInv, WriteInv, ReturnInv
<1> QED BY <1>4, <1>5, <1>6, <1>7, <1>8 DEF IInv

-----------------------------------------------------------------------------
(***************************************************************************)
(* Calls begin and end.                                                    *)
(***************************************************************************)
LEMMA CallFacts ==
    ASSUME NEW c \in Calls
    PROVE  c.root \in Msg /\ c.max \in Nat /\ c # NoCall
<1>1. c.root \in Msg /\ c.max \in Nat
  BY BudgetsAssumption, LimitsAssumption DEF Calls
<1>2. c.op # "none"
  BY DEF Calls
<1> QED BY <1>1, <1>2 DEF NoCall

LEMMA Running ==
    ASSUME IInv, pc # "idle"
    PROVE  call \in Calls /\ call.root \in Msg /\ call.max \in Nat
BY CallFacts DEF IInv, TypeOK, Phases

LEMMA CallCacheOK ==
    ASSUME IInv, NEW c \in Calls
    PROVE  /\ CallCache(c) \in CacheType /\ WellFormed(CallCache(c))
           /\ CallCache(c).len \in Nat
           /\ c.op # "raw" => CallCache(c).len = 0 /\ CallCache(c).cursor = 0
<1>1. free \in PoolType /\ kept \in CacheType /\ WellFormed(kept)
  BY DEF IInv, TypeOK, CachesWellFormed
<1>2. CASE c.src = "fresh"
  BY <1>2, NewCacheOK DEF CallCache, NewCache, WithSpillBuffer
<1>3. CASE c.src = "pool"
  <2>1. CallCache(c) = AcquiredCache(free)
    BY <1>3 DEF CallCache
  <2>2. /\ AcquiredCache(free) \in CacheType
        /\ WellFormed(AcquiredCache(free)) /\ AcquiredCache(free).len = 0
    BY <1>1, AcquireOK
  <2>3. AcquiredCache(free).cursor = 0
    BY <2>2 DEF WellFormed, CacheType
  <2> QED BY <2>1, <2>2, <2>3
<1>4. CASE c.src = "kept" /\ c.op = "raw"
  <2>1. CallCache(c) = kept
    BY <1>4 DEF CallCache
  <2> QED BY <2>1, <1>1, <1>4 DEF CacheType
<1>5. CASE c.src = "kept" /\ c.op # "raw"
  <2>1. CallCache(c) = Clear(kept)
    BY <1>5 DEF CallCache
  <2>2. Clear(kept).len = 0 /\ Clear(kept).cursor = 0
    BY <1>1 DEF Clear, CacheType
  <2> QED BY <2>1, <2>2, <1>1, ClearOK
<1> QED BY <1>2, <1>3, <1>4, <1>5 DEF Calls

LEMMA BeginCallStep ==
    ASSUME IInv, NEW c \in Calls, BeginCall(c)
    PROVE  IInv'
<1> DEFINE fr == [msg |-> c.root, i |-> 1, acc |-> 0, slot |-> NoSlot,
                  base |-> CallCache(c).len]
<1>1. /\ c.root \in Msg /\ c # NoCall
      /\ CallCache(c) \in CacheType /\ WellFormed(CallCache(c))
      /\ CallCache(c).len \in Nat
      /\ c.op # "raw" => CallCache(c).len = 0 /\ CallCache(c).cursor = 0
  BY CallFacts, CallCacheOK
<1>2. /\ pc = "idle" /\ pc' = "sizing" /\ call' = c /\ outcome' = NoOutcome
      /\ out' = 0 /\ cache' = CallCache(c) /\ sizing' = <<fr>>
      /\ free' = IF c.src = "pool" THEN AcquiredPool(free) ELSE free
      /\ UNCHANGED <<writing, size, kept>>
  BY DEF BeginCall
<1>3. /\ fr \in SizeFrame /\ fr.msg = c.root /\ fr.i = 1 /\ fr.acc = 0
      /\ fr.slot = NoSlot /\ fr.base = CallCache(c).len
  <2>1. NoSlot \in SlotOrNone
    BY DEF SlotOrNone
  <2> QED BY <1>1, <2>1 DEF SizeFrame
<1>4. /\ LenUpTo[c.root][0] = 0 /\ SlotsUpTo[c.root][0] = 0
      /\ Len(Fields[c.root]) \in Nat
  BY <1>1, RefType
<1> HIDE DEF fr
<1>5. /\ sizing' \in Seq(SizeFrame) /\ Len(sizing') = 1 /\ sizing'[1] = fr
      /\ Top(sizing)' = fr /\ sizing' # <<>>
  BY <1>2, <1>3 DEF Top
<1>6. free' \in PoolType /\ PoolBounded'
  <2>1. free \in PoolType /\ cache \in CacheType /\ PoolWithin(free)
    BY DEF IInv, TypeOK, PoolBounded, PoolWithin
  <2>2. AcquiredPool(free) \in PoolType /\ PoolWithin(AcquiredPool(free))
    BY <2>1, AcquireOK, PoolOK
  <2>3. free' \in PoolType /\ PoolWithin(free')
    BY <1>2, <2>1, <2>2
  <2> QED BY <2>3 DEF PoolBounded, PoolWithin
<1>7. TypeOK'
  BY <1>1, <1>2, <1>5, <1>6 DEF IInv, TypeOK
<1>8. Phases'
  BY <1>1, <1>2, <1>5 DEF IInv, Phases
<1>9. CachesWellFormed'
  BY <1>1, <1>2 DEF IInv, CachesWellFormed
<1>10. SizeInv'
  <2>1. fr.i - 1 = 0
    BY <1>3
  <2>2. Filled(CallCache(c), fr.base, fr.msg, 0)
    BY DEF Filled
  <2>3. \A k \in 1 .. 1 : k = 1
    OBVIOUS
  <2>4. InMessage(fr)
    BY <1>3, <1>4 DEF InMessage
  <2>5. fr.base + SlotsUpTo[fr.msg][fr.i - 1] = CallCache(c).len
    BY <1>1, <1>3, <1>4, <2>1
  <2>6. SaturateSize(fr.acc) = SaturateSize(LenUpTo[fr.msg][fr.i - 1])
    BY <1>3, <1>4, <2>1
  <2>7. \A k \in 1 .. Len(sizing') : sizing'[k] = fr
    BY <1>5, <2>3
  <2>8. \A k \in 1 .. Len(sizing') :
            LET h == sizing'[k] IN
            /\ InMessage(h)
            /\ SaturateSize(h.acc) = SaturateSize(LenUpTo[h.msg][h.i - 1])
            /\ h.base + SlotsUpTo[h.msg][h.i - 1] <= cache'.len
            /\ Filled(cache', h.base, h.msg, SlotsUpTo[h.msg][h.i - 1])
            /\ h.slot # NoSlot => h.slot = h.base - 1 /\ h.slot < cache'.len
    <3>1. SlotsUpTo[fr.msg][fr.i - 1] = 0
      BY <1>3, <1>4, <2>1
    <3>2. fr.base + SlotsUpTo[fr.msg][fr.i - 1] <= CallCache(c).len
      BY <2>5, <1>1
    <3> QED BY <3>1, <3>2, <1>2, <1>3, <2>2, <2>4, <2>6, <2>7
  <2>9. \A j, k \in 1 .. Len(sizing') : ~ (j < k)
    BY <1>5
  <2>10. \A k \in 1 .. Len(sizing') - 1 : FALSE
    BY <1>5
  <2> QED BY <1>1, <1>2, <1>3, <1>5, <2>5, <2>8, <2>9, <2>10 DEF SizeInv
<1>11. SizedInv' /\ WriteInv' /\ ReturnInv'
  BY <1>2 DEF SizedInv, WriteInv, ReturnInv
<1> QED BY <1>6, <1>7, <1>8, <1>9, <1>10, <1>11 DEF IInv

LEMMA PoolAcquireStep ==
    ASSUME IInv, PoolAcquire
    PROVE  IInv'
<1>1. /\ pc = "idle" /\ kept' = AcquiredCache(free) /\ free' = AcquiredPool(free)
      /\ UNCHANGED <<call, outcome, pc, sizing, writing, size, out, cache>>
  BY DEF PoolAcquire
<1>2. free \in PoolType /\ cache \in CacheType /\ PoolWithin(free)
  BY DEF IInv, TypeOK, PoolBounded, PoolWithin
<1>3. /\ AcquiredPool(free) \in PoolType /\ PoolWithin(AcquiredPool(free))
      /\ AcquiredCache(free) \in CacheType /\ WellFormed(AcquiredCache(free))
  BY <1>2, AcquireOK, PoolOK
<1>4. TypeOK'
  BY <1>1, <1>3 DEF IInv, TypeOK
<1>5. Phases'
  BY <1>1 DEF IInv, Phases
<1>6. CachesWellFormed' /\ PoolBounded'
  BY <1>1, <1>3 DEF IInv, CachesWellFormed, PoolBounded, PoolWithin
<1>7. SizeInv' /\ SizedInv' /\ WriteInv' /\ ReturnInv'
  BY <1>1 DEF SizeInv, SizedInv, WriteInv, ReturnInv
<1> QED BY <1>4, <1>5, <1>6, <1>7 DEF IInv

LEMMA PoolReleaseStep ==
    ASSUME IInv, PoolRelease
    PROVE  IInv'
<1>1. /\ pc = "idle" /\ kept' = NewCache /\ free' = Release(free, kept)
      /\ UNCHANGED <<call, outcome, pc, sizing, writing, size, out, cache>>
  BY DEF PoolRelease
<1>2. free \in PoolType /\ kept \in CacheType /\ PoolWithin(free)
  BY DEF IInv, TypeOK, PoolBounded, PoolWithin
<1>3. Release(free, kept) \in PoolType /\ PoolWithin(Release(free, kept))
  BY <1>2, PoolOK
<1>4. TypeOK'
  BY <1>1, <1>3, NewCacheOK DEF IInv, TypeOK
<1>5. Phases'
  BY <1>1 DEF IInv, Phases
<1>6. CachesWellFormed' /\ PoolBounded'
  BY <1>1, <1>3, NewCacheOK DEF IInv, CachesWellFormed, PoolBounded, PoolWithin
<1>7. SizeInv' /\ SizedInv' /\ WriteInv' /\ ReturnInv'
  BY <1>1 DEF SizeInv, SizedInv, WriteInv, ReturnInv
<1> QED BY <1>4, <1>5, <1>6, <1>7 DEF IInv

\* A length within the limit was not saturated.
LEMMA VerdictFacts ==
    ASSUME IInv, pc \in {"sized", "writing", "returning"}
    PROVE  /\ Verdict \in Outcome /\ Verdict.written = 0
           /\ Verdict.status = "ok" /\ call.op # "raw" =>
                 size <= MaxMessage /\ TrueLen(call.root) = size
<1>1. size \in Nat /\ TrueLen(call.root) \in Nat
      /\ size = SaturateSize(TrueLen(call.root))
  <2>1. call.root \in Msg
    BY Running
  <2>2. size \in 0 .. MaxU32
    BY DEF IInv, TypeOK
  <2> QED BY <2>1, <2>2, RefType, LimitsAssumption DEF IInv, SizedInv
<1>2. Verdict \in Outcome /\ Verdict.written = 0
  BY <1>1 DEF Verdict, Outcome, Refused
<1>3. Verdict.status = "ok" /\ call.op # "raw" => size <= MaxMessage
  BY <1>1, LimitsAssumption DEF Verdict, Refused
<1>4. size <= MaxMessage => TrueLen(call.root) = size
  BY <1>1, LimitsAssumption DEF SaturateSize
<1> QED BY <1>2, <1>3, <1>4

LEMMA ReturnStep ==
    ASSUME IInv, Return
    PROVE  IInv'
<1>1. /\ pc = "returning" /\ pc' = "idle" /\ call' = NoCall
      /\ outcome' = [Verdict EXCEPT !.written = out]
      /\ kept' = IF call.src = "kept" THEN cache ELSE kept
      /\ free' = IF call.src = "pool" THEN Release(free, cache) ELSE free
      /\ cache' = NewCache /\ size' = 0 /\ out' = 0
      /\ UNCHANGED <<sizing, writing>>
  BY DEF Return
<1>2. free \in PoolType /\ cache \in CacheType /\ PoolWithin(free) /\ out \in Nat
  BY DEF IInv, TypeOK, PoolBounded, PoolWithin
<1>3. Release(free, cache) \in PoolType /\ PoolWithin(Release(free, cache))
  BY <1>2, PoolOK
<1>4. free' \in PoolType /\ PoolWithin(free')
  BY <1>1, <1>2, <1>3
<1>5. outcome' \in Outcome
  <2>1. Verdict \in Outcome
    BY <1>1, VerdictFacts
  <2> HIDE DEF Verdict
  <2> QED BY <1>1, <1>2, <2>1 DEF Outcome
<1>6. TypeOK'
  BY <1>1, <1>4, <1>5, NewCacheOK, LimitsAssumption DEF IInv, TypeOK
<1>7. Phases'
  BY <1>1 DEF IInv, Phases
<1>8. CachesWellFormed' /\ PoolBounded'
  BY <1>1, <1>4, NewCacheOK DEF IInv, CachesWellFormed, PoolBounded, PoolWithin
<1>9. SizeInv' /\ SizedInv' /\ WriteInv' /\ ReturnInv'
  BY <1>1 DEF SizeInv, SizedInv, WriteInv, ReturnInv
<1> QED BY <1>6, <1>7, <1>8, <1>9 DEF IInv

LEMMA CheckSizeStep ==
    ASSUME IInv, CheckSize
    PROVE  IInv'
<1> DEFINE go == Verdict.status = "ok" /\ call.op \notin {"len", "raw"}
           at == IF call.op = "delimited" THEN VarintLen(size) ELSE 0
           fr == [msg |-> call.root, i |-> 1, start |-> at, decl |-> size,
                  base |-> cache.cursor]
<1>1. /\ pc = "sized" /\ UNCHANGED <<call, outcome, sizing, size, cache, kept, free>>
      /\ go => pc' = "writing" /\ out' = at /\ writing' = <<fr>>
      /\ ~ go => pc' = "returning" /\ UNCHANGED <<out, writing>>
  BY DEF CheckSize
<1>2. /\ call \in Calls /\ call.root \in Msg /\ size \in Nat /\ at \in Nat
      /\ cache.cursor \in Nat /\ out = 0 /\ at = BodyStart
  <2>1. size \in Nat
    BY LimitsAssumption DEF IInv, TypeOK
  <2> QED BY <1>1, <2>1, Running, VarintLenNat
          DEF IInv, TypeOK, CacheType, Phases, BodyStart
<1>3. UNCHANGED <<Verdict, BodyStart>>
  BY <1>1 DEF Verdict, BodyStart
<1>4. CachesWellFormed' /\ PoolBounded' /\ SizeInv'
  BY <1>1 DEF IInv, CachesWellFormed, PoolBounded, SizeInv
<1>5. SizedInv'
  BY <1>1 DEF IInv, SizedInv
<1> HIDE DEF at
<1>6. CASE ~ go
  <2>1. TypeOK' /\ Phases'
    BY <1>1, <1>6 DEF IInv, TypeOK, Phases
  <2>2. WriteInv' /\ ReturnInv'
    BY <1>1, <1>2, <1>3, <1>6 DEF WriteInv, ReturnInv
  <2> QED BY <2>1, <2>2, <1>4, <1>5 DEF IInv
<1>7. CASE go
  <2>1. /\ fr \in WriteFrame /\ fr.msg = call.root /\ fr.i = 1
        /\ fr.start = at /\ fr.decl = size /\ fr.base = cache.cursor
    <3>1. size \in SlotOrNone
      BY <1>2 DEF SlotOrNone
    <3> QED BY <1>2, <3>1 DEF WriteFrame
  <2>2. cache.cursor = 0 /\ size <= MaxMessage /\ TrueLen(call.root) = size
    BY <1>1, <1>7, VerdictFacts DEF IInv, SizedInv
  <2>3. /\ LenUpTo[call.root][0] = 0 /\ SlotsUpTo[call.root][0] = 0
        /\ Len(Fields[call.root]) \in Nat /\ Slots(call.root) \in Nat
    BY <1>2, RefType
  <2> HIDE DEF fr
  <2>4. /\ writing' \in Seq(WriteFrame) /\ Len(writing') = 1
        /\ writing'[1] = fr /\ Top(writing)' = fr /\ writing' # <<>>
    BY <1>1, <1>7, <2>1 DEF Top
  <2>5. TypeOK'
    BY <1>1, <1>2, <1>7, <2>4 DEF IInv, TypeOK
  <2>6. Phases'
    BY <1>1, <1>7, <2>4 DEF IInv, Phases
  <2>7. WriteInv'
    <3>1. fr.i - 1 = 0
      BY <2>1
    <3>2. InMessage(fr)
      BY <2>1, <2>3 DEF InMessage
    <3>3. fr.base + Slots(fr.msg) <= Slots(call.root)
      BY <2>1, <2>2, <2>3
    <3>4. \A s \in 1 .. Slots(fr.msg) : Pre[call.root][fr.base + s] = Pre[fr.msg][s]
      BY <2>1, <2>2, <2>3
    <3>5. fr.start + TrueLen(fr.msg) <= BodyStart + size
      BY <1>2, <2>1, <2>2
    <3>6. \A k \in 1 .. Len(writing') : writing'[k] = fr
      BY <2>4
    <3>7. \A k \in 1 .. Len(writing') :
             WithinRoot(writing'[k], call'.root, BodyStart', BodyStart' + size')
      <4>1. WithinRoot(fr, call.root, BodyStart, BodyStart + size)
        <5>1. BodyStart <= fr.start
          BY <1>2, <2>1
        <5>2. fr.decl # NoSlot => fr.decl = TrueLen(fr.msg)
          BY <2>1, <2>2
        <5> QED BY <3>2, <3>3, <3>4, <3>5, <5>1, <5>2 DEF WithinRoot
      <4> QED BY <1>1, <1>3, <3>6, <4>1
    <3>8. \A j, k \in 1 .. Len(writing') : ~ (j < k)
      BY <2>4
    <3>9. \A k \in 1 .. Len(writing') - 1 : FALSE
      BY <2>4
    <3>10. /\ cache.cursor = fr.base + SlotsUpTo[fr.msg][fr.i - 1]
           /\ out' = fr.start + LenUpTo[fr.msg][fr.i - 1]
      BY <1>1, <1>2, <1>7, <2>1, <2>2, <2>3, <3>1
    <3>11. (call.op \notin {"len", "raw"} /\ Verdict.status = "ok")'
      BY <1>1, <1>3, <1>7
    <3>12. (writing[1].msg = call.root /\ writing[1].start = BodyStart
              /\ writing[1].base = 0)'
      BY <1>1, <1>2, <1>3, <2>1, <2>2, <2>4
    <3> QED BY <1>1, <2>4, <3>7, <3>8, <3>9, <3>10, <3>11, <3>12 DEF WriteInv
  <2>8. ReturnInv'
    BY <1>1, <1>7 DEF ReturnInv
  <2> QED BY <1>4, <1>5, <2>5, <2>6, <2>7, <2>8 DEF IInv
<1> QED BY <1>6, <1>7

LEMMA InitStep ==
    ASSUME Init
    PROVE  IInv
<1>1. /\ pc = "idle" /\ sizing = <<>> /\ writing = <<>> /\ size = 0 /\ out = 0
      /\ cache = NewCache /\ kept = NewCache /\ free = <<>>
      /\ call = NoCall /\ outcome = NoOutcome
  BY DEF Init, ApiInit
<1>2. TypeOK
  BY <1>1, NewCacheOK, LimitsAssumption DEF TypeOK, PoolType
<1>3. Phases
  BY <1>1 DEF Phases
<1>4. CachesWellFormed /\ PoolBounded
  BY <1>1, NewCacheOK, PoolAssumption DEF CachesWellFormed, PoolBounded
<1>5. SizeInv /\ SizedInv /\ WriteInv /\ ReturnInv
  BY <1>1 DEF SizeInv, SizedInv, WriteInv, ReturnInv
<1> QED BY <1>2, <1>3, <1>4, <1>5 DEF IInv

LEMMA StutterStep ==
    ASSUME IInv, UNCHANGED vars
    PROVE  IInv'
<1>1. UNCHANGED <<call, outcome, pc, sizing, writing, size, out, cache, kept, free>>
  BY DEF vars
<1>2. UNCHANGED <<Verdict, BodyStart, Window>>
  BY <1>1 DEF Verdict, BodyStart, Window
<1>3. TypeOK' /\ Phases' /\ CachesWellFormed' /\ PoolBounded'
  BY <1>1 DEF IInv, TypeOK, Phases, CachesWellFormed, PoolBounded
<1>4. SizeInv' /\ SizedInv'
  BY <1>1 DEF IInv, SizeInv, SizedInv, Top
<1>5. WriteInv' /\ ReturnInv'
  BY <1>1, <1>2 DEF IInv, WriteInv, ReturnInv, Top
<1> QED BY <1>3, <1>4, <1>5 DEF IInv

-----------------------------------------------------------------------------
(***************************************************************************)
(* The write pass preserves the invariant.                                 *)
(***************************************************************************)
\* What the invariant says of the activations of write_to.
LEMMA WriteTop ==
    ASSUME IInv, pc = "writing"
    PROVE  /\ writing \in Seq(WriteFrame) /\ writing # <<>>
           /\ Len(writing) \in Nat /\ Len(writing) >= 1
           /\ Top(writing) = writing[Len(writing)]
           /\ \A k \in 1 .. Len(writing) :
                 /\ writing[k] \in WriteFrame
                 /\ writing[k].msg \in Msg /\ writing[k].start \in Nat
                 /\ writing[k].base \in Nat /\ writing[k].decl \in SlotOrNone
                 /\ writing[k].i \in 1 .. Len(Fields[writing[k].msg]) + 1
                 /\ Len(Fields[writing[k].msg]) \in Nat
                 /\ TrueLen(writing[k].msg) \in Nat
                 /\ EndOf(writing[k]) \in Nat
<1>1. writing \in Seq(WriteFrame) /\ writing # <<>>
  BY DEF IInv, TypeOK, Phases
<1>2. Len(writing) \in Nat /\ Len(writing) >= 1
  BY <1>1
<1>3. ASSUME NEW k \in 1 .. Len(writing)
      PROVE  /\ writing[k] \in WriteFrame
             /\ writing[k].msg \in Msg /\ writing[k].start \in Nat
             /\ writing[k].base \in Nat /\ writing[k].decl \in SlotOrNone
  <2>1. writing[k] \in WriteFrame
    BY <1>1
  <2> QED BY <2>1 DEF WriteFrame
<1>4. ASSUME NEW k \in 1 .. Len(writing)
      PROVE  /\ writing[k].i \in 1 .. Len(Fields[writing[k].msg]) + 1
             /\ Len(Fields[writing[k].msg]) \in Nat
             /\ TrueLen(writing[k].msg) \in Nat
             /\ EndOf(writing[k]) \in Nat
  <2>1. InMessage(writing[k])
    BY DEF IInv, WriteInv, WithinRoot
  <2>2. Len(Fields[writing[k].msg]) \in Nat /\ TrueLen(writing[k].msg) \in Nat
    BY <1>3, RefType
  <2> QED BY <1>3, <2>1, <2>2 DEF InMessage, EndOf
<1> QED BY <1>1, <1>2, <1>3, <1>4 DEF Top

\* The numbers of the call being written.
LEMMA WriteNumbers ==
    ASSUME IInv, pc = "writing"
    PROVE  /\ call.root \in Msg /\ size \in Nat /\ out \in Nat
           /\ size <= MaxMessage /\ TrueLen(call.root) = size
           /\ BodyStart \in Nat /\ Window = BodyStart + size
           /\ Slots(call.root) \in Nat
           /\ cache \in CacheType /\ WellFormed(cache)
           /\ cache.len = Slots(call.root) /\ cache.cursor \in Nat
           /\ Filled(cache, 0, call.root, Slots(call.root))
<1>1. call.root \in Msg
  BY Running
<1>2. size \in Nat /\ out \in Nat
  BY LimitsAssumption DEF IInv, TypeOK
<1>3. call.op # "raw" /\ Verdict.status = "ok"
  BY DEF IInv, WriteInv
<1>4. size <= MaxMessage /\ TrueLen(call.root) = size
  BY <1>3, VerdictFacts
<1>5. BodyStart \in Nat /\ Window = BodyStart + size
  BY <1>2, VarintLenNat DEF BodyStart, Window
<1>6. /\ cache \in CacheType /\ WellFormed(cache) /\ cache.cursor \in Nat
  BY DEF IInv, TypeOK, CachesWellFormed, CacheType
<1>7. /\ cache.len = Slots(call.root)
      /\ Filled(cache, 0, call.root, Slots(call.root))
  BY <1>3 DEF IInv, SizedInv
<1> QED BY <1>1, <1>2, <1>4, <1>5, <1>6, <1>7, RefType

\* The frame for field f of the innermost activation, whatever its framing: it
\* lies inside that activation, and its messages are a stretch of the root's.
LEMMA OpenedFrame ==
    ASSUME IInv, pc = "writing", NEW top, top = Top(writing), ~ AtEnd(top),
           NEW f, f = Cur(top), f.kind \in NestedKinds,
           NEW decl \in SlotOrNone, decl # NoSlot => decl = TrueLen(f.of),
           NEW g, g = [msg |-> f.of, i |-> 1,
                       start |-> out + OpeningLen(f, TrueLen(f.of)),
                       decl |-> decl, base |-> cache.cursor + OwnSlot(f)]
    PROVE  /\ g \in WriteFrame
           /\ g.msg = f.of /\ g.i = 1
           /\ g.start = out + OpeningLen(f, TrueLen(f.of))
           /\ g.base = cache.cursor + OwnSlot(f)
           /\ WithinRoot(g, call.root, BodyStart, BodyStart + size)
           /\ Encloses(top, g)
           /\ EndOf(g) <= EndOf(top)
           /\ g.start <= BodyStart + size
           /\ EndOf(g) \in Nat
<1> DEFINE n == Len(writing)
           m == top.msg
           i == top.i
           had == SlotsUpTo[m][i - 1]
           upto == LenUpTo[m][i - 1]
           own == OwnSlot(f)
           x == TrueLen(f.of)
           open == OpeningLen(f, x)
<1>1. /\ n \in Nat /\ n >= 1 /\ top = writing[n] /\ m \in Msg /\ top.start \in Nat
      /\ top.base \in Nat /\ Len(Fields[m]) \in Nat
      /\ i \in 1 .. Len(Fields[m]) + 1 /\ TrueLen(m) \in Nat
  BY WriteTop
<1>2. i \in 1 .. Len(Fields[m])
  BY <1>1 DEF AtEnd
<1>3. f = Fields[m][i]
  BY DEF Cur
<1>4. /\ WithinRoot(top, call.root, BodyStart, BodyStart + size)
      /\ cache.cursor = top.base + had /\ out = top.start + upto
  BY <1>1 DEF IInv, WriteInv
<1>5. /\ f \in Field /\ f.of \in Msg
      /\ LenUpTo[m][i] = upto + FieldLen(f, x)
      /\ SlotsUpTo[m][i] = had + own + Slots(f.of)
  BY <1>1, <1>2, <1>3, RefStep
<1>6. /\ had \in Nat /\ upto \in Nat /\ own \in {0, 1} /\ x \in Nat
      /\ Slots(f.of) \in Nat /\ open \in Nat /\ ClosingLen(f) \in Nat
      /\ FieldLen(f, x) = open + x + ClosingLen(f)
      /\ LenUpTo[m][i] <= TrueLen(m) /\ SlotsUpTo[m][i] <= Slots(m)
      /\ Slots(m) \in Nat
  <2>1. i - 1 \in 0 .. Len(Fields[m]) /\ i \in 0 .. Len(Fields[m])
    BY <1>1, <1>2
  <2>2. x \in Nat /\ Slots(f.of) \in Nat
    BY <1>5, RefType
  <2>3. /\ had \in Nat /\ upto \in Nat
        /\ LenUpTo[m][i] <= TrueLen(m) /\ SlotsUpTo[m][i] <= Slots(m)
        /\ Slots(m) \in Nat
    BY <1>1, <2>1, RefType
  <2>4. open \in Nat /\ ClosingLen(f) \in Nat
        /\ FieldLen(f, x) = open + x + ClosingLen(f)
    BY <1>5, <2>2, FieldSplit, OpeningLenNat
  <2>5. own \in {0, 1}
    BY DEF OwnSlot
  <2> QED BY <2>2, <2>3, <2>4, <2>5
<1>7. cache.cursor \in Nat /\ BodyStart \in Nat /\ size \in Nat /\ out \in Nat
      /\ Slots(call.root) \in Nat
  BY WriteNumbers
<1>8. /\ g.msg = f.of /\ g.i = 1 /\ g.start = out + open /\ g.decl = decl
      /\ g.base = cache.cursor + own
  OBVIOUS
<1>9. g \in WriteFrame
  <2>1. out + open \in Nat /\ cache.cursor + own \in Nat
    BY <1>6, <1>7
  <2> QED BY <1>5, <2>1 DEF WriteFrame
<1> HIDE DEF n, m, i, had, upto, own, x, open
<1>17. /\ top.base + Slots(m) <= Slots(call.root)
       /\ BodyStart <= top.start /\ top.start + TrueLen(m) <= BodyStart + size
  BY <1>4 DEF WithinRoot, m
<1>10. \A s \in 1 .. Slots(m) : Pre[call.root][top.base + s] = Pre[m][s]
  BY <1>4 DEF WithinRoot, m
<1>11. out + open + x <= top.start + TrueLen(m)
  <2>1. upto + (open + x + ClosingLen(f)) <= TrueLen(m)
    BY <1>5, <1>6
  <2>2. /\ top.start \in Nat /\ upto \in Nat /\ open \in Nat /\ x \in Nat
        /\ ClosingLen(f) \in Nat /\ TrueLen(m) \in Nat /\ out = top.start + upto
    BY <1>1, <1>4, <1>6
  <2> QED BY <2>1, <2>2
<1>16. out + open + x <= BodyStart + size
  <2>1. out + open + x \in Nat
    BY <1>6, <1>7
  <2>2. top.start + TrueLen(m) \in Nat
    BY <1>1
  <2>3. BodyStart + size \in Nat
    BY <1>7
  <2>4. top.start + TrueLen(m) <= BodyStart + size
    BY <1>17
  <2> QED BY <2>1, <2>2, <2>3, <2>4, <1>11
<1>12. EndOf(g) = out + open + x
  BY <1>8 DEF EndOf, x
<1>13. WithinRoot(g, call.root, BodyStart, BodyStart + size)
  <2>1. InMessage(g)
    <3>1. Len(Fields[f.of]) \in Nat
      BY <1>5, RefType
    <3> QED BY <1>8, <3>1 DEF InMessage
  <2>2. had + own + Slots(f.of) <= Slots(m)
    BY <1>5, <1>6
  <2>3. g.base + Slots(g.msg) <= Slots(call.root)
    <3>1. (top.base + had) + own + Slots(f.of) <= Slots(call.root)
      <4>1. /\ top.base \in Nat /\ had \in Nat /\ own \in Nat
            /\ Slots(f.of) \in Nat /\ Slots(m) \in Nat
            /\ Slots(call.root) \in Nat
            /\ top.base + Slots(m) <= Slots(call.root)
        BY <1>1, <1>6, <1>7, <1>17
      <4> QED BY <2>2, <4>1
    <3> QED BY <3>1, <1>4, <1>8
  <2>4. ASSUME NEW s \in 1 .. Slots(g.msg)
        PROVE  Pre[call.root][g.base + s] = Pre[g.msg][s]
    <3>1. s \in 1 .. Slots(f.of) /\ s \in Nat
      BY <1>6, <1>8
    <3>2. had + own + s \in 1 .. Slots(m)
      BY <3>1, <2>2, <1>6
    <3>3. top.base + (had + own + s) = g.base + s
      <4>1. top.base \in Nat /\ had \in Nat /\ own \in Nat
            /\ g.base = top.base + had + own
        BY <1>1, <1>4, <1>6, <1>8
      <4> QED BY <4>1, <3>1
    <3>4. Pre[call.root][g.base + s] = Pre[m][had + own + s]
      BY <3>2, <3>3, <1>10
    <3>5. Pre[m][had + own + s] = Pre[f.of][s]
      <4>1. Fields[m][i].kind \in NestedKinds
        BY <1>3
      <4>2. \A t \in 1 .. Slots(Fields[m][i].of) :
               Pre[m][SlotsUpTo[m][i - 1] + OwnSlot(Fields[m][i]) + t]
                 = Pre[Fields[m][i].of][t]
        BY <1>1, <1>2, <4>1, RefPre
      <4> QED BY <3>1, <4>2, <1>3 DEF had, own
    <3> QED BY <3>4, <3>5, <1>8
  <2>5. g.decl # NoSlot => g.decl = TrueLen(g.msg)
    BY <1>8
  <2>6. BodyStart <= g.start
    <3>1. /\ top.start \in Nat /\ upto \in Nat /\ open \in Nat
          /\ BodyStart \in Nat /\ BodyStart <= top.start
          /\ g.start = top.start + upto + open
      BY <1>1, <1>4, <1>6, <1>7, <1>8, <1>17
    <3> QED BY <3>1
  <2>7. g.start + TrueLen(g.msg) <= BodyStart + size
    BY <1>8, <1>16 DEF x
  <2> QED BY <2>1, <2>3, <2>4, <2>5, <2>6, <2>7 DEF WithinRoot
<1>14. Encloses(top, g)
  <2>1. g.base = top.base + SlotsUpTo[top.msg][top.i - 1] + OwnSlot(Cur(top))
    BY <1>4, <1>8 DEF had, own, m, i
  <2>2. g.start = top.start + LenUpTo[top.msg][top.i - 1]
                    + OpeningLen(Cur(top), TrueLen(g.msg))
    BY <1>4, <1>8 DEF upto, open, x, m, i
  <2> QED BY <2>1, <2>2, <1>2, <1>8 DEF Encloses, Invokes, m, i
<1>15. EndOf(g) <= EndOf(top) /\ EndOf(g) \in Nat /\ g.start <= BodyStart + size
  <2>1. EndOf(top) = top.start + TrueLen(m)
    BY DEF EndOf, m
  <2>3. EndOf(g) <= EndOf(top)
    BY <2>1, <1>11, <1>12
  <2>4. g.start <= BodyStart + size
    BY <1>6, <1>7, <1>8, <1>16
  <2> QED BY <2>3, <2>4, <1>6, <1>7, <1>12
<1> QED BY <1>8, <1>9, <1>13, <1>14, <1>15 DEF open, x, own

\* Descending into that frame.
LEMMA PushStep ==
    ASSUME IInv, pc = "writing", NEW g \in WriteFrame, g.i = 1, g.msg \in Msg,
           WithinRoot(g, call.root, BodyStart, BodyStart + size),
           Encloses(Top(writing), g), EndOf(g) <= EndOf(Top(writing)),
           EndOf(g) \in Nat,
           writing' = Append(writing, g), out' = g.start,
           cache' \in CacheType, WellFormed(cache'), cache'.len = cache.len,
           cache'.cursor = g.base,
           \A k \in Nat : SlotValue(cache', k) = SlotValue(cache, k),
           UNCHANGED <<call, outcome, pc, sizing, size, kept, free>>
    PROVE  IInv'
<1> DEFINE n == Len(writing)
<1>1. /\ writing \in Seq(WriteFrame) /\ n \in Nat /\ n >= 1
      /\ Top(writing) = writing[n] /\ g.start \in Nat /\ g.base \in Nat
  BY WriteTop DEF WriteFrame
<1>2. /\ writing' \in Seq(WriteFrame) /\ writing' # <<>> /\ Len(writing') = n + 1
      /\ writing'[n + 1] = g /\ Top(writing)' = g
      /\ \A k \in 1 .. n : writing'[k] = writing[k]
  <2>1. /\ Append(writing, g) \in Seq(WriteFrame)
        /\ Append(writing, g) # <<>>
        /\ Len(Append(writing, g)) = n + 1
        /\ Append(writing, g)[n + 1] = g
        /\ \A k \in 1 .. n : Append(writing, g)[k] = writing[k]
    BY <1>1, PushFacts
  <2> QED BY <2>1 DEF Top
<1>3. UNCHANGED <<Verdict, BodyStart>>
  BY DEF Verdict, BodyStart
<1>4. TypeOK'
  BY <1>1, <1>2 DEF IInv, TypeOK
<1>5. Phases'
  BY <1>1, <1>2 DEF IInv, Phases
<1>6. CachesWellFormed' /\ PoolBounded'
  BY DEF IInv, CachesWellFormed, PoolBounded
<1>7. SizeInv' /\ ReturnInv'
  BY DEF SizeInv, ReturnInv
<1>8. SizedInv'
  <2>1. Slots(call.root) \in Nat
    BY WriteNumbers
  <2>2. Filled(cache, 0, call.root, Slots(call.root))
    BY WriteNumbers
  <2>3. Filled(cache', 0, call.root, Slots(call.root))
    <3> SUFFICES ASSUME NEW s \in 1 .. Slots(call.root)
                 PROVE  SlotValue(cache', 0 + s - 1)
                          = SaturateSize(TrueLen(Pre[call.root][s]))
      BY DEF Filled
    <3>1. 0 + s - 1 \in Nat
      BY <2>1
    <3> QED BY <3>1, <2>2 DEF Filled
  <2> QED BY <2>3 DEF IInv, SizedInv
<1>9. WriteInv'
  <2>1. /\ call.op \notin {"len", "raw"} /\ Verdict.status = "ok"
        /\ writing[1].msg = call.root /\ writing[1].start = BodyStart
        /\ writing[1].base = 0
    BY DEF IInv, WriteInv
  <2>2. writing'[1] = writing[1]
    BY <1>1, <1>2
  <2>3. \A k \in 1 .. n + 1 :
           WithinRoot(writing'[k], call.root, BodyStart, BodyStart + size)
    <3>1. \A k \in 1 .. n :
             WithinRoot(writing[k], call.root, BodyStart, BodyStart + size)
      BY DEF IInv, WriteInv
    <3> QED BY <3>1, <1>1, <1>2
  <2>4. \A k \in 1 .. n : Encloses(writing'[k], writing'[k + 1])
    <3>1. \A k \in 1 .. n - 1 : Encloses(writing[k], writing[k + 1])
      BY DEF IInv, WriteInv
    <3> SUFFICES ASSUME NEW k \in 1 .. n
                 PROVE  Encloses(writing'[k], writing'[k + 1])
      OBVIOUS
    <3>2. CASE k = n
      BY <3>2, <1>1, <1>2
    <3>3. CASE k # n
      <4>1. k \in 1 .. n - 1 /\ k + 1 \in 1 .. n
        BY <3>3, <1>1
      <4> QED BY <4>1, <3>1, <1>2
    <3> QED BY <3>2, <3>3
  <2>5. ASSUME NEW j \in 1 .. n + 1, NEW k \in 1 .. n + 1, j < k
        PROVE  EndOf(writing'[k]) <= EndOf(writing'[j])
    <3>0. \A a, b \in 1 .. n : a < b => EndOf(writing[b]) <= EndOf(writing[a])
      BY DEF IInv, WriteInv
    <3>1. j \in 1 .. n /\ writing'[j] = writing[j] /\ EndOf(writing[j]) \in Nat
      <4>1. j \in 1 .. n
        BY <2>5, <1>1
      <4> QED BY <4>1, <1>2, WriteTop
    <3>2. CASE k \in 1 .. n
      BY <2>5, <3>0, <3>1, <3>2, <1>2
    <3>3. CASE k = n + 1
      <4>1. EndOf(writing[n]) <= EndOf(writing[j]) /\ EndOf(writing[n]) \in Nat
        <5>1. n \in 1 .. n /\ EndOf(writing[n]) \in Nat
          BY <1>1, WriteTop
        <5>2. CASE j = n
          BY <5>1, <5>2
        <5>3. CASE j # n
          <6>1. j < n
            BY <3>1, <5>3, <1>1
          <6> QED BY <6>1, <3>0, <3>1, <5>1
        <5> QED BY <5>2, <5>3
      <4>2. EndOf(g) <= EndOf(writing[n])
        BY <1>1
      <4>3. EndOf(g) <= EndOf(writing[j])
        BY <4>1, <4>2, <3>1
      <4> QED BY <4>3, <3>1, <3>3, <1>2
    <3> QED BY <3>2, <3>3, <1>1
  <2>6. cache'.cursor = g.base + SlotsUpTo[g.msg][g.i - 1]
        /\ out' = g.start + LenUpTo[g.msg][g.i - 1]
    <3>1. g.i - 1 = 0 /\ LenUpTo[g.msg][0] = 0 /\ SlotsUpTo[g.msg][0] = 0
      BY RefType
    <3> QED BY <3>1, <1>1
  <2>7. Len(writing') - 1 = n
    BY <1>1, <1>2
  <2> QED BY <2>1, <2>2, <2>3, <2>4, <2>5, <2>6, <2>7, <1>2, <1>3 DEF WriteInv
<1> QED BY <1>4, <1>5, <1>6, <1>7, <1>8, <1>9 DEF IInv

\* The slot consume_next is about to read holds the length of the field's
\* message, unsaturated.
LEMMA SlotToRead ==
    ASSUME IInv, pc = "writing", ~ AtEnd(Top(writing)),
           Cur(Top(writing)).kind \in SlotKinds
    PROVE  /\ CanRead
           /\ ConsumedValue(cache) = TrueLen(Cur(Top(writing)).of)
           /\ ConsumedValue(cache) \in Nat
<1> DEFINE n == Len(writing)
           top == Top(writing)
           f == Cur(top)
           m == top.msg
           i == top.i
           had == SlotsUpTo[m][i - 1]
<1>1. /\ n \in Nat /\ n >= 1 /\ top = writing[n] /\ m \in Msg /\ top.start \in Nat
      /\ top.base \in Nat /\ Len(Fields[m]) \in Nat
      /\ i \in 1 .. Len(Fields[m]) + 1 /\ TrueLen(m) \in Nat
  <2>1. n \in Nat /\ n >= 1 /\ top = writing[n]
    BY WriteTop
  <2>2. n \in 1 .. n
    BY <2>1
  <2> QED BY <2>1, <2>2, WriteTop
<1>2. i \in 1 .. Len(Fields[m])
  BY <1>1 DEF AtEnd
<1>3. f = Fields[m][i] /\ f.kind \in NestedKinds /\ OwnSlot(f) = 1
  BY DEF Cur, NestedKinds, OwnSlot
<1>4. /\ WithinRoot(top, call.root, BodyStart, BodyStart + size)
      /\ cache.cursor = top.base + had
  <2>1. WithinRoot(writing[n], call.root, BodyStart, BodyStart + size)
    BY <1>1 DEF IInv, WriteInv
  <2>2. cache.cursor = top.base + had
    BY DEF IInv, WriteInv
  <2> QED BY <1>1, <2>1, <2>2
<1>5. /\ f \in Field /\ f.of \in Msg
      /\ LenUpTo[m][i] = LenUpTo[m][i - 1] + FieldLen(f, TrueLen(f.of))
      /\ SlotsUpTo[m][i] = had + 1 + Slots(f.of)
  BY <1>1, <1>2, <1>3, RefStep, SMTT(30)
<1>6. Pre[m][had + 1] = f.of
  <2>1. Fields[m][i].kind \in NestedKinds
    BY <1>3
  <2>2. Pre[m][SlotsUpTo[m][i - 1] + OwnSlot(Fields[m][i])] = Fields[m][i].of
    <3>1. Fields[m][i].kind \in SlotKinds
      BY <1>3
    <3> HIDE DEF m, i
    <3> QED BY <1>1, <1>2, <2>1, <3>1, RefPre
  <2> QED BY <2>2, <1>3
<1>7. /\ call.root \in Msg /\ size \in Nat /\ size <= MaxMessage
      /\ BodyStart \in Nat /\ Slots(call.root) \in Nat
      /\ cache \in CacheType /\ WellFormed(cache)
      /\ cache.len = Slots(call.root) /\ cache.cursor \in Nat
      /\ Filled(cache, 0, call.root, Slots(call.root))
  BY WriteNumbers
<1>8. /\ had \in Nat /\ Slots(f.of) \in Nat /\ Slots(m) \in Nat
      /\ LenUpTo[m][i - 1] \in Nat /\ TrueLen(f.of) \in Nat
      /\ LenUpTo[m][i] <= TrueLen(m) /\ SlotsUpTo[m][i] <= Slots(m)
  <2>1. i - 1 \in 0 .. Len(Fields[m]) /\ i \in 0 .. Len(Fields[m])
    BY <1>1, <1>2
  <2>2. TrueLen(f.of) \in Nat /\ Slots(f.of) \in Nat
    BY <1>5, RefType
  <2> HIDE DEF m, i
  <2> QED BY <1>1, <2>1, <2>2, RefType DEF had
<1> HIDE DEF n, top, f, m, i, had
<1>9. /\ top.base + Slots(m) <= Slots(call.root)
      /\ BodyStart <= top.start /\ top.start + TrueLen(m) <= BodyStart + size
  BY <1>4 DEF WithinRoot, m
<1>10. \A s \in 1 .. Slots(m) : Pre[call.root][top.base + s] = Pre[m][s]
  BY <1>4 DEF WithinRoot, m
<1>11. had + 1 \in 1 .. Slots(m)
  BY <1>5, <1>8
<1>12. cache.cursor + 1 = top.base + (had + 1) /\ cache.cursor < cache.len
       /\ cache.cursor + 1 \in 1 .. Slots(call.root)
  <2>1. /\ top.base \in Nat /\ had \in Nat /\ Slots(m) \in Nat
        /\ Slots(call.root) \in Nat /\ top.base + Slots(m) <= Slots(call.root)
        /\ cache.cursor = top.base + had /\ had + 1 <= Slots(m)
    BY <1>1, <1>4, <1>7, <1>8, <1>9, <1>11
  <2>2. cache.len = Slots(call.root)
    BY <1>7
  <2> QED BY <2>1, <2>2
<1>13. Pre[call.root][cache.cursor + 1] = f.of
  BY <1>6, <1>10, <1>11, <1>12
<1>14. ConsumedValue(cache) = SaturateSize(TrueLen(f.of))
  <2>1. SlotValue(cache, 0 + (cache.cursor + 1) - 1)
          = SaturateSize(TrueLen(Pre[call.root][cache.cursor + 1]))
    BY <1>7, <1>12 DEF Filled
  <2>2. 0 + (cache.cursor + 1) - 1 = cache.cursor
    BY <1>7
  <2> QED BY <2>1, <2>2, <1>13 DEF ConsumedValue
<1>15. TrueLen(f.of) <= MaxU32
  <2>1. FieldLen(f, TrueLen(f.of)) > TrueLen(f.of)
        /\ FieldLen(f, TrueLen(f.of)) \in Nat
    BY <1>3, <1>5, <1>8, FieldSplit, FieldLenNat
  <2>2. TrueLen(f.of) <= TrueLen(m)
    BY <2>1, <1>1, <1>5, <1>8
  <2>3. TrueLen(m) <= size
    BY <1>1, <1>7, <1>9
  <2> QED BY <2>2, <2>3, <1>1, <1>7, <1>8, LimitsAssumption
<1>16. ConsumedValue(cache) = TrueLen(f.of)
  BY <1>8, <1>14, <1>15, LimitsAssumption DEF SaturateSize
<1>17. CanConsume(cache)
  BY <1>7, <1>12, ConsumeOK
<1>18. ConsumedValue(cache) # Uninit
  BY <1>7, <1>12, <1>16, <1>8, UninitAssumption
<1> QED BY <1>8, <1>16, <1>17, <1>18 DEF CanRead, f, top

\* Passing a field of plain bytes.
LEMMA LeafStep ==
    ASSUME NEW m \in Msg, NEW i \in 1 .. Len(Fields[m]),
           Fields[m][i].kind = "leaf"
    PROVE  /\ Fields[m][i] \in Field /\ Fields[m][i].n \in Nat
           /\ LenUpTo[m][i] = LenUpTo[m][i - 1] + Fields[m][i].n
           /\ SlotsUpTo[m][i] = SlotsUpTo[m][i - 1]
           /\ LenUpTo[m][i - 1] \in Nat
<1>1. Fields[m][i] \in Field /\ Fields[m][i].n \in Nat
  BY FieldType DEF Field
<1>2. FieldLen(Fields[m][i], TrueLen(Fields[m][i].of)) = Fields[m][i].n
  BY DEF FieldLen
<1>3. i - 1 \in 0 .. Len(Fields[m])
  BY RefType
<1> QED BY <1>1, <1>2, <1>3, RefStep, RefType

LEMMA WriteOpenStep ==
    ASSUME IInv, WriteOpen
    PROVE  /\ IInv'
           /\ out + OpeningLen(Cur(Top(writing)), ConsumedValue(cache)) <= Window
<1> DEFINE top == Top(writing)
           f == Cur(top)
           len == ConsumedValue(cache)
           g == [msg |-> f.of, i |-> 1, start |-> out + OpeningLen(f, TrueLen(f.of)),
                 decl |-> len, base |-> cache.cursor + OwnSlot(f)]
<1>1. /\ pc = "writing" /\ ~ AtEnd(top) /\ f.kind \in SlotKinds
      /\ f.kind \in NestedKinds /\ OwnSlot(f) = 1
      /\ UNCHANGED <<call, outcome, pc, sizing, size, kept, free>>
  BY DEF WriteOpen, NestedKinds, OwnSlot
<1>2. CanRead /\ len = TrueLen(f.of) /\ len \in Nat
  BY <1>1, SlotToRead
<1>3. /\ cache \in CacheType /\ WellFormed(cache) /\ cache.cursor < cache.len
      /\ Window = BodyStart + size
  BY <1>1, <1>2, WriteNumbers DEF CanRead, CanConsume
<1>4. /\ ConsumeNext(cache) \in CacheType /\ WellFormed(ConsumeNext(cache))
      /\ ConsumeNext(cache).len = cache.len
      /\ ConsumeNext(cache).cursor = cache.cursor + 1
      /\ \A k \in Nat : SlotValue(ConsumeNext(cache), k) = SlotValue(cache, k)
  BY <1>3, ConsumeOK
<1>5. /\ out' = out + OpeningLen(f, TrueLen(f.of)) /\ writing' = Append(writing, g)
      /\ cache' = ConsumeNext(cache)
  BY <1>1, <1>2 DEF WriteOpen
<1>6. len \in SlotOrNone
  BY <1>2 DEF SlotOrNone
<1>7. /\ g \in WriteFrame /\ g.msg = f.of /\ g.i = 1
      /\ g.start = out + OpeningLen(f, TrueLen(f.of))
      /\ g.base = cache.cursor + OwnSlot(f)
      /\ WithinRoot(g, call.root, BodyStart, BodyStart + size)
      /\ Encloses(top, g) /\ EndOf(g) <= EndOf(top)
      /\ g.start <= BodyStart + size /\ EndOf(g) \in Nat
  <2> HIDE DEF top, f, len
  <2> QED BY <1>1, <1>2, <1>6, OpenedFrame DEF top, f
<1>8. g.msg \in Msg
  BY <1>7 DEF WriteFrame
<1> HIDE DEF g, f, len
<1>9. cache'.cursor = g.base
  BY <1>1, <1>4, <1>5, <1>7
<1>10. out' = g.start
  BY <1>5, <1>7
<1>11. IInv'
  BY <1>1, <1>4, <1>5, <1>7, <1>8, <1>9, <1>10, PushStep
<1> QED BY <1>2, <1>3, <1>7, <1>11 DEF f, len

LEMMA WriteOpenGroupStep ==
    ASSUME IInv, WriteOpenGroup
    PROVE  IInv'
<1> DEFINE top == Top(writing)
           f == Cur(top)
           g == [msg |-> f.of, i |-> 1, start |-> out + OpeningLen(f, TrueLen(f.of)),
                 decl |-> NoSlot, base |-> cache.cursor + OwnSlot(f)]
<1>1. /\ pc = "writing" /\ ~ AtEnd(top) /\ f.kind = "group"
      /\ f.kind \in NestedKinds /\ OwnSlot(f) = 0
      /\ OpeningLen(f, TrueLen(f.of)) = f.tl
      /\ UNCHANGED <<call, outcome, pc, sizing, size, cache, kept, free>>
  BY DEF WriteOpenGroup, NestedKinds, SlotKinds, OwnSlot, OpeningLen
<1>2. cache \in CacheType /\ WellFormed(cache) /\ cache.cursor \in Nat
  BY <1>1, WriteNumbers
<1>3. cache.cursor + OwnSlot(f) = cache.cursor
  BY <1>1, <1>2
<1>4. out' = out + OpeningLen(f, TrueLen(f.of)) /\ writing' = Append(writing, g)
  BY <1>1, <1>3 DEF WriteOpenGroup
<1>5. NoSlot \in SlotOrNone
  BY DEF SlotOrNone
<1>6. /\ g \in WriteFrame /\ g.msg = f.of /\ g.i = 1
      /\ g.start = out + OpeningLen(f, TrueLen(f.of))
      /\ g.base = cache.cursor + OwnSlot(f)
      /\ WithinRoot(g, call.root, BodyStart, BodyStart + size)
      /\ Encloses(top, g) /\ EndOf(g) <= EndOf(top)
      /\ EndOf(g) \in Nat
  <2> HIDE DEF top, f
  <2> QED BY <1>1, <1>5, OpenedFrame DEF top, f
<1>7. g.msg \in Msg
  BY <1>6 DEF WriteFrame
<1> HIDE DEF g, f
<1>8. cache'.cursor = g.base /\ cache' = cache
  BY <1>1, <1>3, <1>6
<1>9. out' = g.start
  BY <1>4, <1>6
<1> QED BY <1>1, <1>2, <1>4, <1>6, <1>7, <1>8, <1>9, PushStep

\* The innermost frame left after a step goes on with its next field.
LEMMA AdvanceStep ==
    ASSUME IInv, pc = "writing", NEW m \in 1 .. Len(writing),
           NEW fr, fr = writing[m], fr.i \in 1 .. Len(Fields[fr.msg]),
           NEW g \in WriteFrame, g.msg = fr.msg, g.i = fr.i + 1,
           g.start = fr.start, g.decl = fr.decl, g.base = fr.base,
           writing' \in Seq(WriteFrame), Len(writing') = m, writing'[m] = g,
           \A k \in 1 .. m - 1 : writing'[k] = writing[k],
           out' = fr.start + LenUpTo[fr.msg][fr.i],
           cache.cursor = fr.base + SlotsUpTo[fr.msg][fr.i],
           UNCHANGED <<call, outcome, pc, sizing, size, cache, kept, free>>
    PROVE  IInv'
<1>1. /\ Len(writing) \in Nat /\ m \in Nat /\ m >= 1
      /\ fr.msg \in Msg /\ fr.start \in Nat /\ Len(Fields[fr.msg]) \in Nat
  BY WriteTop
<1>2. g.i - 1 = fr.i
  BY <1>1
<1>3. writing' # <<>> /\ Top(writing)' = g
  BY <1>1 DEF Top
<1>4. out' \in Nat
  <2>1. LenUpTo[fr.msg][fr.i] \in Nat
    <3>1. fr.i \in 0 .. Len(Fields[fr.msg])
      BY <1>1
    <3> QED BY <3>1, <1>1, RefType
  <2> QED BY <2>1, <1>1
<1>5. UNCHANGED <<Verdict, BodyStart>>
  BY DEF Verdict, BodyStart
<1>6. TypeOK'
  BY <1>4 DEF IInv, TypeOK
<1>7. Phases'
  BY <1>3 DEF IInv, Phases
<1>8. CachesWellFormed' /\ PoolBounded' /\ SizeInv' /\ SizedInv' /\ ReturnInv'
  BY DEF IInv, CachesWellFormed, PoolBounded, SizeInv, SizedInv, ReturnInv
<1>9. WriteInv'
  <2>1. /\ call.op \notin {"len", "raw"} /\ Verdict.status = "ok"
        /\ writing[1].msg = call.root /\ writing[1].start = BodyStart
        /\ writing[1].base = 0
    BY DEF IInv, WriteInv
  <2>2. ASSUME NEW k \in 1 .. m
        PROVE  /\ writing'[k].msg = writing[k].msg
               /\ writing'[k].start = writing[k].start
               /\ writing'[k].decl = writing[k].decl
               /\ writing'[k].base = writing[k].base
               /\ k # m => writing'[k] = writing[k]
               /\ InMessage(writing'[k])
               /\ EndOf(writing'[k]) = EndOf(writing[k])
               /\ k \in 1 .. Len(writing)
    <3>1. CASE k = m
      <4>1. InMessage(g)
        BY <1>1 DEF InMessage
      <4> QED BY <3>1, <4>1 DEF EndOf
    <3>2. CASE k # m
      <4>1. k \in 1 .. m - 1 /\ k \in 1 .. Len(writing)
        BY <3>2, <1>1
      <4>2. InMessage(writing[k])
        BY <4>1 DEF IInv, WriteInv, WithinRoot
      <4> QED BY <4>1, <4>2
    <3> QED BY <3>1, <3>2
  <2>3. ASSUME NEW k \in 1 .. m
        PROVE  WithinRoot(writing'[k], call.root, BodyStart, BodyStart + size)
    <3>1. WithinRoot(writing[k], call.root, BodyStart, BodyStart + size)
      BY <2>2 DEF IInv, WriteInv
    <3> QED BY <3>1, <2>2 DEF WithinRoot
  <2>4. ASSUME NEW k \in 1 .. m - 1
        PROVE  Encloses(writing'[k], writing'[k + 1])
    <3>1. k \in 1 .. m /\ k + 1 \in 1 .. m /\ k # m /\ k \in 1 .. Len(writing) - 1
      BY <1>1
    <3>2. Encloses(writing[k], writing[k + 1])
      BY <3>1 DEF IInv, WriteInv
    <3> QED BY <3>1, <3>2, <2>2 DEF Encloses, Invokes
  <2>5. ASSUME NEW j \in 1 .. m, NEW k \in 1 .. m, j < k
        PROVE  EndOf(writing'[k]) <= EndOf(writing'[j])
    <3>1. EndOf(writing[k]) <= EndOf(writing[j])
      BY <2>2, <2>5 DEF IInv, WriteInv
    <3> QED BY <3>1, <2>2
  <2>6. cache.cursor = g.base + SlotsUpTo[g.msg][g.i - 1]
        /\ out' = g.start + LenUpTo[g.msg][g.i - 1]
    BY <1>2
  <2>7. 1 \in 1 .. m
    BY <1>1
  <2> QED BY <2>1, <2>2, <2>3, <2>4, <2>5, <2>6, <2>7, <1>3, <1>5 DEF WriteInv
<1> QED BY <1>6, <1>7, <1>8, <1>9 DEF IInv

LEMMA WriteLeafStep ==
    ASSUME IInv, WriteLeaf
    PROVE  IInv'
<1> DEFINE n == Len(writing)
           top == Top(writing)
           f == Cur(top)
           g == [top EXCEPT !.i = @ + 1]
<1>1. /\ pc = "writing" /\ ~ AtEnd(top) /\ f.kind = "leaf"
      /\ out' = out + f.n /\ writing' = ReplaceTop(writing, g)
      /\ UNCHANGED <<call, outcome, pc, sizing, size, cache, kept, free>>
  BY DEF WriteLeaf, Advance
<1>2. /\ writing \in Seq(WriteFrame) /\ writing # <<>> /\ n \in Nat /\ n >= 1
      /\ n \in 1 .. n /\ top = writing[n]
  BY <1>1, WriteTop
<1>3. /\ top \in WriteFrame /\ top.msg \in Msg /\ top.start \in Nat
      /\ top.i \in 1 .. Len(Fields[top.msg]) + 1 /\ Len(Fields[top.msg]) \in Nat
  BY <1>1, <1>2, WriteTop
<1>4. top.i \in 1 .. Len(Fields[top.msg])
  BY <1>1, <1>3 DEF AtEnd
<1>5. /\ g \in WriteFrame /\ g.msg = top.msg /\ g.i = top.i + 1
      /\ g.start = top.start /\ g.decl = top.decl /\ g.base = top.base
  BY <1>3, AdvancedFacts
<1>6. /\ f \in Field /\ f.n \in Nat
      /\ LenUpTo[top.msg][top.i] = LenUpTo[top.msg][top.i - 1] + f.n
      /\ SlotsUpTo[top.msg][top.i] = SlotsUpTo[top.msg][top.i - 1]
      /\ LenUpTo[top.msg][top.i - 1] \in Nat
  BY <1>1, <1>3, <1>4, LeafStep DEF Cur
<1>7. /\ out = top.start + LenUpTo[top.msg][top.i - 1]
      /\ cache.cursor = top.base + SlotsUpTo[top.msg][top.i - 1]
  BY <1>1 DEF IInv, WriteInv
<1> HIDE DEF g, f, top
<1>8. out' = top.start + LenUpTo[top.msg][top.i]
  BY <1>1, <1>3, <1>6, <1>7
<1>9. /\ writing' \in Seq(WriteFrame) /\ Len(writing') = n
      /\ writing'[n] = g
      /\ \A k \in 1 .. n - 1 : writing'[k] = writing[k]
  <2>1. /\ ReplaceTop(writing, g) \in Seq(WriteFrame)
        /\ Len(ReplaceTop(writing, g)) = Len(writing)
        /\ ReplaceTop(writing, g)[Len(writing)] = g
        /\ \A k \in 1 .. Len(writing) - 1 : ReplaceTop(writing, g)[k] = writing[k]
    <3>1. writing \in Seq(WriteFrame) /\ writing # <<>> /\ g \in WriteFrame
      BY <1>2, <1>5
    <3> QED BY <3>1, ReplaceTopFacts
  <2> QED BY <2>1, <1>1
<1>10. cache.cursor = top.base + SlotsUpTo[top.msg][top.i]
  BY <1>6, <1>7
<1> HIDE DEF n
<1> QED BY <1>1, <1>2, <1>4, <1>5, <1>8, <1>9, <1>10, AdvanceStep DEF n

\* What is known when write_to of a nested message returns to p: with the
\* closing bytes, the whole field has been written and its slots read.
LEMMA ClosedField ==
    ASSUME IInv, pc = "writing", AtEnd(Top(writing)), Len(writing) > 1,
           NEW p, p = writing[Len(writing) - 1],
           NEW f, f = Cur(p)
    PROVE  /\ p \in WriteFrame /\ p.msg \in Msg /\ p.i \in 1 .. Len(Fields[p.msg])
           /\ out + ClosingLen(f) = p.start + LenUpTo[p.msg][p.i]
           /\ cache.cursor = p.base + SlotsUpTo[p.msg][p.i]
<1> DEFINE n == Len(writing)
           top == Top(writing)
<1>2. /\ writing \in Seq(WriteFrame) /\ writing # <<>> /\ n \in Nat /\ n >= 2
      /\ n \in 1 .. n /\ n - 1 \in 1 .. n /\ n - 1 \in 1 .. n - 1
      /\ n - 1 \in Nat /\ top = writing[n]
  BY WriteTop
<1>3. /\ top.msg \in Msg /\ top.start \in Nat /\ top.i \in Nat
      /\ top.i = Len(Fields[top.msg]) + 1 /\ Len(Fields[top.msg]) \in Nat
  <2>1. /\ top.msg \in Msg /\ top.start \in Nat
        /\ top.i \in 1 .. Len(Fields[top.msg]) + 1
        /\ Len(Fields[top.msg]) \in Nat
    BY <1>2, WriteTop
  <2>2. top.i > Len(Fields[top.msg])
    BY DEF AtEnd
  <2> HIDE DEF top
  <2> QED BY <2>1, <2>2
<1>4. /\ p \in WriteFrame /\ p.msg \in Msg /\ p.start \in Nat /\ p.base \in Nat
      /\ Len(Fields[p.msg]) \in Nat
  BY <1>2, WriteTop
<1>5. Encloses(p, top)
  <2>1. (n - 1) + 1 = n
    BY <1>2
  <2>2. Encloses(writing[n - 1], writing[(n - 1) + 1])
    BY <1>2 DEF IInv, WriteInv
  <2> QED BY <2>1, <2>2, <1>2
<1>9. /\ out = top.start + TrueLen(top.msg)
      /\ cache.cursor = top.base + Slots(top.msg)
  <2>1. top.i - 1 = Len(Fields[top.msg])
    BY <1>3
  <2> QED BY <2>1 DEF IInv, WriteInv, TrueLen, Slots
<1> HIDE DEF top
<1>10. /\ p.i \in 1 .. Len(Fields[p.msg]) /\ f.kind \in NestedKinds
       /\ top.msg = f.of
       /\ top.base = p.base + SlotsUpTo[p.msg][p.i - 1] + OwnSlot(f)
       /\ top.start = p.start + LenUpTo[p.msg][p.i - 1]
                        + OpeningLen(f, TrueLen(f.of))
  BY <1>5 DEF Encloses, Invokes
<1>11. f = Fields[p.msg][p.i]
  BY DEF Cur
<1>12. /\ f \in Field
       /\ LenUpTo[p.msg][p.i]
             = LenUpTo[p.msg][p.i - 1] + FieldLen(f, TrueLen(f.of))
       /\ SlotsUpTo[p.msg][p.i]
             = SlotsUpTo[p.msg][p.i - 1] + OwnSlot(f) + Slots(f.of)
  <2>1. p.msg \in Msg /\ p.i \in 1 .. Len(Fields[p.msg]) /\ f.kind \in NestedKinds
    BY <1>4, <1>10
  <2> QED BY <2>1, <1>11, RefStep, SMTT(30)
<1>13. /\ LenUpTo[p.msg][p.i - 1] \in Nat /\ SlotsUpTo[p.msg][p.i - 1] \in Nat
       /\ TrueLen(f.of) \in Nat /\ Slots(f.of) \in Nat /\ OwnSlot(f) \in Nat
       /\ OpeningLen(f, TrueLen(f.of)) \in Nat /\ ClosingLen(f) \in Nat
       /\ FieldLen(f, TrueLen(f.of))
             = OpeningLen(f, TrueLen(f.of)) + TrueLen(f.of) + ClosingLen(f)
  <2>1. p.i - 1 \in 0 .. Len(Fields[p.msg])
    BY <1>4, <1>10
  <2>2. LenUpTo[p.msg][p.i - 1] \in Nat /\ SlotsUpTo[p.msg][p.i - 1] \in Nat
    BY <2>1, <1>4, RefType
  <2>3. TrueLen(f.of) \in Nat /\ Slots(f.of) \in Nat
    BY <1>3, <1>10, RefType
  <2>4. OwnSlot(f) \in Nat
    BY DEF OwnSlot
  <2> QED BY <2>2, <2>3, <2>4, <1>10, <1>12, FieldSplit, OpeningLenNat
<1>14. out + ClosingLen(f) = p.start + LenUpTo[p.msg][p.i]
  <2>1. out + ClosingLen(f) = top.start + TrueLen(f.of) + ClosingLen(f)
    BY <1>9, <1>10
  <2> DEFINE a == LenUpTo[p.msg][p.i - 1]
             b == OpeningLen(f, TrueLen(f.of))
             x == TrueLen(f.of)
             z == ClosingLen(f)
  <2>2. /\ p.start \in Nat /\ a \in Nat /\ b \in Nat /\ x \in Nat /\ z \in Nat
        /\ out + ClosingLen(f) = p.start + a + b + x + z
        /\ LenUpTo[p.msg][p.i] = a + (b + x + z)
    BY <2>1, <1>4, <1>10, <1>12, <1>13
  <2> HIDE DEF a, b, x, z
  <2> QED BY <2>2
<1>15. cache.cursor = p.base + SlotsUpTo[p.msg][p.i]
  <2>1. cache.cursor = top.base + Slots(f.of)
    BY <1>9, <1>10
  <2> DEFINE a == SlotsUpTo[p.msg][p.i - 1]
             b == OwnSlot(f)
             x == Slots(f.of)
  <2>2. /\ p.base \in Nat /\ a \in Nat /\ b \in Nat /\ x \in Nat
        /\ cache.cursor = p.base + a + b + x
        /\ SlotsUpTo[p.msg][p.i] = a + b + x
    BY <2>1, <1>4, <1>10, <1>12, <1>13
  <2> HIDE DEF a, b, x
  <2> QED BY <2>2
<1> QED BY <1>4, <1>10, <1>14, <1>15

LEMMA WriteCloseStep ==
    ASSUME IInv, WriteClose
    PROVE  IInv'
<1> DEFINE n == Len(writing)
           rest == Pop(writing)
           p == writing[n - 1]
           f == Cur(p)
           g == [p EXCEPT !.i = @ + 1]
<1>1. pc = "writing" /\ AtEnd(Top(writing)) /\ n > 1
      /\ UNCHANGED <<call, outcome, pc, sizing, size, cache, kept, free>>
  BY DEF WriteClose
<1>2. /\ writing \in Seq(WriteFrame) /\ writing # <<>> /\ n \in Nat /\ n >= 2
      /\ n - 1 \in 1 .. n - 1 /\ n - 1 \in Nat
  BY <1>1, WriteTop
<1>3. /\ p \in WriteFrame /\ p.i \in 1 .. Len(Fields[p.msg])
      /\ out + ClosingLen(f) = p.start + LenUpTo[p.msg][p.i]
      /\ cache.cursor = p.base + SlotsUpTo[p.msg][p.i]
  BY <1>1, ClosedField
<1>6. rest \in Seq(WriteFrame) /\ Len(rest) = n - 1 /\ rest # <<>>
      /\ Top(rest) = p /\ \A k \in 1 .. n - 1 : rest[k] = writing[k]
  <2>1. /\ rest \in Seq(WriteFrame) /\ Len(rest) = n - 1
        /\ \A k \in 1 .. Len(rest) : rest[k] = writing[k]
    BY <1>2, StackFacts
  <2>2. rest # <<>>
    BY <2>1, <1>2
  <2> QED BY <2>1, <2>2, <1>2 DEF Top
<1>7. out' = out + ClosingLen(f) /\ writing' = ReplaceTop(rest, g)
  BY <1>6 DEF WriteClose, Advance
<1>8. /\ g \in WriteFrame /\ g.msg = p.msg /\ g.i = p.i + 1
      /\ g.start = p.start /\ g.decl = p.decl /\ g.base = p.base
  BY <1>3, AdvancedFacts
<1>9. out' = p.start + LenUpTo[p.msg][p.i]
  BY <1>3, <1>7
<1> HIDE DEF g, rest, p, f
<1>16. /\ writing' \in Seq(WriteFrame) /\ Len(writing') = n - 1
       /\ writing'[n - 1] = g
       /\ \A k \in 1 .. (n - 1) - 1 : writing'[k] = writing[k]
  <2>1. /\ ReplaceTop(rest, g) \in Seq(WriteFrame)
        /\ Len(ReplaceTop(rest, g)) = Len(rest)
        /\ ReplaceTop(rest, g)[Len(rest)] = g
        /\ \A k \in 1 .. Len(rest) - 1 : ReplaceTop(rest, g)[k] = rest[k]
    <3>1. rest \in Seq(WriteFrame) /\ rest # <<>> /\ g \in WriteFrame
      BY <1>6, <1>8
    <3> QED BY <3>1, ReplaceTopFacts
  <2>2. \A k \in 1 .. (n - 1) - 1 : rest[k] = writing[k]
    <3>1. \A k \in 1 .. (n - 1) - 1 : k \in 1 .. n - 1
      BY <1>2
    <3> QED BY <3>1, <1>6
  <2> QED BY <2>1, <2>2, <1>6, <1>7
<1>17. p = writing[n - 1]
  BY DEF p
<1>18. n - 1 \in 1 .. Len(writing)
  BY <1>2
<1> HIDE DEF n
<1> QED BY <1>1, <1>3, <1>8, <1>9, <1>16, <1>17, <1>18, AdvanceStep

\* What is known when write_to of the call's message returns.
LEMMA Written ==
    ASSUME IInv, pc = "writing", AtEnd(Top(writing)), Len(writing) = 1
    PROVE  out = Window /\ cache.cursor = cache.len
<1> DEFINE top == Top(writing)
<1>2. top = writing[1] /\ 1 \in 1 .. Len(writing)
  BY DEF Top
<1>3. top.i = Len(Fields[top.msg]) + 1 /\ Len(Fields[top.msg]) \in Nat
  BY <1>2, WriteTop DEF AtEnd
<1>4. out = BodyStart + TrueLen(call.root) /\ cache.cursor = 0 + Slots(call.root)
  <2>1. top.i - 1 = Len(Fields[top.msg])
    BY <1>3
  <2> QED BY <2>1, <1>2 DEF IInv, WriteInv, TrueLen, Slots
<1> QED BY <1>4, WriteNumbers

LEMMA WriteDoneStep ==
    ASSUME IInv, WriteDone
    PROVE  IInv'
<1> DEFINE top == Top(writing)
<1>1. /\ pc = "writing" /\ AtEnd(top) /\ Len(writing) = 1
      /\ writing' = <<>> /\ pc' = "returning"
      /\ UNCHANGED <<call, outcome, sizing, size, out, cache, kept, free>>
  BY DEF WriteDone
<1>5. out = Window /\ cache.cursor = cache.len
  BY <1>1, Written
<1>6. UNCHANGED <<Verdict, Window>>
  BY <1>1 DEF Verdict, Window
<1>7. TypeOK' /\ Phases'
  BY <1>1 DEF IInv, TypeOK, Phases
<1>8. CachesWellFormed' /\ PoolBounded' /\ SizeInv' /\ WriteInv'
  BY <1>1 DEF IInv, CachesWellFormed, PoolBounded, SizeInv, WriteInv
<1>9. SizedInv'
  BY <1>1 DEF IInv, SizedInv
<1>10. ReturnInv'
  <2>1. call.op \notin {"len", "raw"} /\ Verdict.status = "ok"
    BY <1>1 DEF IInv, WriteInv
  <2> QED BY <2>1, <1>1, <1>5, <1>6 DEF ReturnInv
<1> QED BY <1>7, <1>8, <1>9, <1>10 DEF IInv

-----------------------------------------------------------------------------
(***************************************************************************)
(* The theorems.                                                           *)
(***************************************************************************)
LEMMA NextStep ==
    ASSUME IInv, [Next]_vars
    PROVE  IInv'
<1>1. ASSUME NEW c \in Calls, BeginCall(c) PROVE IInv'
  BY <1>1, BeginCallStep
<1>2. CASE PoolAcquire
  BY <1>2, PoolAcquireStep
<1>3. CASE PoolRelease
  BY <1>3, PoolReleaseStep
<1>4. CASE SizePass
  BY <1>4, SizeLeafStep, SizeOpenStep, SizeCloseStep, SizeDoneStep DEF SizePass
<1>5. CASE CheckSize
  BY <1>5, CheckSizeStep
<1>6. CASE WritePass
  BY <1>6, WriteLeafStep, WriteOpenStep, WriteOpenGroupStep, WriteCloseStep,
     WriteDoneStep DEF WritePass
<1>7. CASE Return
  BY <1>7, ReturnStep
<1>8. CASE UNCHANGED vars
  BY <1>8, StutterStep
<1> QED BY <1>1, <1>2, <1>3, <1>4, <1>5, <1>6, <1>7, <1>8 DEF Next, Run

\* The invariant of both passes: at every point of every call the slots
\* reserved, filled and read, the bytes counted and the bytes written are those
\* the reference functions of MessageTree give for the fields passed so far.
THEOREM Inductive == Spec => []IInv
<1>1. Init => IInv
  BY InitStep
<1>2. IInv /\ [Next]_vars => IInv'
  BY NextStep
<1> QED BY <1>1, <1>2, PTL DEF Spec

\* Every variable keeps its type, for every tree of messages and all limits.
THEOREM TypeCorrect == Spec => []TypeOK
<1>1. IInv => TypeOK
  BY DEF IInv
<1> QED BY <1>1, Inductive, PTL

\* Every cache stays readable whatever mix of calls, errors and pool reuse it
\* has been through: the `assume_init` of consume_next is sound.
THEOREM CachesReadable == Spec => []CachesWellFormed
<1>1. IInv => CachesWellFormed
  BY DEF IInv
<1> QED BY <1>1, Inductive, PTL

\* The pool's free list respects both of its limits.
THEOREM PoolStaysBounded == Spec => []PoolBounded
<1>1. IInv => PoolBounded
  BY DEF IInv
<1> QED BY <1>1, Inductive, PTL

\* What a frame has written never goes past the window of the call.
LEMMA FrameFits ==
    ASSUME IInv, pc = "writing", NEW k \in 1 .. Len(writing),
           NEW fr, fr = writing[k], NEW i \in 0 .. Len(Fields[fr.msg])
    PROVE  /\ fr.start + LenUpTo[fr.msg][i] <= EndOf(fr)
           /\ EndOf(fr) <= Window
           /\ fr.start + LenUpTo[fr.msg][i] <= Window
<1>1. fr.msg \in Msg /\ fr.start \in Nat /\ TrueLen(fr.msg) \in Nat
  BY WriteTop
<1>2. LenUpTo[fr.msg][i] \in Nat /\ LenUpTo[fr.msg][i] <= TrueLen(fr.msg)
  BY <1>1, RefType
<1>3. EndOf(fr) = fr.start + TrueLen(fr.msg)
  BY DEF EndOf
<1>4. WithinRoot(fr, call.root, BodyStart, BodyStart + size)
  BY DEF IInv, WriteInv
<1>5. EndOf(fr) <= Window /\ Window \in Nat
  <2>1. fr.start + TrueLen(fr.msg) <= BodyStart + size
    BY <1>4 DEF WithinRoot
  <2>2. Window = BodyStart + size /\ BodyStart \in Nat /\ size \in Nat
    BY WriteNumbers
  <2>3. Window \in Nat
    BY <2>2
  <2> QED BY <2>1, <2>2, <2>3, <1>3
<1>6. fr.start + LenUpTo[fr.msg][i] <= EndOf(fr)
  BY <1>1, <1>2, <1>3
<1>7. fr.start + LenUpTo[fr.msg][i] \in Nat /\ EndOf(fr) \in Nat
  BY <1>1, <1>2, <1>3, SMTT(30)
<1>8. fr.start + LenUpTo[fr.msg][i] <= Window
  BY <1>5, <1>6, <1>7, NatTransitive
<1> QED BY <1>5, <1>6, <1>8

\* No state the invariant allows is about to panic.
LEMMA NoPanicHolds ==
    ASSUME IInv
    PROVE  NoPanic
<1>1. ASSUME pc = "sizing", AtEnd(Top(sizing)), Top(sizing).slot # NoSlot
      PROVE  CanSet(cache, Top(sizing).slot)
  <2>1. Len(sizing) \in 1 .. Len(sizing) /\ Top(sizing) = sizing[Len(sizing)]
    BY <1>1, SizeTop
  <2>2. Top(sizing).slot \in Nat
    BY <1>1, <2>1, SizeTop DEF NoSlot
  <2>3. Top(sizing).slot < cache.len
    BY <1>1, <2>1 DEF IInv, SizeInv
  <2>4. cache \in CacheType /\ WellFormed(cache)
    BY DEF IInv, TypeOK, CachesWellFormed
  <2> QED BY <2>2, <2>3, <2>4, ReservedSlotsCanBeSet
<1> DEFINE fr == Top(writing)
           n == Len(writing)
<1>2. ASSUME pc = "writing"
      PROVE  /\ n \in Nat /\ n >= 1 /\ n \in 1 .. n /\ fr = writing[n]
             /\ fr.msg \in Msg
             /\ fr.i \in 1 .. Len(Fields[fr.msg]) + 1
             /\ Len(Fields[fr.msg]) \in Nat
             /\ out = fr.start + LenUpTo[fr.msg][fr.i - 1]
             /\ fr.start \in Nat
  <2>1. n \in Nat /\ n >= 1 /\ n \in 1 .. n /\ fr = writing[n]
    BY <1>2, WriteTop
  <2>2. /\ fr.msg \in Msg /\ fr.i \in 1 .. Len(Fields[fr.msg]) + 1
        /\ Len(Fields[fr.msg]) \in Nat /\ fr.start \in Nat
    BY <1>2, <2>1, WriteTop
  <2> QED BY <1>2, <2>1, <2>2 DEF IInv, WriteInv
<1>3. ASSUME pc = "writing", ~ AtEnd(fr), Cur(fr).kind = "leaf"
      PROVE  Fits(out + Cur(fr).n)
  <2>1. fr.i \in 1 .. Len(Fields[fr.msg]) /\ fr.i \in 0 .. Len(Fields[fr.msg])
    BY <1>2, <1>3 DEF AtEnd
  <2>2. /\ Cur(fr).n \in Nat /\ LenUpTo[fr.msg][fr.i - 1] \in Nat
        /\ LenUpTo[fr.msg][fr.i] = LenUpTo[fr.msg][fr.i - 1] + Cur(fr).n
    BY <1>2, <1>3, <2>1, LeafStep DEF Cur
  <2>3. fr.start + LenUpTo[fr.msg][fr.i] <= Window
    BY <1>2, <1>3, <2>1, FrameFits
  <2>4. out + Cur(fr).n = fr.start + LenUpTo[fr.msg][fr.i]
    BY <1>2, <1>3, <2>2
  <2> QED BY <2>3, <2>4 DEF Fits
<1>4. ASSUME pc = "writing", ~ AtEnd(fr), Cur(fr).kind \in NestedKinds
      PROVE  out + OpeningLen(Cur(fr), TrueLen(Cur(fr).of)) <= Window
  <2> DEFINE f == Cur(fr)
             g == [msg |-> f.of, i |-> 1,
                   start |-> out + OpeningLen(f, TrueLen(f.of)),
                   decl |-> NoSlot, base |-> cache.cursor + OwnSlot(f)]
  <2>1. NoSlot \in SlotOrNone
    BY DEF SlotOrNone
  <2>2. g.start <= BodyStart + size
    <3> HIDE DEF f, fr
    <3> QED BY <1>4, <2>1, OpenedFrame DEF f, fr
  <2>3. g.start = out + OpeningLen(f, TrueLen(f.of))
    OBVIOUS
  <2>4. Window = BodyStart + size
    BY <1>4, WriteNumbers
  <2> QED BY <2>2, <2>3, <2>4
<1>5. ASSUME pc = "writing", ~ AtEnd(fr), Cur(fr).kind = "group"
      PROVE  Fits(out + Cur(fr).tl)
  <2>1. Cur(fr).kind \in NestedKinds
        /\ OpeningLen(Cur(fr), TrueLen(Cur(fr).of)) = Cur(fr).tl
    BY <1>5 DEF NestedKinds, OpeningLen
  <2> QED BY <2>1, <1>4, <1>5 DEF Fits
<1>6. ASSUME pc = "writing", ~ AtEnd(fr), Cur(fr).kind \in SlotKinds
      PROVE  CanRead /\ Fits(out + OpeningLen(Cur(fr), ConsumedValue(cache)))
  <2>1. Cur(fr).kind \in NestedKinds
    BY <1>6 DEF NestedKinds
  <2>2. CanRead /\ ConsumedValue(cache) = TrueLen(Cur(fr).of)
    BY <1>6, SlotToRead
  <2> QED BY <2>1, <2>2, <1>4, <1>6 DEF Fits
<1>7. ASSUME pc = "writing", AtEnd(fr), n > 1
      PROVE  Fits(out + ClosingLen(Cur(Top(Pop(writing)))))
  <2> DEFINE p == writing[n - 1]
  <2>1. n - 1 \in 1 .. n /\ n - 1 \in 1 .. n - 1
    BY <1>2, <1>7
  <2>2. Top(Pop(writing)) = p
    <3>1. writing \in Seq(WriteFrame) /\ writing # <<>>
      BY <1>7, WriteTop
    <3>2. Len(Pop(writing)) = n - 1
          /\ \A k \in 1 .. Len(Pop(writing)) : Pop(writing)[k] = writing[k]
      BY <3>1, StackFacts
    <3> QED BY <3>2, <2>1 DEF Top
  <2>3. /\ p.msg \in Msg /\ p.i \in 1 .. Len(Fields[p.msg])
        /\ out + ClosingLen(Cur(p)) = p.start + LenUpTo[p.msg][p.i]
    BY <1>7, ClosedField
  <2>4. p.i \in 0 .. Len(Fields[p.msg])
    BY <2>3, RefType
  <2>5. p.start + LenUpTo[p.msg][p.i] <= Window
    BY <1>7, <2>1, <2>4, FrameFits
  <2> QED BY <2>2, <2>3, <2>5 DEF Fits
<1>8. ASSUME pc = "writing", AtEnd(fr), ~ (n > 1)
      PROVE  out = Window
  <2>1. n = 1
    <3>1. n \in Nat /\ n >= 1
      BY <1>2, <1>8
    <3> HIDE DEF n
    <3> QED BY <3>1, <1>8
  <2> QED BY <2>1, <1>8, Written
<1> QED BY <1>1, <1>3, <1>5, <1>6, <1>7, <1>8 DEF NoPanic

\* No encode panics, for every tree of messages, every mix of entry points and
\* every state of the cache and the pool.
THEOREM NeverPanics == Spec => []NoPanic
BY Inductive, NoPanicHolds, PTL

LEMMA PrefixHolds ==
    ASSUME IInv
    PROVE  PrefixExact
<1> SUFFICES ASSUME NEW k \in 1 .. Len(writing), writing[k].decl # NoSlot
             PROVE  /\ out - writing[k].start <= writing[k].decl
                    /\ k = Len(writing) /\ AtEnd(writing[k]) =>
                          out - writing[k].start = writing[k].decl
  BY DEF PrefixExact
<1> DEFINE n == Len(writing)
           fr == writing[k]
           top == writing[n]
<1>1. pc = "writing"
  <2>1. writing # <<>>
    OBVIOUS
  <2> QED BY <2>1 DEF IInv, Phases
<1>2. /\ n \in Nat /\ n >= 1 /\ n \in 1 .. n /\ Top(writing) = top
      /\ fr.msg \in Msg /\ fr.start \in Nat /\ TrueLen(fr.msg) \in Nat
      /\ EndOf(fr) \in Nat
  BY <1>1, WriteTop
<1>3. /\ top.msg \in Msg /\ top.i \in 1 .. Len(Fields[top.msg]) + 1
      /\ Len(Fields[top.msg]) \in Nat /\ EndOf(top) \in Nat
      /\ top.start \in Nat
  BY <1>1, <1>2, WriteTop
<1>4. out = top.start + LenUpTo[top.msg][top.i - 1] /\ out \in Nat
  BY <1>1, <1>2 DEF IInv, WriteInv, TypeOK
<1>5. fr.decl = TrueLen(fr.msg)
  BY <1>1 DEF IInv, WriteInv, WithinRoot
<1>6. out <= EndOf(top)
  <2>1. top.i - 1 \in 0 .. Len(Fields[top.msg])
    BY <1>3
  <2> QED BY <1>1, <1>2, <1>4, <2>1, FrameFits
<1>7. EndOf(top) <= EndOf(fr)
  <2>1. CASE k = n
    BY <2>1, <1>2
  <2>2. CASE k # n
    <3>1. k < n
      BY <2>2, <1>2
    <3> QED BY <3>1, <1>1, <1>2 DEF IInv, WriteInv
  <2> QED BY <2>1, <2>2
<1>8. EndOf(fr) = fr.start + TrueLen(fr.msg)
  BY DEF EndOf
<1>9. out - fr.start <= fr.decl
  <2>1. out <= fr.start + TrueLen(fr.msg)
    BY <1>2, <1>3, <1>4, <1>6, <1>7, <1>8
  <2> QED BY <2>1, <1>2, <1>4, <1>5
<1>10. ASSUME k = n, AtEnd(fr)
       PROVE  out - fr.start = fr.decl
  <2>1. top.i - 1 = Len(Fields[top.msg])
    BY <1>3, <1>10 DEF AtEnd
  <2>2. out = fr.start + TrueLen(fr.msg)
    BY <2>1, <1>4, <1>10 DEF TrueLen
  <2> QED BY <2>2, <1>2, <1>5
<1> QED BY <1>9, <1>10

\* Every length prefix on the wire is the length of the body behind it.
THEOREM PrefixesExact == Spec => []PrefixExact
BY Inductive, PrefixHolds, PTL

\* A successful write pass has read back every slot the size pass reserved.
THEOREM SlotsConsumed == Spec => []AllSlotsConsumed
<1>1. IInv => AllSlotsConsumed
  BY DEF IInv, ReturnInv, AllSlotsConsumed
<1> QED BY <1>1, Inductive, PTL

\* What Return answers is what the contract says.
LEMMA AnswerIs ==
    ASSUME IInv, pc = "returning"
    PROVE  [Verdict EXCEPT !.written = out] = Answer(call)
<1> DEFINE n == TrueLen(call.root)
<1>1. /\ n \in Nat /\ size = SaturateSize(n) /\ size \in Nat /\ out \in Nat
      /\ call.max \in Nat /\ call \in Calls
  <2>1. call \in Calls /\ call.root \in Msg /\ call.max \in Nat
    BY Running
  <2>2. size \in Nat /\ out \in Nat
    BY LimitsAssumption DEF IInv, TypeOK
  <2> QED BY <2>1, <2>2, RefType DEF IInv, SizedInv
<1>2. /\ size > MaxMessage <=> n > MaxMessage
      /\ size <= MaxMessage => size = n
  BY <1>1, LimitsAssumption DEF SaturateSize
<1>3. IF Verdict.status = "ok" /\ call.op \notin {"len", "raw"}
        THEN out = Window ELSE out = 0
  BY DEF IInv, ReturnInv
<1> HIDE DEF n
<1>4. CASE call.op = "raw"
  <2>1. Verdict = [status |-> "ok", len |-> size, written |-> 0] /\ out = 0
    BY <1>3, <1>4 DEF Verdict
  <2>2. Answer(call) = [status |-> "ok", len |-> size, written |-> 0]
    BY <1>1, <1>4 DEF Answer, n
  <2> QED BY <2>1, <2>2
<1>5. CASE call.op # "raw" /\ n > MaxMessage
  <2>1. Verdict = Refused("too_large")
    BY <1>2, <1>5 DEF Verdict
  <2>2. Answer(call) = Refused("too_large")
    BY <1>5 DEF Answer, n
  <2>3. out = 0
    BY <1>3, <2>1 DEF Refused
  <2> QED BY <2>1, <2>2, <2>3 DEF Refused
<1>6. CASE call.op = "bounded" /\ ~ (n > MaxMessage) /\ n > call.max
  <2>0. ~ (size > MaxMessage) /\ size = n
    BY <1>1, <1>2, <1>6, LimitsAssumption
  <2>1. Verdict = Refused("over_budget")
    BY <2>0, <1>6 DEF Verdict
  <2>2. Answer(call) = Refused("over_budget")
    BY <1>6 DEF Answer, n
  <2>3. out = 0
    BY <1>3, <2>1 DEF Refused
  <2> QED BY <2>1, <2>2, <2>3 DEF Refused
<1>7. CASE /\ call.op # "raw" /\ ~ (n > MaxMessage)
           /\ ~ (call.op = "bounded" /\ n > call.max)
  <2>0. ~ (size > MaxMessage) /\ size = n
    BY <1>1, <1>2, <1>7, LimitsAssumption
  <2>1. Verdict = [status |-> "ok", len |-> n, written |-> 0]
    BY <2>0, <1>7 DEF Verdict
  <2>2. Answer(call) = [status |-> "ok", len |-> n,
                        written |-> IF call.op = "len" THEN 0
                                    ELSE IF call.op = "delimited"
                                      THEN VarintLen(n) + n ELSE n]
    BY <1>7 DEF Answer, n
  <2>3. out = IF call.op = "len" THEN 0
              ELSE IF call.op = "delimited" THEN VarintLen(n) + n ELSE n
    BY <1>3, <1>7, <2>0, <2>1 DEF Window
  <2> QED BY <2>1, <2>2, <2>3
<1> QED BY <1>4, <1>5, <1>6, <1>7

\* The two passes implement the contract of the entry points: every step is a
\* call, the return of the right answer, or invisible to the caller.
THEOREM Refines == Spec => ApiSafety
<1>1. Init => ApiInit
  BY DEF Init
<1>2. IInv /\ [Next]_vars => [ApiCall \/ ApiReturn]_apiVars
  <2> SUFFICES ASSUME IInv, [Next]_vars
               PROVE  [ApiCall \/ ApiReturn]_apiVars
    OBVIOUS
  <2>1. ASSUME NEW c \in Calls, BeginCall(c)
        PROVE  ApiCall
    BY <2>1 DEF BeginCall, ApiCall, IInv, Phases
  <2>2. CASE PoolAcquire \/ PoolRelease
    BY <2>2 DEF PoolAcquire, PoolRelease, apiVars
  <2>3. CASE SizePass
    BY <2>3 DEF SizePass, SizeLeaf, SizeOpen, SizeClose, SizeDone, apiVars
  <2>4. CASE CheckSize
    BY <2>4 DEF CheckSize, apiVars
  <2>5. CASE WritePass
    BY <2>5 DEF WritePass, WriteLeaf, WriteOpen, WriteOpenGroup, WriteClose,
       WriteDone, apiVars
  <2>6. CASE Return
    <3>1. pc = "returning" /\ call' = NoCall
          /\ outcome' = [Verdict EXCEPT !.written = out]
      BY <2>6 DEF Return
    <3>2. call # NoCall
      BY <3>1 DEF IInv, Phases
    <3> QED BY <3>1, <3>2, AnswerIs DEF ApiReturn
  <2>7. CASE UNCHANGED vars
    BY <2>7 DEF vars, apiVars
  <2> QED BY <2>1, <2>2, <2>3, <2>4, <2>5, <2>6, <2>7 DEF Next, Run
<1> QED BY <1>1, <1>2, Inductive, PTL DEF Spec, ApiSafety
=============================================================================
