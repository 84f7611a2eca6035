----------------------------- MODULE SizeCache -----------------------------
(***************************************************************************)
(* The table of sub-message lengths that the size pass of an encode fills  *)
(* and the write pass reads back (buffa/src/size_cache.rs).                *)
(*                                                                         *)
(* Slots 0 .. InlineCap-1 live in an array inside the cache, the rest in   *)
(* a vector, the spill.  The array starts uninitialised and `clear` does   *)
(* not reset it, so slot i may only be read when i < len.                  *)
(***************************************************************************)
EXTENDS Naturals, Sequences

CONSTANTS
    InlineCap,      \* INLINE_CAP, 16 in the code
    Uninit          \* the content of an array slot never written

ASSUME InlineCapAssumption == InlineCap \in Nat
ASSUME UninitAssumption == Uninit \notin Nat

InlineIdx == 0 .. (InlineCap - 1)

\* A vector of lengths: its content and its capacity.
VecType == [data : Seq(Nat), cap : Nat]

\* The fields of SizeCache; the spill's content and capacity are kept apart.
InlineType == [InlineIdx -> Nat \cup {Uninit}]
SpillType == Seq(Nat)

CacheType ==
    [inline : InlineType,
     spill  : SpillType,
     cap    : Nat,
     len    : Nat,
     cursor : Nat]

\* `Vec::push` past the capacity: at least doubled, never below four slots.
GrownCap(cap, need) ==
    IF need <= cap THEN cap
    ELSE IF 2 * cap >= need /\ 2 * cap >= 4 THEN 2 * cap
    ELSE IF need >= 4 THEN need ELSE 4

\* `with_spill_buffer`: a fresh array over a recycled, cleared vector.
WithSpillBuffer(v) ==
    [inline |-> [i \in InlineIdx |-> Uninit],
     spill  |-> <<>>,
     cap    |-> v.cap,
     len    |-> 0,
     cursor |-> 0]

NewCache == WithSpillBuffer([data |-> <<>>, cap |-> 0])

\* `clear`: the spill, the count and the cursor; the array keeps its values
\* and the spill its capacity.
Clear(c) == [c EXCEPT !.spill = <<>>, !.len = 0, !.cursor = 0]

\* The slot `reserve` hands out, and the cache it leaves behind.  The
\* placeholder 0 is what makes a later read of the slot defined.
ReserveIdx(c) == c.len

Reserve(c) ==
    IF c.len < InlineCap
      THEN [c EXCEPT !.inline = [@ EXCEPT ![c.len] = 0], !.len = c.len + 1]
      ELSE [c EXCEPT !.spill = Append(@, 0),
                     !.cap = GrownCap(@, Len(c.spill) + 1),
                     !.len = c.len + 1]

\* `set` panics on a slot that was not reserved, or that the spill lost.
CanSet(c, idx) ==
    /\ idx < c.len
    /\ idx >= InlineCap => idx - InlineCap < Len(c.spill)

SetSlot(c, idx, size) ==
    IF idx < InlineCap
      THEN [c EXCEPT !.inline = [@ EXCEPT ![idx] = size]]
      ELSE [c EXCEPT !.spill = [@ EXCEPT ![idx - InlineCap + 1] = size]]

\* `consume_next` panics past the last slot, or where the spill is short.
CanConsume(c) ==
    /\ c.cursor < c.len
    /\ c.cursor >= InlineCap => c.cursor - InlineCap < Len(c.spill)

SlotValue(c, idx) ==
    IF idx < InlineCap THEN c.inline[idx] ELSE c.spill[idx - InlineCap + 1]

ConsumedValue(c) == SlotValue(c, c.cursor)

ConsumeNext(c) == [c EXCEPT !.cursor = c.cursor + 1]

(***************************************************************************)
(* SizeCachePool: a free list of spills, bounded in number and, each, in   *)
(* capacity.                                                               *)
(***************************************************************************)
CONSTANTS MaxBuffers, MaxCapacity

ASSUME PoolAssumption == MaxBuffers \in Nat /\ MaxCapacity \in Nat

PoolType == Seq(VecType)

AcquiredCache(free) ==
    IF free = <<>> THEN NewCache ELSE WithSpillBuffer(free[Len(free)])

AcquiredPool(free) ==
    IF free = <<>> THEN free ELSE SubSeq(free, 1, Len(free) - 1)

\* Mutant: an oversized buffer is kept as it is.
ReleaseUnshrunk(free, c) ==
    IF Len(free) >= MaxBuffers \/ c.cap = 0
      THEN free ELSE Append(free, [data |-> <<>>, cap |-> c.cap])

\* release: a full list drops the buffer; otherwise it is emptied, shrunk to
\* the capacity limit and kept unless nothing is left of it.
Release(free, c) ==
    LET cap == IF c.cap > MaxCapacity THEN MaxCapacity ELSE c.cap IN
    IF Len(free) >= MaxBuffers \/ cap = 0
      THEN free
      ELSE Append(free, [data |-> <<>>, cap |-> cap])

-----------------------------------------------------------------------------
(***************************************************************************)
(* What reserve, set and consume_next rely on.                             *)
(***************************************************************************)
\* Every reserved slot holds a number, and the spill holds exactly the slots
\* past the array: the condition the `assume_init` in consume_next needs and
\* the one reserve's debug_assert states.
WellFormed(c) ==
    /\ \A i \in InlineIdx : i < c.len => c.inline[i] \in Nat
    /\ Len(c.spill) = IF c.len > InlineCap THEN c.len - InlineCap ELSE 0
    /\ c.cursor <= c.len
=============================================================================
