--------------------------- MODULE TwoPassEncode ---------------------------
(***************************************************************************)
(* The encode entry points of Message and SizeCachePool, down to the       *)
(* single steps of the two traversals: the size pass that reserves a slot  *)
(* in the SizeCache before it descends into a sub-message and fills it on  *)
(* the way out, and the write pass that reads the slots back in order.     *)
(* The traversals are recursive in the code; here the recursion is the     *)
(* stacks `sizing` and `writing`.                                          *)
(***************************************************************************)
EXTENDS EncodeApi, SizeCache

CONSTANT MaxKeptSlots   \* bound: slots a caller's cache collects over raw calls

ASSUME MaxKeptSlotsAssumption == MaxKeptSlots \in Nat

NoSlot == -1
SlotOrNone == Nat \cup {NoSlot}

VARIABLES
    pc,         \* where the call is
    sizing,     \* frames of the size pass, innermost last
    writing,    \* frames of the write pass, innermost last
    size,       \* the length the size pass returned
    out,        \* bytes put into the sink since the call
    cache,      \* the SizeCache of the call
    kept,       \* the cache the caller keeps between calls
    free        \* the pool's free list

internal == <<pc, sizing, writing, size, out, cache, kept, free>>
vars == <<call, outcome, pc, sizing, writing, size, out, cache, kept, free>>

\* One activation of compute_size: the message, the next field, the bytes
\* counted so far and the slot to fill on return.  base is not in the code: the
\* number of slots the cache held when the activation began.
SizeFrame ==
    [msg : Msg, i : Nat, acc : Nat, slot : SlotOrNone, base : Nat]

\* One activation of write_to.  start, decl and base are not in the code: the
\* sink position at which the body begins, the length that announces it (NoSlot
\* for a group) and the number of slots read before it.
WriteFrame ==
    [msg : Msg, i : Nat, start : Nat, decl : SlotOrNone, base : Nat]

Top(s) == s[Len(s)]
Pop(s) == SubSeq(s, 1, Len(s) - 1)
ReplaceTop(s, fr) == [s EXCEPT ![Len(s)] = fr]
AtEnd(fr) == fr.i > Len(Fields[fr.msg])
Cur(fr) == Fields[fr.msg][fr.i]

TypeOK ==
    /\ call \in Calls \cup {NoCall}
    /\ outcome \in Outcome \cup {NoOutcome}
    /\ pc \in {"idle", "sizing", "sized", "writing", "returning"}
    /\ sizing \in Seq(SizeFrame)
    /\ writing \in Seq(WriteFrame)
    /\ size \in 0 .. MaxU32
    /\ out \in Nat
    /\ cache \in CacheType
    /\ kept \in CacheType
    /\ free \in PoolType

Init ==
    /\ ApiInit
    /\ pc = "idle"
    /\ sizing = <<>> /\ writing = <<>>
    /\ size = 0 /\ out = 0
    /\ cache = NewCache /\ kept = NewCache
    /\ free = <<>>

-----------------------------------------------------------------------------
(***************************************************************************)
(* The caller and the pool.                                                *)
(***************************************************************************)
\* Mutant: the caller's cache is used as it was left.
CallCacheUncleared(c) ==
    CASE c.src = "fresh" -> NewCache
      [] c.src = "pool"  -> AcquiredCache(free)
      [] OTHER           -> kept

\* Which cache a call works with: a new one; the caller's, cleared by the
\* with_cache entry points and appended to by a bare compute_size; or one
\* from the pool, whose entry points clear it again.
CallCache(c) ==
    CASE c.src = "fresh" -> NewCache
      [] c.src = "pool"  -> AcquiredCache(free)
      [] OTHER           -> IF c.op = "raw" THEN kept ELSE Clear(kept)

BeginCall(c) ==
    /\ pc = "idle"
    /\ c.op = "raw" => kept.len < MaxKeptSlots
    /\ call' = c
    /\ outcome' = NoOutcome
    /\ pc' = "sizing"
    /\ sizing' = <<[msg |-> c.root, i |-> 1, acc |-> 0, slot |-> NoSlot,
                    base |-> CallCache(c).len]>>
    /\ out' = 0
    /\ cache' = CallCache(c)
    /\ free' = IF c.src = "pool" THEN AcquiredPool(free) ELSE free
    /\ UNCHANGED <<writing, size, kept>>

\* A caller may also take its cache from the pool and give it back itself.
PoolAcquire ==
    /\ pc = "idle"
    /\ kept' = AcquiredCache(free)
    /\ free' = AcquiredPool(free)
    /\ UNCHANGED <<call, outcome, pc, sizing, writing, size, out, cache>>

PoolRelease ==
    /\ pc = "idle"
    /\ free' = Release(free, kept)
    /\ kept' = NewCache
    /\ UNCHANGED <<call, outcome, pc, sizing, writing, size, out, cache>>

-----------------------------------------------------------------------------
(***************************************************************************)
(* The size pass.                                                          *)
(***************************************************************************)
\* One field counted: `size += n`, on to the next.
Counted(fr, n) == [fr EXCEPT !.acc = fr.acc + n, !.i = fr.i + 1]

SizeLeaf ==
    /\ pc = "sizing"
    /\ ~ AtEnd(Top(sizing))
    /\ Cur(Top(sizing)).kind = "leaf"
    /\ sizing' = ReplaceTop(sizing,
                     Counted(Top(sizing), Cur(Top(sizing)).n))
    /\ UNCHANGED <<call, outcome, pc, writing, size, out, cache, kept, free>>

\* Mutant: a slot for groups too, which the write pass never reads.
NeedsSlotAlways(f) == f.kind \in NestedKinds

\* A length needs a slot; a group has no length.
NeedsSlot(f) == f.kind \in SlotKinds

\* Descend into a nested message, its slot reserved first.
SizeOpen ==
    /\ pc = "sizing"
    /\ ~ AtEnd(Top(sizing))
    /\ LET f == Cur(Top(sizing))
           c == IF NeedsSlot(f) THEN Reserve(cache) ELSE cache
       IN
        /\ f.kind \in NestedKinds
        /\ sizing' = Append(sizing,
              [msg |-> f.of, i |-> 1, acc |-> 0,
               slot |-> IF NeedsSlot(f) THEN ReserveIdx(cache) ELSE NoSlot,
               base |-> c.len])
        /\ cache' = c
    /\ UNCHANGED <<call, outcome, pc, writing, size, out, kept, free>>

\* compute_size of a nested message returns: its slot is set, and the parent
\* goes on with the field's length added.
SizeClose ==
    /\ pc = "sizing"
    /\ AtEnd(Top(sizing))
    /\ Len(sizing) > 1
    /\ LET fr == Top(sizing)
           inner == SaturateSize(fr.acc)
           rest == Pop(sizing)
       IN  /\ fr.slot # NoSlot => CanSet(cache, fr.slot)
           /\ cache' = IF fr.slot = NoSlot THEN cache
                       ELSE SetSlot(cache, fr.slot, inner)
           /\ sizing' = ReplaceTop(rest,
                 Counted(Top(rest), FieldLen(Cur(Top(rest)), inner)))
    /\ UNCHANGED <<call, outcome, pc, writing, size, out, kept, free>>

\* compute_size of the outermost message returns.
SizeDone ==
    /\ pc = "sizing"
    /\ AtEnd(Top(sizing))
    /\ Len(sizing) = 1
    /\ size' = SaturateSize(Top(sizing).acc)
    /\ sizing' = <<>>
    /\ pc' = "sized"
    /\ UNCHANGED <<call, outcome, writing, out, cache, kept, free>>

-----------------------------------------------------------------------------
(***************************************************************************)
(* Between the passes: checked_encode_size, then the caller's budget.      *)
(***************************************************************************)
\* Mutant: the budget is looked at before the 2 GiB limit.
VerdictBudgetFirst ==
    IF call.op = "raw"
      THEN [status |-> "ok", len |-> size, written |-> 0]
    ELSE IF call.op = "bounded" /\ size > call.max THEN Refused("over_budget")
    ELSE IF size > MaxMessage THEN Refused("too_large")
    ELSE [status |-> "ok", len |-> size, written |-> 0]

Verdict ==
    IF call.op = "raw"
      THEN [status |-> "ok", len |-> size, written |-> 0]
    ELSE IF size > MaxMessage THEN Refused("too_large")
    ELSE IF call.op = "bounded" /\ size > call.max THEN Refused("over_budget")
    ELSE [status |-> "ok", len |-> size, written |-> 0]

CheckSize ==
    /\ pc = "sized"
    /\ IF Verdict.status = "ok" /\ call.op \notin {"len", "raw"}
         THEN LET at == IF call.op = "delimited" THEN VarintLen(size) ELSE 0
              IN  /\ pc' = "writing"
                  /\ out' = at
                  /\ writing' = <<[msg |-> call.root, i |-> 1,
                                   start |-> at, decl |-> size,
                                   base |-> cache.cursor]>>
         ELSE pc' = "returning" /\ UNCHANGED <<out, writing>>
    /\ UNCHANGED <<call, outcome, sizing, size, cache, kept, free>>

-----------------------------------------------------------------------------
(***************************************************************************)
(* The write pass.                                                         *)
(***************************************************************************)
\* The end of the window a pre-sized sink writes into; the other sinks grow.
Window == IF call.op = "delimited" THEN VarintLen(size) + size ELSE size
Fits(n) == call.sink = "presized" => n <= Window

Advance(stack) == ReplaceTop(stack, [Top(stack) EXCEPT !.i = @ + 1])

WriteLeaf ==
    /\ pc = "writing"
    /\ ~ AtEnd(Top(writing))
    /\ Cur(Top(writing)).kind = "leaf"
    /\ Fits(out + Cur(Top(writing)).n)
    /\ out' = out + Cur(Top(writing)).n
    /\ writing' = Advance(writing)
    /\ UNCHANGED <<call, outcome, pc, sizing, size, cache, kept, free>>

\* What goes before a body whose slot holds `len`.
OpeningLen(f, len) ==
    CASE f.kind = "msg"   -> f.tl + VarintLen(len)
      [] f.kind = "group" -> f.tl
      [] OTHER -> f.tl + VarintLen(EntryLen(f, len)) + EntryLen(f, len) - len

CanRead == CanConsume(cache) /\ ConsumedValue(cache) # Uninit

\* Tag and length prefix, then down into the nested message.
WriteOpen ==
    /\ pc = "writing"
    /\ ~ AtEnd(Top(writing))
    /\ LET f == Cur(Top(writing)) IN
        /\ f.kind \in SlotKinds
        /\ CanRead
        /\ LET len == ConsumedValue(cache)
               pos == out + OpeningLen(f, len)
           IN  /\ Fits(pos)
               /\ out' = pos
               /\ writing' = Append(writing,
                     [msg |-> f.of, i |-> 1, start |-> pos, decl |-> len,
                      base |-> cache.cursor + 1])
        /\ cache' = ConsumeNext(cache)
    /\ UNCHANGED <<call, outcome, pc, sizing, size, kept, free>>

WriteOpenGroup ==
    /\ pc = "writing"
    /\ ~ AtEnd(Top(writing))
    /\ LET f == Cur(Top(writing)) IN
        /\ f.kind = "group"
        /\ Fits(out + f.tl)
        /\ out' = out + f.tl
        /\ writing' = Append(writing,
              [msg |-> f.of, i |-> 1, start |-> out + f.tl, decl |-> NoSlot,
               base |-> cache.cursor])
    /\ UNCHANGED <<call, outcome, pc, sizing, size, cache, kept, free>>

\* write_to of a nested message returns; a group's end tag follows.
ClosingLen(f) == IF f.kind = "group" THEN f.tl ELSE 0

WriteClose ==
    /\ pc = "writing"
    /\ AtEnd(Top(writing))
    /\ Len(writing) > 1
    /\ LET rest == Pop(writing)
           pos == out + ClosingLen(Cur(Top(rest)))
       IN  /\ Fits(pos)
           /\ out' = pos
           /\ writing' = Advance(rest)
    /\ UNCHANGED <<call, outcome, pc, sizing, size, cache, kept, free>>

WriteDone ==
    /\ pc = "writing"
    /\ AtEnd(Top(writing))
    /\ Len(writing) = 1
    /\ call.sink = "presized" => out = Window
    /\ writing' = <<>>
    /\ pc' = "returning"
    /\ UNCHANGED <<call, outcome, sizing, size, out, cache, kept, free>>

-----------------------------------------------------------------------------
Return ==
    /\ pc = "returning"
    /\ outcome' = [Verdict EXCEPT !.written = out]
    /\ call' = NoCall
    /\ pc' = "idle"
    /\ kept' = IF call.src = "kept" THEN cache ELSE kept
    /\ free' = IF call.src = "pool" THEN Release(free, cache) ELSE free
    /\ cache' = NewCache
    /\ size' = 0 /\ out' = 0
    /\ UNCHANGED <<sizing, writing>>

SizePass == SizeLeaf \/ SizeOpen \/ SizeClose \/ SizeDone
WritePass ==
    \/ WriteLeaf \/ WriteOpen \/ WriteOpenGroup \/ WriteClose
    \/ WriteDone
Run == SizePass \/ CheckSize \/ WritePass \/ Return

Next ==
    \/ \E c \in Calls : BeginCall(c)
    \/ PoolAcquire \/ PoolRelease
    \/ Run

\* A call runs on the caller's thread and never waits: it keeps stepping.
Spec == Init /\ [][Next]_vars /\ WF_vars(Run)

-----------------------------------------------------------------------------
(***************************************************************************)
(* Properties.                                                             *)
(***************************************************************************)
\* Every cache stays readable: each reserved slot holds a number, the spill
\* holds exactly the slots past the array and the cursor has not passed the
\* last slot, whatever mix of calls, errors and pool reuse the cache has been
\* through.  This is what the `assume_init` in consume_next relies on and what
\* reserve's debug_assert states.
CachesWellFormed == WellFormed(cache) /\ WellFormed(kept)

\* No step of an encode panics: set finds its slot, consume_next never runs
\* past the slots and never reads one that was not written, no byte goes past
\* a pre-sized window, and the window is full when the write pass ends
\* (`overrun`, `not_reserved`, `spill_desync`, `pre_sized_overflow` and
\* debug_assert_two_pass are unreachable).
NoPanic ==
    /\ pc = "sizing" /\ AtEnd(Top(sizing)) /\ Top(sizing).slot # NoSlot
          => CanSet(cache, Top(sizing).slot)
    /\ pc = "writing" =>
          LET fr == Top(writing) IN
          IF ~ AtEnd(fr)
            THEN /\ Cur(fr).kind = "leaf" => Fits(out + Cur(fr).n)
                 /\ Cur(fr).kind = "group" => Fits(out + Cur(fr).tl)
                 /\ Cur(fr).kind \in SlotKinds =>
                       /\ CanRead
                       /\ Fits(out + OpeningLen(Cur(fr), ConsumedValue(cache)))
            ELSE IF Len(writing) > 1
              THEN Fits(out + ClosingLen(Cur(Top(Pop(writing)))))
              ELSE call.sink = "presized" => out = Window

\* Every length prefix on the wire is the length of the body behind it: the
\* slot a nested message reads is the one its own size pass filled, so its
\* body never outgrows the announced length and ends exactly there.
PrefixExact ==
    \A k \in 1 .. Len(writing) :
        LET fr == writing[k] IN
        fr.decl # NoSlot =>
            /\ out - fr.start <= fr.decl
            /\ k = Len(writing) /\ AtEnd(fr) => out - fr.start = fr.decl

\* When the bytes are out, the write pass has read back every slot the size
\* pass reserved, no more and no less.
AllSlotsConsumed ==
    pc = "returning" /\ call.op \notin {"len", "raw"} /\ Verdict.status = "ok"
        => cache.cursor = cache.len

\* The free list respects both limits of the pool and holds only buffers worth
\* keeping, and nothing of an earlier message survives in them.
PoolBounded ==
    /\ Len(free) <= MaxBuffers
    /\ \A k \in 1 .. Len(free) :
          /\ free[k].data = <<>>
          /\ free[k].cap \in 1 .. MaxCapacity

\* The two passes implement the entry points' contract, and every call
\* returns.
Api == INSTANCE EncodeApi
ImplementsApi == Api!ApiSpec

-----------------------------------------------------------------------------
(***************************************************************************)
(* The inductive invariant: where each pass stands in the reference        *)
(* functions of MessageTree.                                               *)
(***************************************************************************)
\* Which parts of the state a phase uses.
Phases ==
    /\ pc = "idle" <=> call = NoCall
    /\ pc = "sizing" <=> sizing # <<>>
    /\ pc = "writing" <=> writing # <<>>
    /\ pc \in {"sizing", "sized"} => out = 0

\* Frame fr stands in its message and `inner` is the activation it called.
InMessage(fr) == fr.i \in 1 .. Len(Fields[fr.msg]) + 1

Invokes(fr, inner) ==
    /\ fr.i \in 1 .. Len(Fields[fr.msg])
    /\ Cur(fr).kind \in NestedKinds
    /\ inner.msg = Cur(fr).of
    /\ inner.base = fr.base + SlotsUpTo[fr.msg][fr.i - 1] + OwnSlot(Cur(fr))

\* The slots that hold the lengths of the first n nested messages of m, when
\* those of m begin at base.
Filled(c, base, m, n) ==
    \A s \in 1 .. n :
        SlotValue(c, base + s - 1) = SaturateSize(TrueLen(Pre[m][s]))

\* The first slot that belongs to an activation: its own, if it has one.
FirstSlot(fr) == IF fr.slot = NoSlot THEN fr.base ELSE fr.slot

\* The size pass: the slots reserved and the bytes counted are those of the
\* fields passed so far, and every finished slot holds its message's length.
SizeInv ==
    pc = "sizing" =>
      /\ sizing[1].msg = call.root
      /\ call.op # "raw" => sizing[1].base = 0 /\ cache.cursor = 0
      /\ \A k \in 1 .. Len(sizing) :
            LET fr == sizing[k] IN
            /\ InMessage(fr)
            /\ SaturateSize(fr.acc) = SaturateSize(LenUpTo[fr.msg][fr.i - 1])
            /\ fr.base + SlotsUpTo[fr.msg][fr.i - 1] <= cache.len
            /\ Filled(cache, fr.base, fr.msg, SlotsUpTo[fr.msg][fr.i - 1])
            /\ fr.slot # NoSlot => fr.slot = fr.base - 1 /\ fr.slot < cache.len
      /\ \A k \in 1 .. Len(sizing) - 1 :
            /\ Invokes(sizing[k], sizing[k + 1])
            /\ sizing[k + 1].slot # NoSlot <=> NeedsSlot(Cur(sizing[k]))
      /\ \A j, k \in 1 .. Len(sizing) : j < k =>
            sizing[j].base + SlotsUpTo[sizing[j].msg][sizing[j].i - 1]
                <= FirstSlot(sizing[k])
      /\ cache.len = Top(sizing).base
                       + SlotsUpTo[Top(sizing).msg][Top(sizing).i - 1]

\* Between the passes and afterwards.
SizedInv ==
    pc \in {"sized", "writing", "returning"} =>
      /\ size = SaturateSize(TrueLen(call.root))
      /\ call.op # "raw" =>
            /\ cache.len = Slots(call.root)
            /\ Filled(cache, 0, call.root, Slots(call.root))
      /\ call.op # "raw" /\ pc = "sized" => cache.cursor = 0

\* Where the sink stands when the body of the call's message begins.
BodyStart == IF call.op = "delimited" THEN VarintLen(size) ELSE 0

\* Frame fr stands in its message, its nested messages are a stretch of the
\* root's, its announced length is exact and its body lies between from and to.
WithinRoot(fr, root, from, to) ==
    /\ InMessage(fr)
    /\ fr.base + Slots(fr.msg) <= Slots(root)
    /\ \A s \in 1 .. Slots(fr.msg) : Pre[root][fr.base + s] = Pre[fr.msg][s]
    /\ fr.decl # NoSlot => fr.decl = TrueLen(fr.msg)
    /\ from <= fr.start
    /\ fr.start + TrueLen(fr.msg) <= to

\* Activation fr called inner, whose body begins behind its opening bytes.
Encloses(fr, inner) ==
    /\ Invokes(fr, inner)
    /\ inner.start = fr.start + LenUpTo[fr.msg][fr.i - 1]
                       + OpeningLen(Cur(fr), TrueLen(inner.msg))

EndOf(fr) == fr.start + TrueLen(fr.msg)

\* The write pass: the slots read and the bytes written are those of the fields
\* passed so far, and what is still to come of a frame ends within every frame
\* around it.
WriteInv ==
    pc = "writing" =>
      /\ call.op \notin {"len", "raw"}
      /\ Verdict.status = "ok"
      /\ writing[1].msg = call.root
      /\ writing[1].start = BodyStart /\ writing[1].base = 0
      /\ \A k \in 1 .. Len(writing) :
            WithinRoot(writing[k], call.root, BodyStart, BodyStart + size)
      /\ \A k \in 1 .. Len(writing) - 1 : Encloses(writing[k], writing[k + 1])
      /\ \A j, k \in 1 .. Len(writing) :
            j < k => EndOf(writing[k]) <= EndOf(writing[j])
      /\ cache.cursor = Top(writing).base
                          + SlotsUpTo[Top(writing).msg][Top(writing).i - 1]
      /\ out = Top(writing).start + LenUpTo[Top(writing).msg][Top(writing).i - 1]

\* What a finished call has written.
ReturnInv ==
    pc = "returning" =>
      IF Verdict.status = "ok" /\ call.op \notin {"len", "raw"}
        THEN out = Window /\ cache.cursor = cache.len
        ELSE out = 0

IInv ==
    /\ TypeOK /\ Phases
    /\ CachesWellFormed /\ PoolBounded
    /\ SizeInv /\ SizedInv /\ WriteInv /\ ReturnInv
=============================================================================
