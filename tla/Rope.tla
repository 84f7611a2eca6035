-------------------------------- MODULE Rope --------------------------------
(***************************************************************************)
(* The segmented sink of an encode and the Buf that is made of it.  Small  *)
(* writes collect in `tail`; a payload that is worth it becomes a segment  *)
(* of its own, shared with the message or with the buffer the message was  *)
(* decoded from, and then the tail must go out before it.  The bytes are   *)
(* numbered in the order they are written, so the content of the rope must *)
(* be the numbers that were not read yet.                                  *)
(***************************************************************************)
EXTENDS Naturals, Sequences, SequencesExt

CONSTANTS
    MinSegments,    \* the values with_min_segment is called with
    Lengths,        \* lengths of the payloads that are written
    FixedLengths,   \* what put_u8, put_u32_le and put_u64_le write
    MaxBytes        \* bound: bytes written

ASSUME RopeAssumption ==
    /\ MinSegments \subseteq Nat /\ Lengths \subseteq Nat
    /\ FixedLengths \subseteq Nat \ {0} /\ MaxBytes \in Nat

VARIABLES
    minSegment, backed,     \* min_segment; whether there is a backing buffer
    segments, tail,
    reading,                \* the rope was turned into a RopeBuf
    pos, remaining,         \* RopeBuf: the first segment left (pos + 1 in the
                            \* code's counting), and the bytes
    written, read,          \* bytes put in and taken out so far
    copied                  \* what copy_to_bytes returned last

ropeVars ==
    <<minSegment, backed, segments, tail, reading, pos, remaining, written, read,
      copied>>

\* The numbers after a, up to b.
Run(a, b) == [i \in 1 .. b - a |-> a + i]

\* Where each segment of s ends: the bytes of the first k of them.
Ends(s) ==
    LET end[k \in 0 .. Len(s)] == IF k = 0 THEN 0 ELSE end[k - 1] + Len(s[k])
    IN  end

SumLen(s) == Ends(s)[Len(s)]

\* The segments that RopeBuf has not read, all of them before.
Left == SubSeq(segments, pos, Len(segments))
Content == FlattenSeq(Left) \o tail

-----------------------------------------------------------------------------
(***************************************************************************)
(* Rope, an EncodeSink.                                                    *)
(***************************************************************************)
\* with_min_segment: at least one byte.
Clamped(n) == IF n = 0 THEN 1 ELSE n

RopeInit ==
    /\ \E n \in MinSegments : minSegment = Clamped(n)
    /\ backed \in BOOLEAN
    /\ segments = <<>> /\ tail = <<>>
    /\ reading = FALSE
    /\ pos = 1 /\ remaining = 0
    /\ written = 0 /\ read = 0
    /\ copied = <<>>

FlushTail == IF tail = <<>> THEN segments ELSE Append(segments, tail)

\* The bytes go to the end of the tail.
Collect(n) ==
    /\ tail' = tail \o Run(written, written + n)
    /\ UNCHANGED segments

\* Mutant: the tail stays behind the new segment.
SpliceUnflushed(n) ==
    /\ segments' = Append(segments, Run(written, written + n))
    /\ UNCHANGED tail

\* The bytes become a segment by reference, the tail one before it.
Splice(n) ==
    /\ segments' = Append(FlushTail, Run(written, written + n))
    /\ tail' = <<>>

Writes(n) ==
    /\ ~ reading
    /\ written + n <= MaxBytes
    /\ written' = written + n
    /\ UNCHANGED <<minSegment, backed, reading, pos, remaining, read, copied>>

PutFixed(n) == Writes(n) /\ Collect(n)

\* within: the slice lies in the backing buffer.
PutSlice(n, within) ==
    /\ Writes(n)
    /\ within => backed
    /\ IF n >= minSegment /\ within THEN Splice(n) ELSE Collect(n)

PutShared(n) ==
    /\ Writes(n)
    /\ IF n >= minSegment THEN Splice(n) ELSE Collect(n)

-----------------------------------------------------------------------------
(***************************************************************************)
(* RopeBuf, a Buf.                                                         *)
(***************************************************************************)
IntoBuf ==
    /\ ~ reading
    /\ reading' = TRUE
    /\ segments' = FlushTail
    /\ tail' = <<>>
    /\ remaining' = SumLen(FlushTail)
    /\ UNCHANGED <<minSegment, backed, pos, written, read, copied>>

Chunk == IF pos > Len(segments) THEN <<>> ELSE segments[pos]

\* The loop of advance: whole segments are dropped, then a part of the next.
Dropped(cnt) ==
    CHOOSE k \in 0 .. Len(Left) :
        /\ Ends(Left)[k] <= cnt
        /\ \A j \in k + 1 .. Len(Left) : Ends(Left)[j] > cnt

AdvanceBy(cnt) ==
    LET k == Dropped(cnt)
        part == cnt - Ends(Left)[k]
    IN  /\ pos' = pos + k
        /\ segments' = [i \in 1 .. Len(segments) |->
                           IF i < pos + k THEN <<>>
                           ELSE IF i = pos + k
                             THEN SubSeq(segments[i], part + 1, Len(segments[i]))
                           ELSE segments[i]]

Reads(n) ==
    /\ reading /\ n <= remaining
    /\ remaining' = remaining - n
    /\ read' = read + n
    /\ UNCHANGED <<minSegment, backed, tail, reading, written>>

Advance(n) == Reads(n) /\ AdvanceBy(n) /\ UNCHANGED copied

\* Mutant: a segment that was split to its end stays the front one.
SplitStays(n) ==
    /\ segments' = [segments EXCEPT ![pos] = SubSeq(@, n + 1, Len(@))]
    /\ pos' = pos

\* Within the front segment: split off by reference.
Split(n) ==
    /\ segments' = [segments EXCEPT ![pos] = SubSeq(@, n + 1, Len(@))]
    /\ pos' = IF n = Len(segments[pos]) THEN pos + 1 ELSE pos

\* Across segments: copied piece by piece.
Gathered(n) == SubSeq(Content, 1, n)

CopyToBytes(n) ==
    /\ Reads(n)
    /\ \/ n = 0 /\ copied' = <<>> /\ UNCHANGED <<segments, pos>>
       \/ /\ n > 0 /\ n <= Len(Chunk)
          /\ copied' = SubSeq(Chunk, 1, n)
          /\ Split(n)
       \/ /\ n > Len(Chunk)
          /\ copied' = Gathered(n)
          /\ AdvanceBy(n)

-----------------------------------------------------------------------------
Drained == reading /\ remaining = 0 /\ UNCHANGED ropeVars

RopeNext ==
    \/ \E n \in FixedLengths : PutFixed(n)
    \/ \E n \in Lengths, within \in BOOLEAN : PutSlice(n, within)
    \/ \E n \in Lengths : PutShared(n)
    \/ IntoBuf
    \/ \E n \in 0 .. MaxBytes : Advance(n) \/ CopyToBytes(n)
    \/ Drained

RopeSpec == RopeInit /\ [][RopeNext]_ropeVars

-----------------------------------------------------------------------------
\* The rope holds the bytes that were written and not read yet, each once and in
\* the order they were written, however they were split over shared segments
\* and the tail: what is sent is what a contiguous encode would have sent.
InOrder == Content = Run(read, written)

\* RopeBuf keeps the contract of Buf at every step: the announced remainder is
\* what is left; no segment still to be read is empty, which chunks_vectored
\* asserts and without which chunk would be empty too early and a reader spin or
\* stop short; and copy_to_bytes returns the next bytes, within a segment or
\* across several.
BufContract ==
    [][ /\ reading' => (/\ remaining = SumLen(Left)
                        /\ \A i \in 1 .. Len(Left) : Left[i] # <<>>)'
        /\ copied' # copied => copied' = SubSeq(Content, 1, read' - read)]_ropeVars
=============================================================================
