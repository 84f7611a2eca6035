---------------------------- MODULE VarintPaths ----------------------------
(***************************************************************************)
(* The ways the library reads a run of varints out of a buffer that may be *)
(* split into chunks: decode_varint (one byte inline, else the unrolled    *)
(* slice decoder or the byte-at-a-time fallback, whichever the current     *)
(* chunk allows), its packed twin, the bulk loop over a packed payload     *)
(* (one chunk), and read_varint over an io::Read.  All must return what    *)
(* Varint!ReadVarint says.                                                 *)
(***************************************************************************)
EXTENDS Varint, FiniteSets

CONSTANT MaxInput   \* bound: bytes in the buffer

ASSUME InputAssumption == MaxInput \in Nat

VARIABLES
    bytes,  \* the buffer
    cuts,   \* where its chunks end
    mode,   \* which reader
    pos,    \* the next byte
    slow,   \* groups read so far by the byte-at-a-time loop, or idle
    vals,   \* values returned so far
    err     \* the error that ended the run, "ok" so far

vars == <<bytes, cuts, mode, pos, slow, vals, err>>

Modes == {"buf", "reader"}
Idle == [on |-> FALSE, k |-> 0, v |-> 0]

\* Bytes out of a reader have no chunks.
Init ==
    /\ bytes \in UNION {[1 .. n -> ByteValues] : n \in 0 .. MaxInput}
    /\ mode \in Modes
    /\ cuts \in IF mode = "buf" THEN SUBSET (1 .. Len(bytes) - 1) ELSE {{}}
    /\ pos = 1 /\ slow = Idle /\ vals = <<>> /\ err = "ok"

\* The last byte of the chunk that holds byte p.
ChunkEnd(p) ==
    LET ends == {c \in cuts \cup {Len(bytes)} : c >= p}
    IN  CHOOSE c \in ends : \A e \in ends : c <= e

Done == err # "ok" \/ (pos > Len(bytes) /\ ~ slow.on)

Returns(v, next) ==
    /\ vals' = Append(vals, v)
    /\ pos' = next
    /\ slow' = Idle
    /\ UNCHANGED <<bytes, cuts, mode, err>>

Fails(e) ==
    /\ err' = e
    /\ slow' = Idle
    /\ UNCHANGED <<bytes, cuts, mode, pos, vals>>

\* The first byte of the chunk ends the varint.
OneByte ==
    /\ ~ Done /\ ~ slow.on /\ mode # "reader"
    /\ bytes[pos] < Group
    /\ Returns(bytes[pos], pos + 1)

\* Mutant: a chunk as long as the longest varint is taken to hold one.
SliceUsableShort(p) ==
    LET last == ChunkEnd(p) IN
    last - p + 1 > 1 \/ bytes[last] < Group

\* The precondition of the unrolled decoder.  decode_varint and its packed twin
\* test it on the current chunk; the bulk loop has tested it once, on the last
\* byte of the payload, and falls back to the packed twin when it fails.
SliceUsable(p) ==
    LET last == ChunkEnd(p) IN
    last - p + 1 > MaxVarintBytes \/ bytes[last] < Group

\* How many bytes the unrolled decoder looks at: it tests nothing but the
\* continuation bits, up to the last byte a varint may have.
SliceReads(p) ==
    LET stop == {n \in 1 .. MaxVarintBytes :
                    n = MaxVarintBytes \/ bytes[p + n - 1] < Group}
    IN  CHOOSE n \in stop : \A k \in stop : n <= k

ToSlice ==
    /\ ~ Done /\ ~ slow.on /\ mode # "reader"
    /\ bytes[pos] >= Group
    /\ SliceUsable(pos)

SliceDecode ==
    /\ ToSlice
    /\ LET n == SliceReads(pos) IN
        IF n = MaxVarintBytes /\ bytes[pos + n - 1] >= 2
          THEN Fails("varint_too_long")
          ELSE Returns(GroupSum(bytes, pos, n), pos + n)

\* The chunk may end inside the varint: byte at a time, over the chunk ends.
EnterSlow ==
    /\ ~ Done /\ ~ slow.on
    /\ mode = "reader" \/ (bytes[pos] >= Group /\ ~ SliceUsable(pos))
    /\ slow' = [Idle EXCEPT !.on = TRUE]
    /\ UNCHANGED <<bytes, cuts, mode, pos, vals, err>>

\* Mutant: the last byte may carry a whole group.
LastByteTooLongLax(b) == b >= Group

\* In the last byte only the lowest bit may be set.
LastByteTooLong(b) == b > 1

AtLastByte(k) == k = MaxVarintBytes - 1

SlowByte ==
    /\ slow.on
    /\ IF pos > Len(bytes) THEN Fails("eof")
       ELSE LET b == bytes[pos]
                v == slow.v + (b % Group) * Weight[slow.k]
            IN  CASE AtLastByte(slow.k) ->
                        IF LastByteTooLong(b) THEN Fails("varint_too_long")
                        ELSE Returns(v, pos + 1)
                  [] ~ AtLastByte(slow.k) /\ b < Group ->
                        Returns(v, pos + 1)
                  [] OTHER ->
                        /\ slow' = [on |-> TRUE, k |-> slow.k + 1, v |-> v]
                        /\ pos' = pos + 1
                        /\ UNCHANGED <<bytes, cuts, mode, vals, err>>

Finished == Done /\ UNCHANGED vars

Next == OneByte \/ SliceDecode \/ EnterSlow \/ SlowByte \/ Finished

Spec == Init /\ [][Next]_vars

-----------------------------------------------------------------------------
\* The unrolled decoder indexes without checks of its own: whenever it runs,
\* every byte it looks at is in the current chunk (its two assertions are the
\* dispatch's promise).
SliceInBounds ==
    ToSlice =>
        \E n \in 1 .. ChunkEnd(pos) - pos + 1 :
            n = MaxVarintBytes \/ bytes[pos + n - 1] < Group

\* Plain varints read one after the other: what there is after each round, until
\* the buffer or an error ends it.  A varint has a byte at least.
PlainRounds ==
    LET run[n \in Nat] ==
          IF n = 0 THEN [err |-> "ok", vals |-> <<>>, next |-> 1]
          ELSE LET before == run[n - 1]
                   r == ReadVarint(bytes, before.next, Len(bytes))
               IN  IF before.err # "ok" \/ before.next > Len(bytes) THEN before
                   ELSE IF r.err # "ok" THEN [before EXCEPT !.err = r.err]
                   ELSE [err |-> "ok", vals |-> Append(before.vals, r.v),
                         next |-> r.next]
    IN  run

PlainRun == PlainRounds[Len(bytes)]

\* Whatever the chunks and whichever reader, the values returned and the error
\* are those of plain varints: the dispatch on the current chunk is invisible,
\* and a value that straddles chunks is neither lost, split nor read twice.
PathsAgree == Done => vals = PlainRun.vals /\ err = PlainRun.err

\* The closed form of varint_len is the number of 7-bit groups, for every
\* highest bit of a u64.
ASSUME VarintLenFormula ==
    \A log2 \in 0 .. 63 : VarintLenOfTopBit(log2) = log2 \div 7 + 1
=============================================================================
