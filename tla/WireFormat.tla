----------------------------- MODULE WireFormat -----------------------------
(***************************************************************************)
(* The wire format below the level of messages: tags, the payloads that    *)
(* have no structure, and the message types a decoder is given.  A read    *)
(* takes the buffer, a position and the last byte that may be read, and    *)
(* returns the position behind what it read (see Varint!ReadOk).           *)
(***************************************************************************)
EXTENDS Varint, FiniteSets

CONSTANTS
    MaxMessage,     \* MAX_MESSAGE_BYTES
    IntMod,         \* 2^32: what a tag, an int32 or an enum can tell apart
    Fixed32Len,     \* 4
    Fixed64Len      \* 8

ASSUME FormatAssumption ==
    /\ MaxMessage \in Nat
    /\ IntMod \in Nat \ {0}
    /\ Fixed32Len \in Nat \ {0} /\ Fixed64Len \in Nat \ {0}

VarintWire == 0
Fixed64Wire == 1
LenWire == 2
StartGroupWire == 3
EndGroupWire == 4
Fixed32Wire == 5

\* A tag as read: its field number and wire type, the error if there was one.
TagErr(e) == [err |-> e, num |-> 0, wt |-> 0, next |-> 0]

\* Tag::decode and from_raw_u32: the wire type is judged before the number.
ReadTag(d, p, bound) ==
    LET r == ReadVarint(d, p, bound) IN
    CASE r.err # "ok"       -> TagErr(r.err)
      [] r.v >= IntMod    -> TagErr("field_number")
      [] r.v % 8 > Fixed32Wire -> TagErr("wire_type")
      [] r.v \div 8 = 0   -> TagErr("field_number")
      [] OTHER -> [err |-> "ok", num |-> r.v \div 8, wt |-> r.v % 8,
                   next |-> r.next]

\* Mutant: the length is not held against the bytes there are.
ReadSpanUnchecked(d, p, bound, max) ==
    LET r == ReadVarint(d, p, bound) IN
    IF r.err # "ok" THEN r
    ELSE IF r.v > max THEN ReadErr("too_large")
    ELSE r

\* A length, checked against `max` and against the bytes left: v is the length
\* and next the first byte of the payload.
ReadSpan(d, p, bound, max) ==
    LET r == ReadVarint(d, p, bound) IN
    IF r.err # "ok" THEN r
    ELSE IF r.v > max THEN ReadErr("too_large")
    ELSE IF bound - r.next + 1 < r.v THEN ReadErr("eof")
    ELSE r

\* A payload of n bytes.
ReadFixed(p, bound, n) ==
    IF bound - p + 1 < n THEN ReadErr("eof") ELSE ReadOk(0, p + n)

U64Mod == 2 * Weight[MaxVarintBytes - 1]
NoLimit == U64Mod

\* `raw as u64` of the i32 with the low bits `raw`: negative ones extend.
SignExtend(raw) == IF 2 * raw >= IntMod THEN raw + U64Mod - IntMod ELSE raw

\* Over a payload without fields of its own (skip_field_depth, and what
\* decode_unknown_field reads): where it ends, and what a varint held.
ReadFlat(d, p, bound, wt) ==
    CASE wt = VarintWire  -> ReadVarint(d, p, bound)
      [] wt = Fixed64Wire -> ReadFixed(p, bound, Fixed64Len)
      [] wt = Fixed32Wire -> ReadFixed(p, bound, Fixed32Len)
      [] wt = LenWire     ->
            LET r == ReadSpan(d, p, bound, NoLimit) IN
            IF r.err # "ok" THEN r ELSE ReadOk(r.v, r.next + r.v)
      [] OTHER            -> ReadErr("wire_type")

Slice(d, from, to) == SubSeq(d, from, to)

\* A packed payload: the int32s between from and to, and the error that ended
\* them if one did.  run[n] is the loop after n rounds.
PackedInts(d, from, to) ==
    LET run[n \in Nat] ==
          IF n = 0 THEN [err |-> "ok", vals |-> <<>>, next |-> from]
          ELSE LET before == run[n - 1]
                   r == ReadVarint(d, before.next, to)
               IN  IF before.err # "ok" \/ before.next > to THEN before
                   ELSE IF r.err # "ok" THEN [before EXCEPT !.err = r.err]
                   ELSE [err |-> "ok", vals |-> Append(before.vals, r.v % IntMod),
                         next |-> r.next]
    IN  run[to - from + 1]
=============================================================================
