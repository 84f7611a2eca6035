------------------------------- MODULE Varint -------------------------------
(***************************************************************************)
(* Base-128 varints: the groups of bits a byte carries, the longest        *)
(* encoding, and what reading one must return.  The code's bytes carry 7   *)
(* bits of a 64-bit value, so ten bytes at most, the tenth only one bit.   *)
(***************************************************************************)
EXTENDS Integers, Sequences

CONSTANTS
    Group,          \* 0x80 in the code: the continuation bit
    MaxVarintBytes  \* 10 in the code: the last byte carries one bit

ASSUME VarintAssumption ==
    /\ Group \in Nat /\ Group > 1
    /\ MaxVarintBytes \in Nat /\ MaxVarintBytes > 1

ByteValues == 0 .. 2 * Group - 1

\* What the lowest bit of the group behind n others is worth.
Weight[n \in Nat] == IF n = 0 THEN 1 ELSE Group * Weight[n - 1]

\* What a read returns: the error ("ok" for none), the value and the position of
\* the next byte to read.
ReadOk(v, next) == [err |-> "ok", v |-> v, next |-> next]
ReadErr(e) == [err |-> e, v |-> 0, next |-> 0]

\* The value of the n bytes of d from position p on, lowest group first.
GroupSum(d, p, n) ==
    LET sum[i \in 0 .. n] ==
          IF i = 0 THEN 0
          ELSE sum[i - 1] + (d[p + i - 1] % Group) * Weight[i - 1]
    IN  sum[n]

\* The lengths at which the bytes from p on, none of them past `bound`, stop
\* being a varint: a byte without the continuation bit, or the last one allowed.
Stops(d, p, bound) ==
    {n \in 1 .. MaxVarintBytes :
        /\ p + n - 1 <= bound
        /\ n = MaxVarintBytes \/ d[p + n - 1] < Group}

\* The varint at position p, from the bytes up to `bound`.  Unterminated within
\* the bytes there are: UnexpectedEof; more than one bit in the last byte:
\* VarintTooLong.
ReadVarint(d, p, bound) ==
    IF Stops(d, p, bound) = {} THEN ReadErr("eof")
    ELSE LET n == CHOOSE k \in Stops(d, p, bound) :
                    \A j \in Stops(d, p, bound) : k <= j
         IN  IF n = MaxVarintBytes /\ d[p + n - 1] > 1
               THEN ReadErr("varint_too_long")
               ELSE ReadOk(GroupSum(d, p, n), p + n)

\* encode_varint: groups of bits, lowest first, the continuation bit on all
\* bytes but the last.
EncodeVarint(v) ==
    LET len == CHOOSE n \in 1 .. MaxVarintBytes :
                 /\ v < Weight[n] \/ n = MaxVarintBytes
                 /\ n > 1 => v >= Weight[n - 1]
    IN  [i \in 1 .. len |-> ((v \div Weight[i - 1]) % Group)
                              + (IF i < len THEN Group ELSE 0)]

\* varint_len's closed form for the code's 7-bit groups, from the index of the
\* highest bit set.
VarintLenOfTopBit(log2) == (log2 * 9 + 73) \div 64
=============================================================================
