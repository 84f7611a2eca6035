---------------------------- MODULE MessageTree ----------------------------
(***************************************************************************)
(* The messages an encode walks over, as far as the two passes see them: a *)
(* message is the sequence of the fields that are present, in the order    *)
(* both passes visit them, and a field is either some bytes or a nested    *)
(* message with its framing.  Every scalar, string, bytes, packed or enum  *)
(* field, and the unknown fields kept after the known ones, is a "leaf" of *)
(* a fixed number of bytes; a repeated message field or a map is one field *)
(* per element.                                                            *)
(***************************************************************************)
EXTENDS Integers, Sequences, FiniteSets

CONSTANTS
    Msg,            \* the messages
    Fields,         \* Fields[m]: the present fields of message m
    VarintBase,     \* 128 in the code: one varint byte carries 7 bits
    MaxVarintBytes, \* 10 in the code
    MaxMessage,     \* MAX_MESSAGE_BYTES, 2^31 - 1 in the code
    MaxU32          \* u32::MAX

\* How a nested message is framed:
\*   msg      tag, length, body
\*   group    start tag, body, end tag: no length, hence no slot
\*   map      an entry: tag, entry length, key, value tag, value length, body
\*   mapomit  the same under the omit-defaults option, which drops the value's
\*            tag and length when the value encodes to nothing
SlotKinds == {"msg", "map", "mapomit"}
NestedKinds == SlotKinds \cup {"group"}

\* tl: length of the tag; n: the bytes of a leaf, or of a map entry's key;
\* of: the nested message.
Field ==
    [kind : NestedKinds \cup {"leaf"}, tl : Nat \ {0}, n : Nat, of : Msg]

ASSUME FieldsAssumption == Fields \in [Msg -> Seq(Field)]
ASSUME LimitsAssumption ==
    /\ VarintBase \in Nat /\ VarintBase > 1
    /\ MaxVarintBytes \in Nat /\ MaxVarintBytes > 0
    /\ MaxMessage \in Nat /\ MaxU32 \in Nat
    /\ MaxMessage < MaxU32

\* `varint_len`: one byte, and one more for each power of the base reached.
VarintLen(n) ==
    1 + Cardinality({k \in 1 .. (MaxVarintBytes - 1) : n >= VarintBase ^ k})

\* The length of a map entry around a value of `inner` bytes.
EntryLen(f, inner) ==
    f.n + (IF f.kind = "mapomit" /\ inner = 0
             THEN 0 ELSE 1 + VarintLen(inner) + inner)

\* The bytes a field takes around a nested body of `inner` bytes.
FieldLen(f, inner) ==
    CASE f.kind = "leaf"  -> f.n
      [] f.kind = "msg"   -> f.tl + VarintLen(inner) + inner
      [] f.kind = "group" -> f.tl + inner + f.tl
      [] OTHER            -> f.tl + VarintLen(EntryLen(f, inner))
                                  + EntryLen(f, inner)

\* `saturate_size`: u32::try_from(size).unwrap_or(u32::MAX).
SaturateSize(n) == IF n > MaxU32 THEN MaxU32 ELSE n

-----------------------------------------------------------------------------
(***************************************************************************)
(* The reference: what an encoding of m must measure, without any cache,   *)
(* saturation or traversal order.  LenUpTo[m][i] is the length of the      *)
(* first i fields of m, so the encoding of m has TrueLen(m) bytes.         *)
(* SlotsUpTo[m][i] counts the length-prefixed messages nested in the first *)
(* i fields, at any depth, and Pre[m] lists all of them in the order an    *)
(* encoder meets them.  The equations have exactly one solution when no    *)
(* message contains itself.                                                *)
(***************************************************************************)
CONSTANTS LenUpTo, SlotsUpTo, Pre

TrueLen(m) == LenUpTo[m][Len(Fields[m])]
Slots(m) == SlotsUpTo[m][Len(Fields[m])]
OwnSlot(f) == IF f.kind \in SlotKinds THEN 1 ELSE 0

ASSUME LenUpToAssumption ==
    \A m \in Msg :
          /\ LenUpTo[m] \in [0 .. Len(Fields[m]) -> Nat]
          /\ LenUpTo[m][0] = 0
          /\ \A i \in 1 .. Len(Fields[m]) :
                LenUpTo[m][i] = LenUpTo[m][i - 1]
                      + FieldLen(Fields[m][i], TrueLen(Fields[m][i].of))
          /\ \A i \in 0 .. Len(Fields[m]) : LenUpTo[m][i] <= TrueLen(m)

ASSUME SlotsUpToAssumption ==
    \A m \in Msg :
          /\ SlotsUpTo[m] \in [0 .. Len(Fields[m]) -> Nat]
          /\ SlotsUpTo[m][0] = 0
          /\ \A i \in 1 .. Len(Fields[m]) :
                LET f == Fields[m][i] IN
                SlotsUpTo[m][i] = SlotsUpTo[m][i - 1] + OwnSlot(f)
                      + (IF f.kind \in NestedKinds THEN Slots(f.of) ELSE 0)
          /\ \A i \in 0 .. Len(Fields[m]) : SlotsUpTo[m][i] <= Slots(m)

ASSUME PreAssumption ==
    \A m \in Msg :
          /\ Pre[m] \in Seq(Msg)
          /\ Len(Pre[m]) = Slots(m)
          /\ \A i \in 1 .. Len(Fields[m]) :
                LET f == Fields[m][i]
                    at == SlotsUpTo[m][i - 1] + OwnSlot(f)
                IN  f.kind \in NestedKinds =>
                      /\ f.kind \in SlotKinds => Pre[m][at] = f.of
                      /\ \A s \in 1 .. Slots(f.of) :
                            Pre[m][at + s] = Pre[f.of][s]
=============================================================================
