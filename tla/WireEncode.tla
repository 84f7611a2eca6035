----------------------------- MODULE WireEncode -----------------------------
(***************************************************************************)
(* Both passes of an encode, for the message values of WireDecode: the     *)
(* bytes write_to puts out and the length compute_size announces for them. *)
(* Each is a function of the message; how the size pass hands its results  *)
(* to the write pass is the business of TwoPassEncode.                     *)
(***************************************************************************)
EXTENDS WireDecode, SequencesExt

TagOf(num, wt) == EncodeVarint(num * 8 + wt)
TagLen(num) == Len(TagOf(num, VarintWire))
VarintLen(v) == Len(EncodeVarint(v))

\* encode_int32 and int32_encoded_len: a negative number takes the whole width.
EncodeInt(v) == EncodeVarint(SignExtend(v))
IntLen(v) == VarintLen(SignExtend(v))

\* A length and the bytes it announces.
Prefixed(bytes) == EncodeVarint(Len(bytes)) \o bytes
PrefixedLen(n) == VarintLen(n) + n

SumLen(len(_), s) == FoldLeft(LAMBDA sum, x : sum + len(x), 0, s)
Cat(write(_), s) == FoldLeft(LAMBDA out, x : out \o write(x), <<>>, s)

\* The order both passes take: ascending field numbers, the oneof at the place
\* of its lowest member; map entries in the map's own order.
Ascending(S) == SetToSortSeq(S, <)
OneofMembers(t) ==
    {n \in DOMAIN Schema[t] : Schema[t][n].kind \in {"oint", "omsg"}}
LeadsOneof(t, n) == \A m \in OneofMembers(t) : n <= m

RECURSIVE WriteUnknowns(_), SizeUnknowns(_), WriteTo(_, _), ComputeSize(_, _)

-----------------------------------------------------------------------------
\* UnknownField::write_to and UnknownFields::write_to.
WriteUnknown(u) ==
    TagOf(u.num, u.wt) \o
      CASE u.wt = VarintWire     -> EncodeVarint(u.v)
        [] u.wt = LenWire        -> Prefixed(u.bytes)
        [] u.wt = StartGroupWire ->
              WriteUnknowns(u.group) \o TagOf(u.num, EndGroupWire)
        [] OTHER                 -> u.bytes
WriteUnknowns(unknowns) == Cat(WriteUnknown, unknowns)

SizeUnknown(u) ==
    TagLen(u.num) +
      CASE u.wt = VarintWire     -> VarintLen(u.v)
        [] u.wt = LenWire        -> PrefixedLen(Len(u.bytes))
        [] u.wt = StartGroupWire -> SizeUnknowns(u.group) + TagLen(u.num)
        [] OTHER                 -> Len(u.bytes)
SizeUnknowns(unknowns) == SumLen(SizeUnknown, unknowns)

-----------------------------------------------------------------------------
\* Singular fields with implicit presence: nothing for the default.
WriteScalar(n, v) ==
    IF v = 0 THEN <<>> ELSE TagOf(n, VarintWire) \o EncodeInt(v)
SizeScalar(n, v) == IF v = 0 THEN 0 ELSE TagLen(n) + IntLen(v)

\* Packed ints and enums: nothing when empty, else one record.
WritePacked(n, vals) ==
    IF vals = <<>> THEN <<>>
    ELSE TagOf(n, LenWire) \o Prefixed(Cat(EncodeInt, vals))
SizePacked(n, vals) ==
    IF vals = <<>> THEN 0 ELSE TagLen(n) + PrefixedLen(SumLen(IntLen, vals))

WriteBytes(n, b) ==
    IF b = <<>> THEN <<>> ELSE TagOf(n, LenWire) \o Prefixed(b)
SizeBytes(n, b) == IF b = <<>> THEN 0 ELSE TagLen(n) + PrefixedLen(Len(b))

WriteRepeatedBytes(n, bs) ==
    LET write(b) == TagOf(n, LenWire) \o Prefixed(b) IN Cat(write, bs)
SizeRepeatedBytes(n, bs) ==
    LET size(b) == TagLen(n) + PrefixedLen(Len(b)) IN SumLen(size, bs)

\* A message field, singular or repeated: a record per message.
WriteMsgs(n, t, msgs) ==
    LET write(m) == TagOf(n, LenWire) \o Prefixed(WriteTo(t, m))
    IN  Cat(write, msgs)
SizeMsgs(n, t, msgs) ==
    LET size(m) == TagLen(n) + PrefixedLen(ComputeSize(t, m))
    IN  SumLen(size, msgs)

WriteGroups(n, t, msgs) ==
    LET write(m) == TagOf(n, StartGroupWire) \o WriteTo(t, m)
                      \o TagOf(n, EndGroupWire)
    IN  Cat(write, msgs)
SizeGroups(n, t, msgs) ==
    LET size(m) == 2 * TagLen(n) + ComputeSize(t, m) IN SumLen(size, msgs)

\* Mutant: a oneof member that holds its type's default is left out.
WriteOneofImplicit(t, member) ==
    IF member = <<>> THEN <<>>
    ELSE LET f == Schema[t][member[1]] IN
         IF f.kind = "oint" THEN WriteScalar(member[1], member[2])
         ELSE WriteMsgs(member[1], f.of, <<member[2]>>)

\* A oneof writes the member that is set, its default value too.
WriteOneof(t, member) ==
    IF member = <<>> THEN <<>>
    ELSE LET f == Schema[t][member[1]] IN
         IF f.kind = "oint"
           THEN TagOf(member[1], VarintWire) \o EncodeInt(member[2])
           ELSE WriteMsgs(member[1], f.of, <<member[2]>>)
SizeOneof(t, member) ==
    IF member = <<>> THEN 0
    ELSE LET f == Schema[t][member[1]] IN
         IF f.kind = "oint" THEN TagLen(member[1]) + IntLen(member[2])
         ELSE SizeMsgs(member[1], f.of, <<member[2]>>)

\* A map is a record per entry, key and value both written out.
WriteMap(n, f, map) ==
    LET value(k) ==
          IF f.kind = "menum" THEN TagOf(2, VarintWire) \o EncodeInt(map[k])
          ELSE WriteMsgs(2, f.of, <<map[k]>>)
        write(k) == TagOf(n, LenWire) \o Prefixed(TagOf(1, VarintWire)
                        \o EncodeInt(k) \o value(k))
    IN  Cat(write, Ascending(DOMAIN map))
SizeMap(n, f, map) ==
    LET value(k) ==
          IF f.kind = "menum" THEN TagLen(2) + IntLen(map[k])
          ELSE SizeMsgs(2, f.of, <<map[k]>>)
        size(k) == TagLen(n) + PrefixedLen(TagLen(1) + IntLen(k) + value(k))
    IN  SumLen(size, Ascending(DOMAIN map))

-----------------------------------------------------------------------------
\* write_to: the fields in order, then the unknown ones.
WriteTo(t, msg) ==
    LET field(n) ==
          LET f == Schema[t][n]
              x == msg.fields[n]
          IN  CASE f.kind \in {"int", "enum"}     -> WriteScalar(n, x)
                [] f.kind \in {"rint", "renum"}   -> WritePacked(n, x)
                [] f.kind = "bytes"               -> WriteBytes(n, x)
                [] f.kind = "rbytes"              -> WriteRepeatedBytes(n, x)
                [] f.kind \in {"msg", "rmsg"}     -> WriteMsgs(n, f.of, x)
                [] f.kind \in {"group", "rgroup"} -> WriteGroups(n, f.of, x)
                [] f.kind \in MapKinds            -> WriteMap(n, f, x)
                [] LeadsOneof(t, n)               -> WriteOneof(t, msg.oneof)
                [] OTHER                          -> <<>>
    IN  Cat(field, Ascending(DOMAIN Schema[t])) \o WriteUnknowns(msg.unk)

\* compute_size, before it saturates.
ComputeSize(t, msg) ==
    LET field(n) ==
          LET f == Schema[t][n]
              x == msg.fields[n]
          IN  CASE f.kind \in {"int", "enum"}     -> SizeScalar(n, x)
                [] f.kind \in {"rint", "renum"}   -> SizePacked(n, x)
                [] f.kind = "bytes"               -> SizeBytes(n, x)
                [] f.kind = "rbytes"              -> SizeRepeatedBytes(n, x)
                [] f.kind \in {"msg", "rmsg"}     -> SizeMsgs(n, f.of, x)
                [] f.kind \in {"group", "rgroup"} -> SizeGroups(n, f.of, x)
                [] f.kind \in MapKinds            -> SizeMap(n, f, x)
                [] LeadsOneof(t, n)               -> SizeOneof(t, msg.oneof)
                [] OTHER                          -> 0
    IN  SumLen(field, Ascending(DOMAIN Schema[t])) + SizeUnknowns(msg.unk)
=============================================================================
