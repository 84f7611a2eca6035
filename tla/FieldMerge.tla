----------------------------- MODULE FieldMerge -----------------------------
(***************************************************************************)
(* What DynamicMessage does to the fields of one message: it merges        *)
(* records into them, interpreted through a descriptor pool, encodes them, *)
(* measures the encoding, and takes in a value from outside.               *)
(*                                                                         *)
(* In sub-messages the same happens again: MergeNested, EncodeNested and   *)
(* NestedLen stand for the recursive calls of MergeBuf, EncodeMessage and  *)
(* EncodedLen.                                                             *)
(***************************************************************************)
EXTENDS Records, SequencesExt

CONSTANTS
    Schema,             \* Schema[t][n]: the declared field n of type t
    ExtensionRange,     \* ExtensionRange[t]: the numbers t leaves to extensions
    Extensions,         \* Extensions[pool][t][n]: what a pool has registered there
    EnumValues,         \* the numbers the closed enum knows
    IntMod,             \* an int32 keeps a varint modulo this
    UnknownSlots(_), SkipError(_, _), RecordsLen(_),    \* of unknown records
    MergeNested(_, _, _), EncodeNested(_), NestedLen(_),
    DefaultLimits       \* of a decode without options

-----------------------------------------------------------------------------
(***************************************************************************)
(* Values.  The entries of a map are in order and without duplicates, but  *)
(* for the ones a running merge has appended.                              *)
(***************************************************************************)
Num(v) == [shape |-> "int", v |-> v]
Enum(v) == [shape |-> "enum", v |-> v]
Msg(m) == [shape |-> "msg", m |-> m]
List(items) == [shape |-> "list", items |-> items]
Map(sorted, tail) == [shape |-> "map", sorted |-> sorted, tail |-> tail]
Mismatch == [shape |-> "none"]

NewMessage(pool, t) ==
    [pool |-> pool, type |-> t, fields |-> <<>>, unknown |-> <<>>]

Insert(m, n, v) ==
    [m EXCEPT !.fields = [k \in DOMAIN m.fields \cup {n} |->
                             IF k = n THEN v ELSE m.fields[k]]]
Without(m, gone) ==
    [m EXCEPT !.fields = [k \in DOMAIN m.fields \ gone |-> m.fields[k]]]

Normalize(v) ==
    LET keys == {v.tail[i][1] : i \in DOMAIN v.tail}
        last(k) == CHOOSE i \in DOMAIN v.tail :
                      /\ v.tail[i][1] = k
                      /\ \A j \in i + 1 .. Len(v.tail) : v.tail[j][1] # k
    IN  Map([k \in DOMAIN v.sorted \cup keys |->
                IF k \in keys THEN v.tail[last(k)][2] ELSE v.sorted[k]], <<>>)

\* The end of a field loop, whether it failed or not.
Normalized(m) ==
    [m EXCEPT !.fields = [n \in DOMAIN m.fields |->
        IF m.fields[n].shape = "map" THEN Normalize(m.fields[n]) ELSE m.fields[n]]]

-----------------------------------------------------------------------------
(***************************************************************************)
(* Descriptors.  A field has a cardinality (one, list, map), an element    *)
(* (int, enum, msg), the message type `of`, its oneof (0 for none), and    *)
(* whether it is implicit, packed and delimited.                           *)
(***************************************************************************)
Registered(m, n) ==
    /\ n \in ExtensionRange[m.type]
    /\ n \in DOMAIN Extensions[m.pool][m.type]
Resolves(m, n) == n \in DOMAIN Schema[m.type] \/ Registered(m, n)
FieldOf(m, n) ==
    IF n \in DOMAIN Schema[m.type] THEN Schema[m.type][n]
    ELSE Extensions[m.pool][m.type][n]

\* The other members of the oneof of field n.
Siblings(m, n) ==
    {k \in DOMAIN Schema[m.type] \ {n} :
        /\ FieldOf(m, n).oneof # 0
        /\ Schema[m.type][k].oneof = FieldOf(m, n).oneof}
ClearOneofSiblings(m, n) == Without(m, Siblings(m, n))
InsertMember(m, n, v) == Insert(ClearOneofSiblings(m, n), n, v)

ValidSingular(f, v, pool) ==
    /\ v.shape = f.elem
    /\ f.elem = "msg" => v.m.pool = pool /\ v.m.type = f.of
ValidShape(f, v, pool) ==
    CASE f.card = "one"  -> ValidSingular(f, v, pool)
      [] f.card = "list" -> /\ v.shape = "list"
                            /\ \A i \in DOMAIN v.items :
                                  ValidSingular(f, v.items[i], pool)
      [] f.card = "map"  -> /\ v.shape = "map"
                            /\ \A k \in DOMAIN v.sorted :
                                  ValidSingular(f, v.sorted[k], pool)

IsDefault(v) == v.shape \in {"int", "enum"} /\ v.v = 0
IsPresent(f, v) ==
    CASE v.shape = "list" -> v.items # <<>>
      [] v.shape = "map"  -> DOMAIN v.sorted # {}
      [] OTHER            -> ~(f.implicit /\ IsDefault(v))

WireTypeCompatible(f, wt) ==
    CASE f.card = "map"  -> wt = "len"
      [] f.elem = "msg"  -> wt \in {"len", "group"}
      [] f.card = "list" -> wt \in {"len", "varint"}
      [] OTHER           -> wt = "varint"

-----------------------------------------------------------------------------
(***************************************************************************)
(* A decode in progress: d.msg, the budgets d.unk and d.mem, and d.err.    *)
(***************************************************************************)
Fail(d, e) == [d EXCEPT !.err = e]
Spent(d, inner) == [d EXCEPT !.unk = inner.unk, !.mem = inner.mem]

WithUnknown(d, unknown) == [d EXCEPT !.msg = [@ EXCEPT !.unknown = unknown]]

RecordUnknown(d, r, slots) ==
    IF d.unk < slots THEN Fail(d, "unknown_limit")
    ELSE WithUnknown([d EXCEPT !.unk = @ - slots], Append(d.msg.unknown, r))
PushUnknown(d, r, depth) ==
    IF SkipError(r, depth) # "" THEN Fail(d, SkipError(r, depth))
    ELSE RecordUnknown(d, r, UnknownSlots(r))

\* A sub-message m merged with some records.
Descend(d, m, recs, depth) ==
    IF depth = 0 THEN [d EXCEPT !.msg = m, !.err = "recursion"]
    ELSE MergeNested([d EXCEPT !.msg = m], recs, depth - 1)
DescendNew(d, f, recs, depth) ==
    Descend(d, NewMessage(d.msg.pool, f.of), recs, depth)

Put(d, n, v) == [d EXCEPT !.msg = Insert(@, n, v)]
ClearSiblings(d, n) == [d EXCEPT !.msg = ClearOneofSiblings(@, n)]
PutMember(d, n, v) == [d EXCEPT !.msg = InsertMember(@, n, v)]

\* Mutant: the siblings of an enum stay.
MergeEnumBesides(d, n, r) ==
    LET raw == r.v % IntMod IN
    IF raw \in EnumValues THEN Put(d, n, Enum(raw))
    ELSE RecordUnknown(d, V(n, raw), 1)

\* A number the closed enum does not know leaves the oneof as it is.
MergeEnum(d, n, r) ==
    LET raw == r.v % IntMod IN
    IF raw \in EnumValues THEN PutMember(d, n, Enum(raw))
    ELSE RecordUnknown(d, V(n, raw), 1)

\* A message that is there is merged into, and stays if that fails.
MergeInPlace(d, n, r, depth) ==
    LET c     == ClearSiblings(d, n)
        inner == Descend(c, c.msg.fields[n].m, r.body, depth)
    IN  Fail(Put(Spent(c, inner), n, Msg(inner.msg)), inner.err)

\* Mutant: the siblings are gone before the message is decoded.
MergeReplaceEarly(d, n, f, r, depth) ==
    LET c     == ClearSiblings(d, n)
        inner == DescendNew(c, f, r.body, depth)
    IN  IF inner.err # "" THEN Fail(c, inner.err)
        ELSE PutMember(Spent(c, inner), n, Msg(inner.msg))

\* A new message is decoded before the siblings go.
MergeReplace(d, n, f, r, depth) ==
    LET inner == DescendNew(d, f, r.body, depth) IN
    IF inner.err # "" THEN Fail(d, inner.err)
    ELSE PutMember(Spent(d, inner), n, Msg(inner.msg))

MergeSingular(d, n, f, r, depth) ==
    CASE f.elem = "enum" -> MergeEnum(d, n, r)
      [] f.elem = "int"  -> PutMember(d, n, Num(r.v))
      [] f.elem = "msg"  ->
            IF n \in DOMAIN d.msg.fields /\ d.msg.fields[n].shape = "msg"
              THEN MergeInPlace(d, n, r, depth)
              ELSE MergeReplace(d, n, f, r, depth)

-----------------------------------------------------------------------------
(***************************************************************************)
(* Lists.  What is stored under the number and is no list is dropped.      *)
(***************************************************************************)
Items(d, n) ==
    IF n \in DOMAIN d.msg.fields /\ d.msg.fields[n].shape = "list"
      THEN d.msg.fields[n].items ELSE <<>>

\* One number of a list: s.items and s.strays are what came of the ones before.
ScanElement(s, n, f, e) ==
    LET x == IF f.elem = "enum" THEN e.v % IntMod ELSE e.v IN
    IF s.err # "" THEN s
    ELSE IF e.wt # "varint" THEN Fail(s, "eof")
    ELSE IF f.elem = "enum" /\ x \notin EnumValues
      THEN IF s.unk = 0 THEN Fail(s, "unknown_limit")
           ELSE [s EXCEPT !.unk = @ - 1, !.strays = Append(@, V(n, x))]
    ELSE IF s.mem = 0 THEN Fail(s, "element_limit")
    ELSE [s EXCEPT !.mem = @ - 1,
                   !.items = Append(@, IF f.elem = "enum" THEN Enum(x) ELSE Num(x))]
Scan(d, n, f, elements) ==
    LET s[i \in 0 .. Len(elements)] ==
            IF i = 0 THEN [items |-> <<>>, strays |-> <<>>, unk |-> d.unk,
                           mem |-> d.mem, err |-> ""]
            ELSE ScanElement(s[i - 1], n, f, elements[i])
    IN  s[Len(elements)]

\* A list of ints exists as soon as it is named, one of enums with its first.
MergeNumbers(d, n, f, r) ==
    LET s == Scan(d, n, f, IF r.wt = "len" THEN r.body ELSE <<r>>)
        kept == Fail(WithUnknown(Spent(d, s), d.msg.unknown \o s.strays), s.err)
    IN  IF f.elem = "enum" /\ s.items = <<>> THEN kept
        ELSE Put(kept, n, List(Items(d, n) \o s.items))

MergeElement(d, n, f, r, depth) ==
    LET opened == Put(d, n, List(Items(d, n)))
        inner  == DescendNew(d, f, r.body, depth)
    IN  IF inner.err # "" THEN Fail(opened, inner.err)
        ELSE IF inner.mem = 0 THEN Fail(opened, "element_limit")
        ELSE Put([Spent(d, inner) EXCEPT !.mem = @ - 1], n,
                 List(Append(Items(d, n), Msg(inner.msg))))

-----------------------------------------------------------------------------
(***************************************************************************)
(* Maps.  e.val is <<>> before a value was read, and after a number that   *)
(* the closed enum does not know.                                          *)
(***************************************************************************)
EntryValue(e, f, r, depth) ==
    LET raw   == r.v % IntMod
        old   == IF e.val = <<>> THEN NewMessage(e.msg.pool, f.of) ELSE e.val[1].m
        inner == Descend(e, old, r.body, depth)
    IN  IF r.wt # (IF f.elem = "msg" THEN "len" ELSE "varint") THEN Fail(e, "mismatch")
        ELSE CASE f.elem = "int"  -> [e EXCEPT !.val = <<Num(r.v)>>]
               [] f.elem = "enum" ->
                     IF raw \in EnumValues
                       THEN [e EXCEPT !.val = <<Enum(raw)>>, !.stray = FALSE]
                       ELSE [e EXCEPT !.val = <<>>, !.stray = TRUE]
               [] f.elem = "msg"  ->
                     Fail([Spent(e, inner) EXCEPT !.val = <<Msg(inner.msg)>>],
                          inner.err)
EntryField(e, f, r, depth) ==
    IF e.err # "" THEN e
    ELSE IF r.wt = "bad" \/ r.num = 0 THEN Fail(e, "eof")
    ELSE IF r.num = 1
      THEN IF r.wt = "varint" THEN [e EXCEPT !.key = r.v] ELSE Fail(e, "mismatch")
    ELSE IF r.num = 2 THEN EntryValue(e, f, r, depth)
    ELSE Fail(e, SkipError(r, depth))
ReadEntry(d, f, recs, depth) ==
    LET e[i \in 0 .. Len(recs)] ==
            IF i = 0 THEN [msg |-> d.msg, unk |-> d.unk, mem |-> d.mem, err |-> "",
                           key |-> 0, val |-> <<>>, stray |-> FALSE]
            ELSE EntryField(e[i - 1], f, recs[i], depth)
    IN  e[Len(recs)]

DefaultValue(f, pool) ==
    CASE f.elem = "int"  -> Num(0)
      [] f.elem = "enum" -> Enum(0)
      [] f.elem = "msg"  -> Msg(NewMessage(pool, f.of))

\* The entries of a map, with one more; MapKey and Value are charged.
PushEntry(d, n, k, v) ==
    LET map == IF n \in DOMAIN d.msg.fields /\ d.msg.fields[n].shape = "map"
                 THEN d.msg.fields[n] ELSE Map(<<>>, <<>>)
    IN  IF d.mem < 2 THEN Fail(d, "element_limit")
        ELSE Put([d EXCEPT !.mem = @ - 2], n,
                 Map(map.sorted, Append(map.tail, <<k, v>>)))
MergeMap(d, n, f, r, depth) ==
    LET e == ReadEntry(d, f, r.body, depth) IN
    IF e.err # "" THEN Fail(d, e.err)
    ELSE IF e.stray THEN RecordUnknown(d, r, 1)
    ELSE PushEntry(Spent(d, e), n, e.key,
                   IF e.val = <<>> THEN DefaultValue(f, d.msg.pool) ELSE e.val[1])

-----------------------------------------------------------------------------
\* merge_one_field: an unknown number, or a wire type the field does not have,
\* is kept as an unknown field.
MergeKnown(d, n, f, r, depth) ==
    CASE f.card = "one"  -> MergeSingular(d, n, f, r, depth)
      [] f.card = "map"  -> MergeMap(d, n, f, r, depth)
      [] f.card = "list" -> IF f.elem = "msg" THEN MergeElement(d, n, f, r, depth)
                            ELSE MergeNumbers(d, n, f, r)
MergeOneField(d, r, depth) ==
    IF r.wt = "bad" \/ r.num = 0 THEN Fail(d, "eof")
    ELSE IF Resolves(d.msg, r.num) /\ WireTypeCompatible(FieldOf(d.msg, r.num), r.wt)
      THEN MergeKnown(d, r.num, FieldOf(d.msg, r.num), r, depth)
      ELSE PushUnknown(d, r, depth)

\* The loop over the fields of a buffer or of a group.
MergeBuf(d, recs, depth) ==
    LET s[i \in 0 .. Len(recs)] ==
            IF i = 0 THEN d ELSE IF s[i - 1].err # "" THEN s[i - 1]
            ELSE MergeOneField(s[i - 1], recs[i], depth)
    IN  [s[Len(recs)] EXCEPT !.msg = Normalized(@)]

-----------------------------------------------------------------------------
(***************************************************************************)
(* Encoding, and the length it is announced with: two walks over the same  *)
(* fields, which leave out what has not the shape of its field.            *)
(***************************************************************************)
Ascending(S) == SetToSortSeq(S, LAMBDA a, b : a < b)
Total(lens) ==
    LET sum[i \in 0 .. Len(lens)] == IF i = 0 THEN 0 ELSE sum[i - 1] + lens[i]
    IN  sum[Len(lens)]

\* Mutant: a zero is left out where the field has presence, too.
ShouldSkipZero(f, v) == f.card = "one" /\ f.elem # "msg" /\ IsDefault(v)

ShouldSkip(f, v) ==
    f.implicit /\ f.card = "one" /\ f.elem # "msg" /\ IsDefault(v)

EncodeSingular(n, f, v) ==
    IF f.elem # "msg" THEN V(n, v.v)
    ELSE IF f.delimited THEN G(n, EncodeNested(v.m))
    ELSE L(n, EncodeNested(v.m))
EncodeList(n, f, items) ==
    IF items = <<>> THEN <<>>
    ELSE IF f.packed /\ f.elem # "msg"
      THEN <<L(n, [i \in DOMAIN items |-> V(0, items[i].v)])>>
      ELSE [i \in DOMAIN items |-> EncodeSingular(n, f, items[i])]
\* A message in a map is never a group.
EncodeMap(n, f, entries) ==
    LET keys == Ascending(DOMAIN entries)
        value(v) == IF f.elem = "msg" THEN L(2, EncodeNested(v.m)) ELSE V(2, v.v)
    IN  [i \in DOMAIN keys |-> L(n, <<V(1, keys[i]), value(entries[keys[i]])>>)]
EncodeField(n, f, v, pool) ==
    IF ShouldSkip(f, v) \/ ~ValidShape(f, v, pool) THEN <<>>
    ELSE CASE f.card = "one"  -> <<EncodeSingular(n, f, v)>>
           [] f.card = "list" -> EncodeList(n, f, v.items)
           [] f.card = "map"  -> EncodeMap(n, f, v.sorted)

\* A number that does not resolve is left out.
EncodeMessage(m) ==
    LET nums == Ascending({n \in DOMAIN m.fields : Resolves(m, n)}) IN
    FlattenSeq([i \in DOMAIN nums |->
        EncodeField(nums[i], FieldOf(m, nums[i]), m.fields[nums[i]], m.pool)])
      \o m.unknown

\* A number takes a byte, as do a tag and a length.
SingularLen(f, v) == IF f.elem = "msg" THEN 2 + NestedLen(v.m) ELSE 2
FieldLen(f, v, pool) ==
    IF ShouldSkip(f, v) \/ ~ValidShape(f, v, pool) THEN 0
    ELSE CASE f.card = "one"  -> SingularLen(f, v)
           [] f.card = "list" ->
                 IF v.items = <<>> THEN 0
                 ELSE IF f.packed /\ f.elem # "msg" THEN 2 + Len(v.items)
                 ELSE Total([i \in DOMAIN v.items |-> SingularLen(f, v.items[i])])
           [] f.card = "map"  ->
                 LET keys == Ascending(DOMAIN v.sorted)
                 IN  Total([i \in DOMAIN keys |->
                               2 + 2 + SingularLen(f, v.sorted[keys[i]])])
EncodedLen(m) ==
    LET nums == Ascending({n \in DOMAIN m.fields : Resolves(m, n)}) IN
    RecordsLen(m.unknown)
      + Total([i \in DOMAIN nums |->
                  FieldLen(FieldOf(m, nums[i]), m.fields[nums[i]], m.pool)])

-----------------------------------------------------------------------------
(***************************************************************************)
(* Values given to try_set.  A message of the field's type from another    *)
(* pool is encoded there and decoded here.                                 *)
(***************************************************************************)
Fresh(pool, t) ==
    [msg |-> NewMessage(pool, t), unk |-> DefaultLimits.unk,
     mem |-> DefaultLimits.mem, err |-> ""]
Rehome(m, t, pool) ==
    LET d == MergeNested(Fresh(pool, t), EncodeNested(m), DefaultLimits.depth)
    IN  IF m.type # t \/ d.err # "" THEN Mismatch ELSE Msg(d.msg)

\* Mutant: a message keeps the pool it came from.
AdoptUnread(f, v, pool) ==
    IF v.shape = "msg" /\ f.elem = "msg" /\ v.m.type = f.of THEN v
    ELSE IF ValidSingular(f, v, pool) THEN v ELSE Mismatch

AdoptSingular(f, v, pool) ==
    IF ValidSingular(f, v, pool) THEN v
    ELSE IF f.elem = "msg" /\ v.shape = "msg" THEN Rehome(v.m, f.of, pool)
    ELSE Mismatch

AdoptItems(f, items, pool) ==
    LET own == [i \in DOMAIN items |-> AdoptSingular(f, items[i], pool)]
    IN  IF \E i \in DOMAIN own : own[i] = Mismatch THEN Mismatch ELSE List(own)
AdoptEntries(f, entries, pool) ==
    LET own == [k \in DOMAIN entries |-> AdoptSingular(f, entries[k], pool)]
    IN  IF \E k \in DOMAIN own : own[k] = Mismatch THEN Mismatch ELSE Map(own, <<>>)
Adopt(f, v, pool) ==
    CASE f.card = "one" -> AdoptSingular(f, v, pool)
      [] f.card = "list" /\ v.shape = "list" -> AdoptItems(f, v.items, pool)
      [] f.card = "map" /\ v.shape = "map"   -> AdoptEntries(f, v.sorted, pool)
      [] OTHER -> Mismatch
=============================================================================
