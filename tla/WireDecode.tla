----------------------------- MODULE WireDecode -----------------------------
(***************************************************************************)
(* Decoding a message: the merge loops of Message, what generated code and *)
(* the table-driven decoder do for each field, unknown fields, the         *)
(* recursion limit and the two budgets of a DecodeContext, and what is     *)
(* left of a message when a merge fails.                                   *)
(*                                                                         *)
(* Generated code reads a nested message from the caller's buffer and      *)
(* notices only afterwards that a field ran past the announced length; a   *)
(* table splits the payload off first and cannot.  The two may be mixed    *)
(* type by type (table/bridge.rs), so each run of the decoder is given the *)
(* set of types that have tables.                                          *)
(*                                                                         *)
(* The recursion of the code is the variable `stack`.                      *)
(***************************************************************************)
EXTENDS WireFormat

CONSTANTS
    Types,          \* message types
    Schema,         \* Schema[t][n]: field n of type t
    Preserve,       \* the types that keep unknown fields
    EnumValues,     \* the numbers the closed enum knows
    Inputs,         \* what is decoded: <<type, entry point, buffer>>
    TableSets,      \* the sets of types that have tables, one per run
    InParts,        \* the types whose buffers are also merged in two parts
    MaxSize,        \* DecodeOptions::max_message_size
    RecursionLimit,
    UnknownLimit,   \* unknown_field_limit
    ElementLimit    \* element_memory_limit, in elements

\* int, bytes, enum: singular; r...: repeated; oint, omsg: members of the
\* type's oneof; menum, mmsg: maps from int to the enum or to a message.
LeafKinds == {"int", "bytes", "enum", "rint", "rbytes", "renum", "oint"}
MessageKinds == {"msg", "rmsg", "omsg", "group", "rgroup"}
MapKinds == {"menum", "mmsg"}
FieldKind == [kind : LeafKinds \cup MessageKinds \cup MapKinds, of : Types]

ASSUME SchemaAssumption ==
    /\ Preserve \subseteq Types /\ InParts \subseteq Types
    /\ \A t \in Types : DOMAIN Schema[t] \subseteq Nat \ {0}
    /\ \A t \in Types : \A n \in DOMAIN Schema[t] : Schema[t][n] \in FieldKind
    /\ EnumValues \subseteq 0 .. IntMod - 1 /\ 0 \in EnumValues
    /\ TableSets \subseteq SUBSET Types
    /\ \A i \in Inputs : /\ i[1] \in Types /\ i[2] \in {"plain", "delimited"}
                         /\ i[3] \in Seq(ByteValues)

ASSUME DecodeLimitsAssumption ==
    /\ MaxSize \in Nat /\ RecursionLimit \in Nat
    /\ UnknownLimit \in Nat /\ ElementLimit \in Nat

\* Types with a group field, or used as a group, have no table.
GroupTypes ==
    {t \in Types :
        \/ \E n \in DOMAIN Schema[t] : Schema[t][n].kind \in {"group", "rgroup"}
        \/ \E u \in Types : \E n \in DOMAIN Schema[u] :
              Schema[u][n].kind \in {"group", "rgroup"} /\ Schema[u][n].of = t}

ASSUME TablesAssumption ==
    \A tables \in TableSets : tables \cap GroupTypes = {}

-----------------------------------------------------------------------------
(***************************************************************************)
(* Message values.                                                         *)
(***************************************************************************)
\* The value of a field that was never set: zero, or an empty sequence, map or
\* MessageField (a sequence of at most one message).
Default(kind) == IF kind \in {"int", "enum"} THEN 0 ELSE <<>>

EmptyMsg(t) ==
    [fields |-> [n \in DOMAIN Schema[t] |-> Default(Schema[t][n].kind)],
     oneof  |-> <<>>,   \* or the set member: <<number, value>>
     unk    |-> <<>>]   \* unknown fields, in the order they came

\* UnknownField; of v, bytes and group the wire type says which one counts.
Unknown(num, wt, v, bytes, group) ==
    [num |-> num, wt |-> wt, v |-> v, bytes |-> bytes, group |-> group]

-----------------------------------------------------------------------------
VARIABLES
    data,       \* the buffer
    root,       \* the type it is decoded as
    entry,      \* the entry point
    cut,        \* the bytes merged first when the buffer comes in two parts
    phase,      \* "begin", "running", "unwinding", "done"
    tables,     \* the types that have tables in this run
    stack,      \* activations of the decoder, innermost last
    pos,        \* the next byte
    tag,        \* the tag that was read last, until its field is merged
    unkLeft,    \* unknown_fields_remaining
    memLeft,    \* element_memory_remaining
    err,        \* the error of this run, "ok" for none
    first,      \* what the first run over this buffer returned
    complete    \* elements and oneof members decoded to their end in this run

vars == <<data, root, entry, cut, phase, tables, stack, pos, tag, unkLeft,
          memLeft, err, first, complete>>

NoResult == [err |-> "none", val |-> <<>>, pos |-> 0, unk |-> 0, mem |-> 0]

\* An activation:
\*   role   what becomes of `val` when it ends: root; msg, elem, oneof and
\*          value (of a map entry) are messages, entry is a map entry, unk a
\*          group kept as an unknown field, skip a group thrown away
\*   num    the field it is, in the activation below
\*   group  ends at an end-group tag instead of at `end`
\*   end    its last byte; bound: the last byte that can be read from here
\*   had    the oneof member was already this one
\*   depth  how many levels may still open below it
IsMessage(fr) == fr.role \in {"root", "msg", "elem", "oneof", "value"}

Top == stack[Len(stack)]
Below == SubSeq(stack, 1, Len(stack) - 1)
ReplaceTop(fr) == Append(Below, fr)

\* The loop of the innermost activation goes on: `buf.remaining() > limit`, and
\* for a group until its end tag.
More == Top.group \/ pos <= Top.end

\* The tag of a field, and the one that ends a group.
NoTag == TagErr("none")
AtTag == phase = "running" /\ tag # NoTag
AtEndTag == Top.group /\ tag.wt = EndGroupWire
Reading == AtTag /\ ~ AtEndTag

\* The field the tag names in a message.
Known == IsMessage(Top) /\ tag.num \in DOMAIN Schema[Top.type]
Field == Schema[Top.type][tag.num]
Is(kinds) == Reading /\ Known /\ Field.kind \in kinds

-----------------------------------------------------------------------------
(***************************************************************************)
(* How an activation ends.                                                 *)
(***************************************************************************)
SetField(val, n, x) == [val EXCEPT !.fields[n] = x]
Insert(map, key, value) ==
    [k \in DOMAIN map \cup {key} |-> IF k = key THEN value ELSE map[k]]

\* The value of activation fr put where it belongs in `into`, the one below.
Attach(into, fr) ==
    CASE fr.role = "msg"   ->
            [into EXCEPT !.val = SetField(@, fr.num, <<fr.val>>)]
      [] fr.role = "elem"  ->
            [into EXCEPT !.val = SetField(@, fr.num,
                                    Append(@.fields[fr.num], fr.val))]
      [] fr.role = "oneof" -> [into EXCEPT !.val.oneof = <<fr.num, fr.val>>]
      [] fr.role = "value" -> [into EXCEPT !.val.value = fr.val]
      [] fr.role = "unk"   ->
            LET u == Unknown(fr.num, StartGroupWire, 0, <<>>, fr.val) IN
            IF IsMessage(into) THEN [into EXCEPT !.val.unk = Append(@, u)]
            ELSE [into EXCEPT !.val = Append(@, u)]
      [] OTHER             -> into

\* Mutant: an element whose decode failed stays in its field.
AttachFailedKeepsElement(into, fr) ==
    IF fr.role \in {"msg", "elem"} \/ (fr.role = "oneof" /\ fr.had)
      THEN Attach(into, fr) ELSE into

\* What stays of an activation that failed: a singular message was merged in
\* place, and so was a oneof member that was already set; an element is popped
\* or was never pushed, and anything else is dropped.
AttachFailed(into, fr) ==
    IF fr.role = "msg" \/ (fr.role = "oneof" /\ fr.had)
      THEN Attach(into, fr) ELSE into

\* The call returns Err(e): `?` all the way out.
Fail(e) ==
    /\ err' = e
    /\ tag' = NoTag
    /\ phase' = "unwinding"
    /\ UNCHANGED <<data, root, entry, cut, tables, stack, pos, unkLeft, memLeft,
                   first, complete>>

\* The same when it happens inside the field activation fr that was opening.
FailOpening(e, fr) ==
    /\ err' = e
    /\ tag' = NoTag
    /\ phase' = "unwinding"
    /\ stack' = ReplaceTop(AttachFailed(Top, fr))
    /\ UNCHANGED <<data, root, entry, cut, tables, pos, unkLeft, memLeft, first,
                   complete>>

Unwind ==
    /\ phase = "unwinding"
    /\ Len(stack) > 1
    /\ stack' = SubSeq(stack, 1, Len(stack) - 2)
                  \o <<AttachFailed(stack[Len(stack) - 1], Top)>>
    /\ UNCHANGED <<data, root, entry, cut, phase, tables, pos, tag, unkLeft,
                   memLeft, err, first, complete>>

\* One field merged into the innermost activation, reading up to `next`.
Merged(next, val) ==
    /\ stack' = ReplaceTop([Top EXCEPT !.val = val])
    /\ pos' = next
    /\ tag' = NoTag
    /\ UNCHANGED <<data, root, entry, cut, phase, tables, err, first, complete>>

Charge(unknown, element) ==
    /\ unkLeft' = unkLeft - unknown
    /\ memLeft' = memLeft - element

-----------------------------------------------------------------------------
(***************************************************************************)
(* Fields without structure.                                               *)
(***************************************************************************)
Val == Top.val

\* Tag::decode, at the head of every loop.
NextTag(t) ==
    IF t.err # "ok" THEN Fail(t.err)
    ELSE /\ tag' = t
         /\ pos' = t.next
         /\ UNCHANGED <<data, root, entry, cut, phase, tables, stack, unkLeft,
                        memLeft, err, first, complete>>

DecodeTag ==
    /\ phase = "running" /\ tag = NoTag /\ More
    /\ NextTag(ReadTag(data, pos, Top.bound))

StoreInt(r) ==
    IF tag.wt # VarintWire THEN Fail("mismatch")
    ELSE IF r.err # "ok" THEN Fail(r.err)
    ELSE /\ Merged(r.next,
              IF Field.kind = "int" THEN SetField(Val, tag.num, r.v % IntMod)
              ELSE [Val EXCEPT !.oneof = <<tag.num, r.v % IntMod>>])
         /\ Charge(0, 0)

MergeInt ==
    /\ Is({"int", "oint"})
    /\ StoreInt(ReadVarint(data, pos, Top.bound))

\* The element is charged after it was read.
StoreBytes(r, cost) ==
    IF tag.wt # LenWire THEN Fail("mismatch")
    ELSE IF r.err # "ok" THEN Fail(r.err)
    ELSE IF cost > memLeft THEN Fail("element_limit")
    ELSE /\ LET b == Slice(data, r.next, r.next + r.v - 1) IN
            Merged(r.next + r.v,
                   SetField(Val, tag.num, IF cost = 0 THEN b
                                          ELSE Append(Val.fields[tag.num], b)))
         /\ Charge(0, cost)

MergeBytes ==
    /\ Is({"bytes", "rbytes"})
    /\ StoreBytes(ReadSpan(data, pos, Top.bound, NoLimit),
                  IF Field.kind = "rbytes" THEN 1 ELSE 0)

\* The error of a packed payload leaves the elements before it in the field.
FailAfter(e, val) ==
    /\ err' = e
    /\ tag' = NoTag
    /\ phase' = "unwinding"
    /\ stack' = ReplaceTop([Top EXCEPT !.val = val])
    /\ UNCHANGED <<data, root, entry, cut, tables, pos, unkLeft, memLeft, first,
                   complete>>

\* The int32s of a repeated field's record, packed between two lengths or
\* single.
IntsIn(span) ==
    IF span.err # "ok" THEN [err |-> span.err, vals |-> <<>>, next |-> 0]
    ELSE PackedInts(data, span.next, span.next + span.v - 1)
OneInt(r) ==
    [err |-> r.err, next |-> r.next,
     vals |-> IF r.err = "ok" THEN <<r.v % IntMod>> ELSE <<>>]

Ints ==
    CASE tag.wt = LenWire    ->
            IntsIn(ReadSpan(data, pos, Top.bound, NoLimit))
      [] tag.wt = VarintWire -> OneInt(ReadVarint(data, pos, Top.bound))
      [] OTHER -> [err |-> "mismatch", vals |-> <<>>, next |-> 0]

StoreInts(ints, val) ==
    IF ints.err # "ok" THEN FailAfter(ints.err, val)
    ELSE Merged(ints.next, val) /\ Charge(0, 0)

MergeRepeatedInt ==
    /\ Is({"rint"})
    /\ LET store(ints) ==
             StoreInts(ints, SetField(Val, tag.num,
                                      Val.fields[tag.num] \o ints.vals))
       IN  store(Ints)

KeepsUnknown(t) == t \in Preserve

\* A closed enum's numbers stored in order: the ones it knows go to the field,
\* the others to the unknown fields.
EnumsStored(seen, kept) ==
    LET old == Val.fields[tag.num]
        new == CASE Field.kind = "renum" -> old \o seen
                 [] seen = <<>>          -> old
                 [] OTHER                -> seen[Len(seen)]
    IN  [SetField(Val, tag.num, new) EXCEPT !.unk =
            IF ~ KeepsUnknown(Top.type) THEN @
            ELSE @ \o [i \in 1 .. Len(kept) |->
                         Unknown(tag.num, VarintWire, SignExtend(kept[i]),
                                 <<>>, <<>>)]]

StoredEnums(vals) ==
    LET known(v) == v \in EnumValues
        unknown(v) == v \notin EnumValues
    IN  EnumsStored(SelectSeq(vals, known), SelectSeq(vals, unknown))

\* The number of budget units they cost, and the longest prefix that the
\* budget covers.
UnknownCost(vals) ==
    IF ~ KeepsUnknown(Top.type) THEN 0
    ELSE Cardinality({i \in 1 .. Len(vals) : vals[i] \notin EnumValues})

Affordable(vals) ==
    LET fits == {n \in 0 .. Len(vals) :
                    UnknownCost(SubSeq(vals, 1, n)) <= unkLeft}
    IN  SubSeq(vals, 1, CHOOSE n \in fits : \A m \in fits : m <= n)

StoreEnums(ints, stored) ==
    IF stored # ints.vals THEN FailAfter("unknown_limit", StoredEnums(stored))
    ELSE IF ints.err # "ok" THEN FailAfter(ints.err, StoredEnums(stored))
    ELSE Merged(ints.next, StoredEnums(stored))
           /\ Charge(UnknownCost(stored), 0)

MergeEnum ==
    /\ Is({"enum", "renum"})
    /\ IF Field.kind = "enum" /\ tag.wt # VarintWire THEN Fail("mismatch")
       ELSE LET store(ints) == StoreEnums(ints, Affordable(ints.vals))
            IN  store(Ints)

-----------------------------------------------------------------------------
(***************************************************************************)
(* Nested messages, groups and map entries.                                *)
(***************************************************************************)
Open(fr, next, unknown, element) ==
    /\ stack' = Append(stack, fr)
    /\ pos' = next
    /\ tag' = NoTag
    /\ Charge(unknown, element)
    /\ UNCHANGED <<data, root, entry, cut, phase, tables, err, first, complete>>

\* Mutant: the level a nested activation opens is not counted.
DescendFree(fr) == fr.depth

\* `ctx.descend()`: one level less below.
Descend(fr) == fr.depth - 1

\* A table reads from the payload alone, generated code from the whole buffer.
Bound(t, end) == IF t \in tables THEN end ELSE Top.bound

\* The activation for a message field of type t in role r, before its length
\* is known.
Nested(r, t, num, val, had) ==
    [role |-> r, type |-> t, num |-> num, group |-> FALSE, end |-> 0,
     bound |-> Top.bound, depth |-> Descend(Top), val |-> val, had |-> had]

RoleOf(kind) ==
    CASE kind \in {"msg", "group"}   -> "msg"
      [] kind \in {"rmsg", "rgroup"} -> "elem"
      [] OTHER                       -> "oneof"

\* The field's message, to merge into: the one that is set, else a new one.
SetMember == Val.oneof # <<>> /\ Val.oneof[1] = tag.num
FieldFrame(role) ==
    LET old == CASE role = "msg" /\ Val.fields[tag.num] # <<>> ->
                      Val.fields[tag.num][1]
                 [] role = "oneof" /\ SetMember -> Val.oneof[2]
                 [] OTHER -> EmptyMsg(Field.of)
    IN  Nested(role, Field.of, tag.num, old, role = "oneof" /\ SetMember)

\* An element is charged before it is read.
ElementCost(role) == IF role = "elem" THEN 1 ELSE 0

\* merge_length_delimited, merge_sub: r is the length and where it ends.
OpenSpan(fr, r) ==
    IF Top.depth = 0 THEN FailOpening("recursion", fr)
    ELSE IF r.err # "ok" THEN FailOpening(r.err, fr)
    ELSE Open([fr EXCEPT !.end = r.next + r.v - 1,
                         !.bound = Bound(fr.type, r.next + r.v - 1)],
              r.next, 0, ElementCost(fr.role))

OpenMessage ==
    /\ Is({"msg", "rmsg", "omsg"})
    /\ IF tag.wt # LenWire THEN Fail("mismatch")
       ELSE IF ElementCost(RoleOf(Field.kind)) > memLeft
         THEN Fail("element_limit")
       ELSE OpenSpan(FieldFrame(RoleOf(Field.kind)),
                     ReadSpan(data, pos, Top.bound, MaxMessage))

\* merge_group.
OpenGroupFrame(fr) ==
    IF Top.depth = 0 THEN FailOpening("recursion", fr)
    ELSE Open([fr EXCEPT !.group = TRUE], pos, 0, ElementCost(fr.role))

OpenGroup ==
    /\ Is({"group", "rgroup"})
    /\ IF tag.wt # StartGroupWire THEN Fail("mismatch")
       ELSE IF ElementCost(RoleOf(Field.kind)) > memLeft
         THEN Fail("element_limit")
       ELSE OpenGroupFrame(FieldFrame(RoleOf(Field.kind)))

\* A map entry is not a level of its own.  A table and the code that may have
\* to keep the entry as an unknown field decode it from its payload alone.
DecodedAlone == Top.type \in tables
                  \/ (Field.kind = "menum" /\ KeepsUnknown(Top.type))

EntryFrame(from, end) ==
    [role |-> "entry", type |-> Top.type, num |-> tag.num, group |-> FALSE,
     end |-> end, bound |-> IF DecodedAlone THEN end ELSE Top.bound,
     depth |-> Top.depth, had |-> FALSE,
     val |-> [key |-> 0, known |-> TRUE, start |-> from,
              value |-> IF Field.kind = "menum" THEN 0
                        ELSE EmptyMsg(Field.of)]]

OpenEntrySpan(r) ==
    IF tag.wt # LenWire THEN Fail("mismatch")
    ELSE IF r.err # "ok" THEN Fail(r.err)
    ELSE IF memLeft = 0 THEN Fail("element_limit")
    ELSE Open(EntryFrame(r.next, r.next + r.v - 1), r.next, 0, 1)

OpenEntry ==
    /\ Is(MapKinds)
    /\ OpenEntrySpan(ReadSpan(data, pos, Top.bound, NoLimit))

InEntry(n) == Reading /\ Top.role = "entry" /\ tag.num = n
MapField == Schema[Top.type][Top.num]

\* The key, or the number of a closed enum: the last one decides whether the
\* entry's value is known.
EntryValue(v) ==
    IF tag.num = 1 THEN [Val EXCEPT !.key = v]
    ELSE [Val EXCEPT !.known = v \in EnumValues,
                     !.value = IF v \in EnumValues THEN v ELSE @]

StoreEntryInt(r) ==
    IF tag.wt # VarintWire THEN Fail("mismatch")
    ELSE IF r.err # "ok" THEN Fail(r.err)
    ELSE Merged(r.next, EntryValue(r.v % IntMod)) /\ Charge(0, 0)

EntryInt ==
    /\ InEntry(1) \/ (InEntry(2) /\ MapField.kind = "menum")
    /\ StoreEntryInt(ReadVarint(data, pos, Top.bound))

EntryMessage ==
    /\ InEntry(2) /\ MapField.kind = "mmsg"
    /\ IF tag.wt # LenWire THEN Fail("mismatch")
       ELSE OpenSpan(Nested("value", MapField.of, 2, Val.value, FALSE),
                     ReadSpan(data, pos, Top.bound, MaxMessage))

-----------------------------------------------------------------------------
(***************************************************************************)
(* Fields the schema does not name.                                        *)
(***************************************************************************)
\* decode_unknown_field, for a message that keeps them and below a kept group.
Keeping ==
    /\ Reading
    /\ \/ IsMessage(Top) /\ ~ Known /\ KeepsUnknown(Top.type)
       \/ Top.role = "unk"

\* skip_field_depth, for a message that does not, in a map entry and below a
\* skipped group.
Skipping ==
    /\ Reading
    /\ \/ IsMessage(Top) /\ ~ Known /\ ~ KeepsUnknown(Top.type)
       \/ Top.role = "entry" /\ tag.num \notin {1, 2}
       \/ Top.role = "skip"

\* Mutant: only the outermost record of a group is charged.
RecordCostOutermost == IF Top.role = "unk" THEN 0 ELSE 1

\* Every record is charged: a group, and each record in it.
RecordCost == 1

UnknownFlat(r) ==
    IF tag.wt = VarintWire THEN Unknown(tag.num, VarintWire, r.v, <<>>, <<>>)
    ELSE Unknown(tag.num, tag.wt, 0,
                 Slice(data, IF tag.wt = LenWire THEN r.next - r.v ELSE pos,
                       r.next - 1), <<>>)

StoreUnknown(r) ==
    IF RecordCost > unkLeft THEN Fail("unknown_limit")
    ELSE IF r.err # "ok" THEN Fail(r.err)
    ELSE /\ Merged(r.next, IF IsMessage(Top)
                             THEN [Val EXCEPT !.unk = Append(@, UnknownFlat(r))]
                             ELSE Append(Val, UnknownFlat(r)))
         /\ Charge(RecordCost, 0)

KeepFlat ==
    /\ Keeping /\ tag.wt # StartGroupWire
    /\ StoreUnknown(ReadFlat(data, pos, Top.bound, tag.wt))

GroupFrame(role) ==
    [role |-> role, type |-> Top.type, num |-> tag.num, group |-> TRUE,
     end |-> 0, bound |-> Top.bound, depth |-> Descend(Top), val |-> <<>>,
     had |-> FALSE]

KeepGroup ==
    /\ Keeping /\ tag.wt = StartGroupWire
    /\ IF RecordCost > unkLeft THEN Fail("unknown_limit")
       ELSE IF Top.depth = 0 THEN Fail("recursion")
       ELSE Open(GroupFrame("unk"), pos, RecordCost, 0)

SkipTo(r) ==
    IF r.err # "ok" THEN Fail(r.err) ELSE Merged(r.next, Val) /\ Charge(0, 0)

SkipFlat ==
    /\ Skipping /\ tag.wt # StartGroupWire
    /\ SkipTo(ReadFlat(data, pos, Top.bound, tag.wt))

SkipGroup ==
    /\ Skipping /\ tag.wt = StartGroupWire
    /\ IF Top.depth = 0 THEN Fail("recursion")
       ELSE Open(GroupFrame("skip"), pos, 0, 0)

-----------------------------------------------------------------------------
(***************************************************************************)
(* The ends of an activation.                                              *)
(***************************************************************************)
\* The activation below goes on with this one's value in place.
Resume(into, next, unknown) ==
    /\ stack' = SubSeq(stack, 1, Len(stack) - 2) \o <<into>>
    /\ pos' = next
    /\ tag' = NoTag
    /\ complete' = IF Top.role \in {"elem", "oneof"}
                     THEN complete \cup {<<Top.type, Top.num, Top.val>>}
                     ELSE complete
    /\ Charge(unknown, 0)
    /\ UNCHANGED <<data, root, entry, cut, phase, tables, err, first>>

CloseGroup ==
    /\ AtTag /\ AtEndTag
    /\ IF tag.num # Top.num THEN Fail("end_group")
       ELSE Resume(Attach(stack[Len(stack) - 1], Top), pos, 0)

\* Mutant: the position behind the last field is not compared with the end.
OverranNever == FALSE

\* The last field ran past the announced length.
Overran == pos > Top.end + 1

Ended(roles) ==
    /\ phase = "running" /\ tag = NoTag
    /\ ~ Top.group /\ pos > Top.end
    /\ Top.role \in roles

CloseMessage ==
    /\ Ended({"msg", "elem", "oneof", "value"})
    /\ IF Overran THEN Fail("eof")
       ELSE Resume(Attach(stack[Len(stack) - 1], Top), pos, 0)

\* An entry goes into the map unless its enum value is unknown; then the
\* payload is kept as an unknown field of the message, or dropped.
CloseEntry ==
    /\ Ended({"entry"})
    /\ LET into == stack[Len(stack) - 1]
           map == into.val.fields[Top.num]
       IN  IF Overran THEN Fail("eof")
           ELSE IF Val.known
             THEN Resume([into EXCEPT !.val = SetField(@, Top.num,
                            Insert(map, Val.key, Val.value))], pos, 0)
           ELSE IF ~ KeepsUnknown(into.type) THEN Resume(into, pos, 0)
           ELSE IF unkLeft = 0 THEN Fail("unknown_limit")
           ELSE Resume([into EXCEPT !.val.unk = Append(@,
                          Unknown(Top.num, LenWire, 0,
                                  Slice(data, Val.start, Top.end), <<>>))], pos, 1)

-----------------------------------------------------------------------------
(***************************************************************************)
(* The entry points: Message::decode and merge_from_slice, the two         *)
(* decode_length_delimited, and the same with DecodeOptions.  Each call    *)
(* starts with fresh budgets.                                              *)
(***************************************************************************)
Init ==
    /\ \E i \in Inputs : root = i[1] /\ entry = i[2] /\ data = i[3]
    /\ cut = Len(data)
    /\ phase = "begin"
    /\ tables = {}
    /\ stack = <<>>
    /\ pos = 1 /\ tag = NoTag
    /\ unkLeft = UnknownLimit /\ memLeft = ElementLimit
    /\ err = "ok"
    /\ first = NoResult
    /\ complete = {}

\* Mutant: a merge starts from an empty message, as a decode does.
RootFrameCleared(end, bound, val) ==
    [role |-> "root", type |-> root, num |-> 0, group |-> FALSE, end |-> end,
     bound |-> bound, depth |-> RecursionLimit, val |-> EmptyMsg(root),
     had |-> FALSE]

RootFrame(end, bound, val) ==
    [role |-> "root", type |-> root, num |-> 0, group |-> FALSE, end |-> end,
     bound |-> bound, depth |-> RecursionLimit, val |-> val, had |-> FALSE]

\* The bytes the call covers: all of them, or as many as the prefix says.
Prefix(k) ==
    IF entry = "plain"
      THEN IF k > MaxSize THEN ReadErr("too_large") ELSE ReadOk(k, 1)
      ELSE ReadSpan(data, 1, Len(data),
                    IF MaxSize < MaxMessage THEN MaxSize ELSE MaxMessage)

\* A call with the types in ts decoded by tables, over the first k bytes.
Begin(ts, k) ==
    /\ phase = "begin"
    /\ tables' = ts
    /\ cut' = k
    /\ LET prefix == Prefix(k)
           end == prefix.next + prefix.v - 1
           bound == IF root \in ts \/ entry = "plain" THEN end ELSE Len(data)
       IN  IF prefix.err # "ok"
             THEN /\ stack' = <<RootFrame(0, 0, EmptyMsg(root))>>
                  /\ err' = prefix.err
                  /\ phase' = "unwinding"
                  /\ pos' = 1
             ELSE /\ stack' = <<RootFrame(end, bound, EmptyMsg(root))>>
                  /\ err' = "ok"
                  /\ phase' = "running"
                  /\ pos' = prefix.next
    /\ unkLeft' = UnknownLimit /\ memLeft' = ElementLimit
    /\ complete' = {}
    /\ UNCHANGED <<data, root, entry, tag, first>>

\* All types in generated code first; then with tables, or in two parts.
BeginGenerated == first = NoResult /\ Begin({}, Len(data))
BeginTables == first # NoResult /\ \E ts \in TableSets : Begin(ts, Len(data))
BeginParts ==
    /\ first # NoResult
    /\ root \in InParts /\ entry = "plain"
    /\ \E k \in 1 .. Len(data) - 1 : Begin({}, k)

\* The second merge into the same message, with budgets of its own.
MergeRest ==
    /\ Ended({"root"}) /\ ~ Overran
    /\ entry = "plain" /\ Top.end < Len(data)
    /\ IF Len(data) - Top.end > MaxSize THEN Fail("too_large")
       ELSE /\ stack' = <<RootFrame(Len(data), Len(data), Val)>>
            /\ unkLeft' = UnknownLimit /\ memLeft' = ElementLimit
            /\ UNCHANGED <<data, root, entry, cut, phase, tables, pos, tag, err,
                           first, complete>>

RootOverran ==
    /\ Ended({"root"}) /\ Overran
    /\ Fail("eof")

\* The call returns.
Finish ==
    /\ \/ Ended({"root"}) /\ ~ Overran
             /\ (entry = "plain" => Top.end = Len(data))
       \/ phase = "unwinding" /\ Len(stack) = 1
    /\ IF first = NoResult
         THEN /\ first' = [err |-> err, val |-> <<Val>>, pos |-> pos,
                           unk |-> unkLeft, mem |-> memLeft]
              /\ phase' = "begin"
              /\ stack' = <<>>
              /\ complete' = {}
         ELSE phase' = "done" /\ UNCHANGED <<first, stack, complete>>
    /\ UNCHANGED <<data, root, entry, cut, tables, pos, tag, unkLeft, memLeft,
                   err>>

Fields ==
    \/ DecodeTag
    \/ MergeInt \/ MergeBytes \/ MergeRepeatedInt \/ MergeEnum
    \/ OpenMessage \/ OpenGroup
    \/ OpenEntry \/ EntryInt \/ EntryMessage
    \/ KeepFlat \/ KeepGroup \/ SkipFlat \/ SkipGroup
Ends ==
    \/ CloseGroup \/ CloseMessage \/ CloseEntry
    \/ MergeRest \/ RootOverran \/ Unwind \/ Finish
Returned == phase = "done" /\ UNCHANGED vars

Next == BeginGenerated \/ BeginTables \/ BeginParts \/ Fields \/ Ends
            \/ Returned

Spec == Init /\ [][Next]_vars

-----------------------------------------------------------------------------
(***************************************************************************)
(* Properties.                                                             *)
(***************************************************************************)
\* No byte past the buffer is ever read, and none past the payload of a message
\* that has a table or of an entry that is decoded alone: each activation reads
\* within the one below it, the end a length announces lies within the bytes
\* that can be read, and the position never passes them.
StaysInBounds ==
    phase = "running" =>
        /\ pos <= Top.bound + 1
        /\ \A k \in 1 .. Len(stack) :
              LET fr == stack[k] IN
              /\ fr.bound <= Len(data)
              /\ k > 1 => fr.bound <= stack[k - 1].bound
              /\ ~ fr.group => fr.end <= fr.bound
              /\ IsMessage(fr) /\ fr.type \in tables => fr.bound = fr.end

\* The recursion limit bounds the native stack whatever the nesting is made of:
\* every activation but a map entry's costs a level, so at most RecursionLimit
\* of them lie above the outermost, with at most one entry between two.
DepthBounded ==
    /\ \A k \in 1 .. Len(stack) :
          stack[k].depth = RecursionLimit
              - Cardinality({j \in 2 .. k : stack[j].role # "entry"})
    /\ \A k \in 1 .. Len(stack) - 1 :
          ~ (stack[k].role = "entry" /\ stack[k + 1].role = "entry")

\* Neither budget is overdrawn, by whichever message, group or entry.
BudgetsKept ==
    /\ unkLeft \in 0 .. UnknownLimit
    /\ memLeft \in 0 .. ElementLimit

\* The three limits of a decode hold at every step of it.
LimitsKept == DepthBounded /\ BudgetsKept

\* Tables are invisible: whichever types have them, a buffer is accepted or
\* not all the same, and an accepted one gives the same message, ends at the
\* same byte and costs the same of both budgets.  Only the error may differ,
\* since generated code can meet another one before it notices an overrun.
TablesAgree ==
    phase = "done" /\ cut = Len(data) =>
        /\ err = "ok" <=> first.err = "ok"
        /\ err = "ok" =>
              /\ first.val = <<stack[1].val>>
              /\ first.pos = pos
              /\ first.unk = unkLeft /\ first.mem = memLeft

\* Merging a buffer in two parts into one message is decoding it whole: where
\* the first part is accepted, the second ends in the same error or in none,
\* and leaves the same message, even a half-merged one.  The exceptions are
\* the limits, which each call has to itself.
MergeIsConcatenation ==
    phase = "done" /\ cut < Len(data) /\ stack[1].end = Len(data)
        /\ first.err \notin {"too_large", "unknown_limit", "element_limit"}
      => err = first.err /\ first.val = <<stack[1].val>>

\* A failed merge leaves no half-decoded element in a repeated field, and never
\* exchanges a oneof's member for one that was not decoded to its end.
FailureLeavesComplete ==
    (phase = "done" \/ (phase = "unwinding" /\ Len(stack) = 1)) =>
        LET val == stack[1].val IN
        /\ \A n \in DOMAIN Schema[root] :
              Schema[root][n].kind \in {"rmsg", "rgroup"} =>
                  \A i \in 1 .. Len(val.fields[n]) :
                      <<Schema[root][n].of, n, val.fields[n][i]>> \in complete
        /\ val.oneof # <<>> /\ Schema[root][val.oneof[1]].kind = "omsg" =>
              \E c \in complete : c[2] = val.oneof[1]
=============================================================================
